# Climate Alerts: formal model

TLA+ specifications, TLC model checks and TLAPS proofs for the Climate Alerts
service of this repository: an HTTP API on which users define alerts over daily
weather forecasts, and a worker that evaluates them and delivers notifications to
a webhook. Paths below are relative to the repository root.

## 1. The system

### Components, their state and operations

| Component | State | Operations | Where |
|---|---|---|---|
| Alerts API | table `alerts` | `POST`, `PATCH`, `DELETE` (and reads) | `app/modules/alerts/api.py`, `schemas.py`, `service.py` |
| Alert rules | none (pure) | threshold validation, comparison, window | `app/modules/alerts/validation.py`, `evaluator.py`, `models.py` |
| Worker: evaluation | tables `alert_triggers`, `notification_deliveries` (inserts), `alerts.last_evaluated_at` | `evaluate_alerts` | `app/worker/jobs.py:55-171` |
| Worker: delivery | table `notification_deliveries` (updates); a batch in memory | `deliver_pending_notifications` | `app/worker/jobs.py:174-316`, `app/modules/notifications/` |
| Worker: loop | none | a cycle is evaluation, then delivery; a failed cycle is tried again | `app/worker/main.py`, `jobs.py:319-334` |
| Forecasts | table `weather_forecasts` | replaced by an external ingestion job | `app/modules/weather/models.py` |
| Receiver (mock) | trigger ids it has refused, in memory | answers a post, refusing the first of each id in fail-first mode | `app/mock_whatsapp/app.py` |
| Seed command | all tables | reset, test for users, insert | `app/cli.py` |
| Migrations | the schema | upgrade, downgrade | `alembic/versions/` |
| Reads, users, fields, settings, error handlers, logging | | | `app/modules/*/api.py`, `app/core/`, `app/db/` |

### How they interact

All components share one PostgreSQL database and nothing else. A session runs at
READ COMMITTED, no row is locked by a read, and there is no version column: what
a session has read may be out of date when it writes. SQLAlchemy's flush writes
only the columns whose assigned value differs from the value *loaded*
(`Orm.tla`). What keeps the tables consistent is the atomicity of a commit, the
CHECK constraints, the unique indexes and `ON CONFLICT DO NOTHING`.

- The API and the evaluation both write `alerts`.
- Evaluation creates triggers and their delivery rows in one commit; delivery
  finds the rows by polling.
- Delivery closes its session, posts a whole batch concurrently
  (`asyncio.gather`), and opens another session to record the outcomes.
- The receiver knows a notification by its trigger id only.
- The seed command truncates all tables and restarts their ids in one
  transaction and inserts in the next, while the worker and the API may be up.

### What is hard here

- **Interleavings between the statements of a request or a cycle**: a load and
  the commit that acts on it are apart; edits, deletes and ingestion fall between.
- **Crashes and failures between a post and its record**, lost answers, answers
  the table cannot store, posts that raise instead of answering.
- **Retries**: the count, the limit and the backoff schedule; batch limits.
- **A second worker**: the README assumes one (`README.md:38`, `:58`, `:153`), but
  `docs/IMPLEMENTATION_GUIDE.md:117-120` starts a second one (`make worker-once`)
  next to the service, and nothing claims rows.
- **Ids given out again**: a reset restarts them while a cycle, a request, a batch
  being posted and the receiver's memory hold ids of the rows that were there.
- **Locks**: `TRUNCATE` needs all tables, in an order a cycle does not follow, so
  they can wait for each other until PostgreSQL aborts one of them.
- **Time**: minutes for backoff, midnight for windows.

`PROJECT.json` lists each hazard at its line, with the properties aimed at it.

### What makes each component correct

- *Alerts API*: no two live alerts with the same rule; a deleted alert stays
  deleted and inactive; an edit does to the row what it would do alone, validation
  included; what the validators let through, the table takes.
- *Evaluation*: at most one trigger per alert and forecast; each with a delivery
  row; a snapshot true of itself; triggers are never cancelled or rewritten; a
  lasting match is triggered in the end; a cycle reverts no edit.
- *Delivery*: `DELIVERED` only if the receiver took it; recorded attempts match
  posts, apart from those of failed cycles and of gathers that raise (finding 1);
  attempts numbered without gaps; the
  limit is exact; terminal rows are final; every row settles; the table's CHECKs
  refuse no honest outcome. In the abstract (`NotificationService.tla`): a
  notification is open, offered only when due, and settled once.
- *The system*: a lasting match is notified, or given up for a reason.
- *Seed command*: no row refers to a row of another data set; no outcome is
  recorded on a row it is not about; data sets pile up only when commands overlap;
  the generated data passes every CHECK; the command ends.
- *Migrations*: head is the schema the models declare, by whatever path; no
  upgrade meets a schema that refuses it; it is known what stops a downgrade, and a stopped command leaves nothing.

## 2. Modules

| Module | Models |
|---|---|
| `Orm.tla` | the dirty-column UPDATE of a session (external: SQLAlchemy) |
| `Delivery.tla` | the delivery loop, its crash and error paths, the receiver, the clock |
| `NotificationService.tla` | the abstract promise of delivery: queued, offered when due, recorded, settled |
| `DeliveryService.tla` | the refinement mapping from `Delivery.tla` to it |
| `AlertRules.tla` | metrics, operators, thresholds, comparison, window, CHECKs of `alerts` |
| `AlertApi.tla` | the write endpoints of alerts, load and commit apart |
| `Evaluation.tla` | `evaluate_alerts` composed with `AlertApi.tla`, ingestion and midnight |
| `EvaluationLoop.tla` | the loops of a cycle statement by statement, with autoflush and row locks |
| `MockWhatsapp.tla` | the receiver of the deployment and its memory |
| `ClimateAlerts.tla` | the deployment: `Evaluation.tla`, `Delivery.tla` and `MockWhatsapp.tla` in the cycles of one worker |
| `SeedData.tla` | the data the seed command makes up, the CHECKs of `weather_forecasts` |
| `SeedReset.tla` | the seed command beside worker, request and receiver, with table locks |
| `Migrations.tla` | the Alembic revisions as scripts of statements, the commands that run them |
| `DeliveryProofs.tla` | theorems about `Delivery.tla`, for any number of workers and for one |
| `DeliveryServiceProofs.tla` | the accounting of posts, and that `Delivery.tla` implements `NotificationService.tla` |
| `AlertApiProofs.tla` | theorems about `AlertApi.tla` |
| `EvaluationProofs.tla` | theorems about `Evaluation.tla`, on top of those about the API |
| `ClimateAlertsProofs.tla` | theorems about the deployment, from those about its parts |
| `EvaluationLoopProofs.tla` | that `EvaluationLoop.tla` implements `Evaluation.tla`, and that its cycles never deadlock |
| `SeedResetProofs.tla` | the demo data passes the CHECKs at every size; who holds which table locks, and what they protect |
| `MigrationsProofs.tla` | theorems about `Migrations.tla`, for any sequence of commands |
| `MC*.tla`, `MC*.cfg` | instances for TLC, and statements of the documentation the code does not keep |

### Delivery.tla

| Code | Model |
|---|---|
| a row of `notification_deliveries` | `rows[d]`; status `ABSENT` until evaluation inserts it |
| `utcnow()` | `now`, in minutes |
| `pending_deliveries` and the counts copied into it | `batch[w]`, `copied[w]` |
| the results of `gather` | `outcome[w]` |
| the rows `_apply_delivery_outcomes` reads | `snapshot[w]` |
| `run_once` entering its delivery half | `StartCycle` (new rows come from evaluation) |
| `_load_pending_delivery_batch` | `LoadBatch`, `FinishCycle` |
| `deliver_webhook`, once per row, in any order | `Post` |
| an exception other than `httpx.HTTPError` | `GatherRaises`, `OrphanArrives` |
| `_apply_delivery_outcomes`: read, then assign and commit | `ReadBack`, `Commit` or `Rollback` |
| a crash, a database error | `CycleFails` |

`posts`, `seen` and `accepted` record what was posted, whether or not it left, and
what the receiver took; the code never reads them. `last_error` keeps which outcome worded it,
`sent_at` only whether it is set. The receiver may answer anything in `Answers`
or nothing (`NoAnswer`: an `httpx.HTTPError`), and then it may have taken the
notification all the same. `Poison` is the set of rows whose `target_url` httpx
refuses to parse.

### NotificationService.tla and DeliveryService.tla

The service knows no workers, batches, sessions or columns: a notification is
unknown, open, delivered or given up, has attempts on record and a time before
which it must not be offered. Under the mapping (`StateOf` of the status, the
row's `attempt_count` and `next_attempt_at`, the receiver's `accepted`), loading
a batch, posts that fail and rolled back cycles are stutters, a post that arrives
is `Take`, a commit is one `Record` of the whole batch, `StartCycle` is `Queue`.
It holds for one worker and rows that can be posted: a second worker offers a
settled notification again, and so does an orphaned post.

### AlertApi.tla and Evaluation.tla

A PATCH or DELETE is two steps, the load with everything computed from it, and
the commit with the constraints of the table (`CommitRequest` or
`RefuseRequest`, a 409). A POST tests only the ownership of its field before it
inserts, and is one step. A cycle of evaluation is three: `LoadAlerts` (the date
and the live alerts), `LoadForecasts`, `CommitCycle` (triggers, delivery rows
and stamps). `Considers` folds the loop's `break`: candidates come ordered by
date, so it leaves out exactly those past the alert's own window
(`EvaluationLoop.tla` has the break itself).
`evaluated_on` in a trigger and `stamped` are history for the properties.

The validators (`ThresholdIsValid`, `SchemaAccepts`) and the CHECKs
(`ThresholdChecks`, `AlertChecks`) are separate definitions, as they are in the
code, and `RefusedForAReason` compares them. `IntMax` is the width of INTEGER; a
threshold beyond it is refused by the driver (500), everything else the table
refuses is an `IntegrityError` (409), and both end in `RefuseRequest`.

### EvaluationLoop.tla

The third step of a cycle taken apart. `left` and `ahead` are where the two loops
stand, `inserted` the triggers of the open transaction, `assigned` the alerts whose
stamp the session holds, `locked` those whose stamp it has written. `left` and
`ahead` stand at what is inserted next: `GoOn` walks past the forecasts that do not
match and takes the break, with the step that leads there, since neither touches the
database. SQLAlchemy
flushes assigned stamps before the next statement (autoflush is on) and at the
commit, one UPDATE per alert in the order of the ids. PostgreSQL makes an
`ON CONFLICT` insert wait for an uncommitted row of the same key, and an UPDATE
wait for a locked row, of another cycle or of a cycle for a request. `Commit` lets
all of it be seen. `ImplementsEvaluation` is the specification of `Evaluation.tla`:
seen from the tables, `Commit` is its `CommitCycle` and the other statements are
stutters, so the two are one specification at two grains. The orders are those of
the `ORDER BY`s: `AlertOrders` and `ForecastOrders` are the sorted lists of a finite
set. The queries run once; what they return in which order is chosen there.

### ClimateAlerts.tla

`EndEvaluation` is the commit of `Evaluation.tla` and the start of the delivery
loop of `Delivery.tla` in one step (nothing happens between `jobs.py:327` and
`:328`); its new delivery rows take the next ids in the order of the loops, and
`delivery_of` is their `trigger_id`. `AtRest` lets the next cycle start only when
both halves have ended. `PostToMock` restricts what `Delivery.tla` lets any
receiver answer to what the mock answers, or to no answer.

### SeedReset.tla and SeedData.tla

A process is at a `stage` and has a `plan`, the tables its current statement has
yet to lock, and `held`, the tables its transaction has locked. `Lock` takes one
table; a statement happens when its plan is empty. All locks but those of
`TRUNCATE` are compatible with each other, so only `Exclusive` ones conflict;
`Abort` is PostgreSQL's deadlock detector. What a seed command inserts is one row
per table, tagged with the command (`data`), which the code cannot see: the
properties compare tags, the code only ids. `found`, `batch` and `answer` are what
a transaction or a cycle holds in memory. `SeedData.tla` has the formulas of
`_forecast_values`, `_threshold_for` and the alerts as pure operators, evaluated at
the sizes of the seed commands of the run.

### Migrations.tla

A schema is the set of its tables, constraints and indexes, and the types of the
columns whose type ever changes, together for the columns one `ALTER TABLE`
changes. Names are shortened (`pk`, `fk_user_id` for the names the naming
convention makes). A command goes from the committed revision to any other
(`Begin`), runs each script statement by statement (`Execute`, `NextRevision`),
and ends in one commit (`CommitCommand`), a refused statement (`Refuse`) or a kill
(`Crash`), which roll back all of it: `env.py` opens one transaction for a command.
`wide` is the set of columns that hold a value the older type cannot; a `PATCH`
with a threshold of 100,000,000 or a message of 501 characters puts one there.
The application writes only while the schema is at head. A fresh database gets
the worker index from 0001; 0003 creates it only where it is missing.

## 3. Runs

| Run | Question | Bounds |
|---|---|---|
| `delivery` | is what is recorded what happened, does every row settle, and is the abstract promise kept? | 1 worker, 2 rows in one batch, limit 4, schedule 1,2 (advanced, and read past its end), answers 200/500/999/none, 1 fault, 10 minutes |
| `delivery_two_workers` | what holds when two workers overlap on a row, and posts are orphaned? | 2 workers, 2 rows, one of them unpostable, limit 3, 1 fault |
| `alert_api` | do the table's promises survive concurrent requests? | 2 requests, 2 alerts, 8 patches, an INTEGER of 8 bits |
| `evaluation` | are triggers right while alerts, forecasts and the day change and two cycles overlap? | 2 workers (symmetric), 1 request, 1 alert, 2 forecasts on two days, an edit that keeps the match and one that ends it, 1 fault |
| `evaluation_loop` | do overlapping cycles deadlock, and is a cycle the one step that `evaluation` takes it for? | 2 workers (symmetric), 1 request, 2 alerts with windows of 1 and 2 days, a forecast for each of two days, 1 fault |
| `climate_alerts` | is every lasting match notified, and given up only for a reason? | 2 alerts with different windows, a forecast for tomorrow, batch 1, limit 2, fail-first, 1 fault, 1 lost answer or restart of the receiver |
| `seed` | what may a reset do to what is running, and does the command end? | 2 seed commands (the default size, and a larger one than in `README.md:191`), 1 worker, 1 request, limit 2, fail-first |
| `migrations` | does every path of upgrades and downgrades lead to the models' schema, and what stops one? | all five revisions, 1 crash |
| `delivery_head_of_line`, `alert_api_deleted`, `evaluation_stamp`, `seed_demo_retry` | statements of the documentation, the code or the tests that do not hold | the smallest instance that shows it |

Why the bounds are enough. Rows interact only through the batch (selection,
pairing, common commit), which two rows show, one of them unpostable where posts
are orphaned; the limit and the schedule are crossed: with limit 4 and two entries the
second retry waits longer than the first and the third one reads past the end;
`MaxTime` is all that the retries can take (5 minutes for each of two rows), as a
minute passes only while a row waits for one. Stale reads need two actors and one
row. One fault may fall at any step of any cycle. In `evaluation_loop` two alerts are the
fewest rows two cycles can lock in opposite orders, and their different windows
make the break cut the list of one and not of the other. In `climate_alerts` a batch of
one row and two notifications make the batch limit bind; a rule on today and a
forecast for tomorrow tell the windows apart; limit 2 lets one disturbance use up
what fail-first leaves. In `seed` one command can reset under everything the
other one, the worker and the request hold; a third actor of a kind would hold
nothing the two do not.

### Fairness

`worker_loop` catches every exception and starts again (`app/worker/main.py:18-36`),
every post ends by an answer, an error or the client's timeout, a session ends in
a commit or a rollback, and time passes: weak fairness of what each worker does
next (`WorkerStep`; each phase of a cycle has finitely many steps) and of the clock.
No fairness on what the receiver answers, and none on faults, requests or
ingestion. `EventuallySettled` assumes at most `MaxFaults` failed cycles; a
receiver that never answers still settles the row (`FAILED`).
`LastingMatchesSettle` speaks of runs in which alerts, forecasts and the date are
eventually left alone; `QueuedIsSettled` of all runs.

`SeedReset.tla` adds what PostgreSQL promises: lock requests queue, so a table
that is free again and again is not withheld for ever (strong fairness of `Lock`),
and a deadlock is found (weak fairness of `Abort`). Commands and requests need not
be made and may be interrupted.

`MCAlertApi.cfg` does not check deadlock: with `MaxAlerts` alerts created and all
of them deleted no request does anything. Nor does `MCSeedReset.cfg`, whose worker
only idles once commands and requests are done. `MCClimateAlerts.cfg` bounds the
minutes.

### Findings

1. `delivery_head_of_line`: one unpostable row blocks every row that shares its
   batch, for ever (`jobs.py:298`, `delivery.py:53`).
2. `alert_api_deleted`: a PATCH that overlaps a DELETE updates the deleted alert
   and answers 200 (`api.py:79`).
3. `evaluation_stamp`: a cycle's stamp overwrites the reset of an edit
   (`jobs.py:167`); nothing but the API's answer reads the stamp, so no match is
   lost (`LastingMatchesSettle`).
4. `seed_demo_retry`: after `seed-demo --reset` on a system that is up, the
   receiver takes new notifications for ones it has refused before, so the retry
   the README offers to show is not shown (`mock_whatsapp/app.py:36`, `cli.py:92`).

Observations that contradict no statement of the repository:

- `delivery_max_retries` bounds attempts, the first one included (`RetryLimit`), so
  with the default of 3 the third backoff value of `1,5,15` is never used.
- `alembic downgrade base` from revision 0003 or later always stops: 0003's downgrade
  drops the worker index that 0001 created, and 0001's downgrade drops it again
  (`DowngradeObstacles`; `20260320_0003:27`, `20260320_0001:199`). It rolls back
  whole, so nothing is lost, but the base is out of reach.
- A PATCH answers with the row its session holds, which after the commit may differ
  from the stored one: `expire_on_commit=False` (`app/db/session.py:11`) and the
  dirty-column UPDATE leave out a sent value that the loaded row already had
  (`PatchIsAsIfAlone` states exactly that exception).
- The idempotency key of a notification is its trigger id (`jobs.py:225`), so a
  receiver that used it would drop the notifications sent after a reset.
- With two workers an outcome may be recorded on another notification after a
  reset: the second worker can create the row with the same id while the first
  one posts. With one worker it cannot (`OutcomesReachTheirRow`).

## 4. Proofs

Checked by TLAPS for every value of the constants that satisfies the named
assumptions of the modules. TLC evaluates each of them in the runs.

| Assumption | Says | Because |
|---|---|---|
| `ConstantsAssumption` (`Delivery`) | limits and waits are positive, answers have three digits | `app/core/config.py` validates the settings; HTTP |
| `ApiAssumption`, `PayloadAssumption` (`AlertApi`) | payloads have the types of the schemas, null is no value | `schemas.py`, SQL |
| `EvaluationAssumption` (`Evaluation`) | one forecast row per field and date | the unique constraint of `weather_forecasts` |
| `LoopAssumption` (`EvaluationLoop`) | finitely many workers and forecasts | processes, rows of a table |
| `ClimateAssumption` (`ClimateAlerts`) | the above, finitely many forecasts, ids enough for every alert and forecast | the bound `N` cuts nothing off |
| `NullAssumption` (`SeedData`) | null is no value | SQL |
| `SeedAssumption` (`SeedReset`) | commands, workers and requests are different processes; arguments are integers | `argparse` |
| `MigrationsAssumption` (`Migrations`) | the bound on killed commands is a number | no proof uses it |

Some theorems also assume, in their statement, `OneWorker` (`README.md:58` and
`:153`), finitely many workers, or that every row can be posted (`Poison = {}`).

### Delivery

`DeliveryProofs.tla`, any number of workers:

- `TypeCorrect`. Inductive as it stands, because `TypeOK` includes `LocalsOK`,
  what a worker holds in each phase.
- `Accepted` from `AcceptedInv`: needs that a success in memory means the receiver
  took it (`AnswersTaken`) and that stored rows satisfy the CHECKs (`RowsChecked`):
  a stale UPDATE writes the status of another session's read, and only the CHECKs
  on the mixed row say that a `DELIVERED` is this attempt's or was already there.
- `DeliveredStays`: leaving `DELIVERED` would leave `sent_at` set, since no branch
  clears it, and the CHECK refuses that commit.
- `AttemptsBacked` (finitely many workers) from `BackedInv`: the snapshot's count
  plus the unrecorded outcomes never exceeds the posts; a lost update only loses a
  count.

With one worker: `InFlightFresh`, `RetryLimitHolds`, `OutcomesStorable`,
`TerminalStays`, all from `FreshInv`: what the worker holds is what the table
says. Nothing in the code locks those rows between its two sessions; only the
absence of a second writer keeps them fresh.

`DeliveryServiceProofs.tla`, one worker:

- `PostsAreCounted`, with `Poison = {}`: no post is orphaned (`ServiceInv`), so the
  posts that gathers wait for are all there are, and of those
  `UncountedPostsAreFaults` holds (`WaitedPostsAreCounted`, from `AccountInv`). It is
  not inductive: a rollback loses the posts of a batch without a fault of its own.
  The invariant adds that an answer the table will refuse has already used up a
  fault (`Unstorable`), and that no gather waits for the posts of a batch with an
  unpostable row. In that case, finding 1, the receiver may get a post of the other
  rows on every cycle that nothing counts and no fault pays for.
- `AttemptsNumbered` from `NumberedInv`: the numbers in flight, orphans included,
  are at most one past the count on record.
- `ServiceImplemented`, the refinement, step by step, from `ServiceInv`: `FreshInv`, so
  that what a batch holds is open and due; what has been answered or recorded as a
  success was taken (`AnswersTaken`, `DeliveredWasAccepted`), so that a row is
  recorded as delivered after its `Take`; and no post is orphaned. Each post is
  `Take` or a stutter and each commit one `Record` of the whole batch. It needs
  `Poison = {}`: an orphaned post may be taken after its row was settled.

### Alerts API and evaluation

`AlertApiProofs.tla` from `ApiInv`: what a session loaded was a row that was not
deleted, its payload passed schema and validator (`SessionsOK`), every stored row
passes the CHECKs (`StoredChecked`), live rules differ. The invariant relates no
loaded row to the stored one, since any other request may commit in between; what
the dirty-column UPDATE makes of the two follows from the CHECKs on the result.
`PatchesFailForAReason`: on an undisturbed row the table checks nothing that the
validators have not checked, because they check the threshold against the metric of
the loaded row, and `StoredChecked` gives the rest.
`DeletesAreFinal` and `PatchesAreAsIfAlone` are action properties, from the same
invariant.

`EvaluationProofs.tla`, any number of workers, from `EvalInv`, which is `ApiInv`
and what a cycle holds: alerts as they were when loaded, live and checked, and
candidates not before its date. `NoTriggerTwice` follows from the conflict target,
`SnapshotsStayConsistent` because a snapshot is taken from the loaded alert and the
loaded forecast, both of which the invariant describes, whatever the tables say by
now. `TriggersStay`, `EditsAreKept` are action properties. `ApiBesideWorkers`
carries the API's theorems over to the composition: a stamp changes
`last_evaluated_at`, on which no rule of the API depends.

### The loops of a cycle

`EvaluationLoopProofs.tla`, any number of workers, from `LoopInv`, which is `EvalInv`
and, for each cycle,

- where it stands (`PositionOK`): the alerts it has stamped come before those that
  are left, the forecasts it is past before those ahead, in the order of the queries;
- what its transaction holds (`PassedOK`): of the hits it is past, those that had no
  trigger yet, each with the snapshot of what the cycle has loaded;
- that the stamps it has still to write come after all it has locked (`StampsOK`);

and for any two cycles that they never hold triggers of the same key (`KeysDiffer`).

`LoopImplementsEvaluation`, step by step: at the commit every hit is passed
(`AllPassed`), since the lists hold each alert and each candidate of its field, and
what the break leaves out lies after the alert's window because the list is in date
order. A trigger that another cycle commits meanwhile is none of ours, its key would
be held by both. So what is committed is what `CommitCycle` writes at that moment.
`LoopsKeepThePromises` carries the theorems about `Evaluation.tla` over to the
statements.

`NoDeadlockOfCycles`, circles of any length: locks have one order, by alert, and for
one alert its triggers by date before its stamp (`TriggerPlace`, `StampPlace`). What a
cycle takes next comes after all it holds (`LockedInOrder`), so a cycle that waits for
one that waits is behind it, and in a circle none could be the one with the fewest
others ahead. Both theorems rest on the `ORDER BY`s: the mutants of the run leave out
one and the other, and find a circle and a match lost to the break.

### The deployment

`ClimateAlertsProofs.tla` cites the step lemmas of `EvaluationProofs.tla` and of
`DeliveryProofs.tla`; a step of the deployment is one of `Delivery.tla` or leaves
its state alone (`TwoKinds`).

- `PartsStayInAgreement`, any number of workers, from `PartsInv`. Its own part is
  `QueueOK`: the rows list the keys of the triggers without repetition, in the order
  of the insertions. The keys a cycle adds are new (`ON CONFLICT`) and different (one
  match per alert and forecast), and the order of the loops tells them apart.
- `GivingUpHasAReason`, one worker, from `FailuresInv`: the failed attempts of a row,
  recorded or still held by the worker, are at most the disturbances so far, plus
  one if the receiver remembers having refused it. A restart of the receiver pays
  for the refusal it forgets.
- `PartsKeepTheirPromises`: what was proved of the parts holds of them composed.

### Seed command

`SeedResetProofs.tla`, any number of commands, workers and requests:

- `DemoDataIsStorable`, for any number of fields and days. The formulas are bounded
  by their remainders; only the lowest temperature grows with the days, and the
  highest is above it.
- `LockInvariant`: who holds, or is about to take, which table at which stage, and
  that a `TRUNCATE` shares no table with anyone.
- `SeedTyped` and `ReferencesStayGenuine` from `ReadInv`: what a transaction has
  read is still in the table, under the same id and of the same data set. A reset
  can only run when nobody holds a table, and without one tables grow.
- `DataSetsPileUpOnlyTogether` and `SeedsStayAccepted` from `ApartInv`: a command
  that inserts found no users, so whatever is there by its commit is of a command
  that ran beside it.
- `OutcomesStayRight`, one worker, from `OutcomeInv`: a row in a batch is in the
  table as it was loaded, or its id is free, since no cycle of this worker runs
  while it posts and a request creates no delivery row.

### Migrations

`MigrationsProofs.tla`, any number of commands, refused or killed at any statement.
TLC visits every state there is with one crash; the theorems say why no path
through the revisions can lead elsewhere.

`MigrationInvariant`: a schema at a revision holds what the upgrades up to it make;
on the way up also what the statements run so far add, on the way down all but what
they have dropped. It is inductive because what an upgrade makes is new (`MadeIsNew`),
and because each downgrade takes its upgrade back statement by statement from the end
(`Mirror`). One object escapes this, the worker index, which 0001 and 0003 both make:
between 0001 and 0002 it may or may not be there, so the invariant fixes it only for an
empty database and from 0003 on.

- `HeadStaysTheModels`: what all upgrades make is what the models declare (`HeadIs`).
- `UpgradesStayAccepted`: what a statement adds is new, and its tables were created
  before (`InOrder0001`). It is about the structure of the schema: rows are written
  at head only, and those an older application left are not modelled (section 6).
- `ObstaclesAreTheTwo`: what a statement drops is still there, and the tables that
  refer to it are gone, because 0001's downgrade goes its upgrade's way backwards;
  that leaves the index that was dropped before, and a type too narrow.

### Only model-checked

- Liveness (`EventuallySettled`, `LastingMatchesSettle`, `QueuedIsSettled`,
  `SeedEnds`): out of the prover's reach.
- The findings of section 3: each is a counterexample, a behaviour that TLC prints.

## 5. Plan

Done: every component of section 1 that keeps state, the composition of the
deployment, and a theorem for every property the passing runs check except the
liveness properties. What could follow:

1. The deployment over `EvaluationLoop.tla` instead of `Evaluation.tla`. The theorem
   `LoopImplementsEvaluation` already makes the first follow from the second.
2. A model of the rows an older version of the application may have left, for the
   constraints that 0004 and 0005 add, once such a version is known.

## 6. Not modelled

Read endpoints, health checks and the formatting of errors (no state); settings
parsing, logging, container and CI files; the HTTP client cache; names, phone
numbers and messages (no decision depends on them); requests refused before their
commit. The ingestion of forecasts is not in the repository: it appears as a step
that stores any reading. The reset of SQLite (`cli.py:98-102`), which only tests
use, alone on their database. PATCH and DELETE beside a reset: they lock in its
order. The waiting of two PATCHes that would each make the other's
rule a duplicate, of which PostgreSQL aborts one (a 500 instead of a 409). The HTTP client's pool:
a post that waits too long for one of its 100 connections is, in the model, a post
without an answer that did not arrive. Rows an
older version of the application wrote under an older revision, which could break
the constraints that 0004 and 0005 add: that version is not in the repository.
