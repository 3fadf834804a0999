# Toorow in TLA+

Toorow is a multi-tenant marketing-reporting platform written in Python: it
pulls reporting data from about forty providers, lands it in a warehouse and
serves it. The part of it that can go wrong in ways a test hardly reaches is the
data path of `src/server/core`: a queue of pull jobs with retries, quotas and
crash recovery, in two back ends; collection runs that group the jobs; the clock
that dispatches them every night; the files of an inbound delivery; and the
publication of what was imported, whose rows are in one store and whose verdict
is in another. Everything coordinates through rows of
Postgres, written in short transactions by threads, requests and processes
that know nothing of each other. This directory models that path, checks it
with TLC and proves its main properties with TLAPS.

It is a small part of the repository by size: most of the half million lines are
connectors, read models, screens, migrations and single-transaction services,
which compute or show data and coordinate with nobody. About ten thousand lines,
read closely, are what the modules stand for.

## 1. Inventory

| Component | State it keeps | Operations | Hard behaviour | What makes it correct |
|---|---|---|---|---|
| Pull ledger (`queue.py`, `pull_job_states.py`) | `app.pull_jobs`: state, key, `attempt_count`, `started_at`, `completed_at` | claim, `_execute_job` and its exits, `recover_stale_running_jobs` | crash between two committed statements, unfenced writes after a claim outlived its visibility, 429 and quota requeues | one active row per window; one owner per running job; bounded attempts; a window ends once |
| Local backend (`queue.LocalBackend`, `_worker_loop`) | the ledger; a thread per process | `enqueue_pull`, poll, sweep | racing enqueues, several processes polling | accepted windows exist and end |
| Push backend (`queue.CloudTasksBackend`, `internal_api.py`) | the ledger; Cloud Tasks' tasks | `enqueue_pull`, `_execute_pull_internal`, `reconcile_pending_tasks` | tasks lost, duplicated, late; the instance dies | no second pull of a landed job; queued rows end |
| Execution state machine (`execution_states.py`, `datastream_publication.py`) | `app.datastream_executions.state` | `create_execution`, `advance_state` | one active execution per Datastream, many writers | closed transition table, terminal states final |
| Collection runs (`datastream_dispatch.py`, `execution_progress.py`) | `days_done`, state of the run, `pull_jobs.execution_id` | `dispatch_windows`, `record_and_close`, `stop_collection_run` | windows end while others are not enqueued; stop during dispatch; lost record | a run over is frozen; what it claims landed; it ends |
| Clock (`scheduler.py`) | `datastream_schedule_state`: `next_run_at`, `missed_run_count`, `retry_count`; an advisory lock | `run_hourly_steps`, `run_nightly_steps`, `_advance_next_run`, `_reschedule_failed_pulls`, `_record_missed_run` | two clocks, ticks that do not happen, failures around a dispatch, best-effort writes | each occurrence dispatched once or counted; at most one catch-up until a success |
| Publication (`import_runner.py`, `managed_file_dispatch.py`, `datastream_publication.py`) | execution, import ledger, dispatch, publication log, published pointer, outbox; candidate and target in the warehouse | `run_import`, `begin_managed_file_promotion`, `promote_candidate`, `commit_publication`, `reconcile_dispatch`, `reconcile_execution` | crash during a promotion, two workers on one scan job, commit racing with reconciliation, failure written by a second connection | what is current is there; pointer, log and the three records move together; an announced promotion is settled |
| Activation queue and Current (`datastream_activation.py`, `datastream_activation_worker.py`, end of `queue.py`, `managed_feed_imports_api.py`) | `app.datastream_activation_jobs`, import ledger, entry confirmations, publication log, published pointer, output versions; candidate and shared relation in the warehouse | enqueue, claim, land, complete, fail; prepare, submit, publish; the publish button; mapping overlay | retries over rows already landed, a review submitted long before it runs, a merge whose transaction rolls back, five doors to one pointer | the log is a chain; a review replaces what its reviewer saw; rows served once; job and run agree |
| Quota (`quota.py`) | token buckets and breakers, in the memory of each process | `pre_check`, `record_spend`, `record_rate_limit` | engines that disagree, breakers forgotten by a restart | a paused platform resumes |
| Outbox (`operations.py`, `events.py`) | outbox rows | append, drain | redelivery, drain racing with drain | at-least-once, ordered |
| Managed feeds, Sheets (`managed_feed_ledger.py`, `google_sheets_sync.py`) | delivery ledger, watermark | register, sync | duplicate deliveries | watermark never passes uncommitted data |
| Inbound files (`inbound_scan_jobs.py`, `inbound_processing.py`, `inbound_receipts.py`, `inbound_raw_imports.py`, `inbound/bridge.py`) | receipt, a scan job per attachment, the evidence of each file; triggers on the three tables | enqueue, claim, scan, ingest, finish, retry, sweep, recover a dead letter, fold the receipt | two attempts at one file, two attachments that end together, attempts lost one after the other, recoveries | jobs, files and receipt tell one story; what is over stays over; every file is settled |
| Async reports (`async_reports.py`) | report handles | submit, poll, download | provider timeouts | submitted once |
| Recovery and rollback (`dataset_recovery.py`, `bounded_recovery.py`, `datastream_rollback.py`) | plans of windows, pointer, log | plan, enqueue, `rollback_dataset` | racing with the clock and with publications | end in the queue and in the log of publications |
| Tokens and sessions (`google_token_store.py`, `token_service.py`, `session_revocation.py`) | grants, revocations | refresh, revoke | concurrent refresh | a revoked session stays revoked |
| Tenancy (`invitations.py`, `render_shares.py`, `org_lifecycle.py`, `org_purge.py`) | invitations, shares, org state | accept, revoke, purge | double acceptance, expiry | single use |
| Connectors, dbt, UI, docs | – | provider calls, SQL, screens | – | outside the model |

How they interact: a clock tick (or a person, or a recovery plan) calls
`dispatch_windows`, which opens an execution and calls `enqueue_pull` once per
window, each in a transaction of its own; after each successful enqueue the clock
advances `next_run_at`. A worker thread or a pushed request claims a row, asks
the quota engine, calls the connector, and ends the row; after that commit it
writes the run's progress and closes the run if its windows have all ended. The
next tick reads how the last pull ended and may arm one catch-up.

## 2. Modules

```
PullPromise   <== refined by ==  PullLedger        (the ledger, one claimed job)
                                  /        \
                          LocalQueue     PushQueue  (the two back ends)
                              |
Executions ------------> CollectionRun              (runs over the local queue)
    |------------------> Publication                (a managed file)
    |                        \\
    |                          == refines ==>  CurrentPromise
    |                        //
    \--> Candidates ---> Current                    (the activation queue, and
                                                      every door to the pointer)
Inbound                                             (the files of one delivery)
Schedule                                            (the clock)
```

* **PullLedger** holds `app.pull_jobs` and everything the two back ends share.
  One action is one committed statement: `Claim` (`_dequeue_one`,
  `claim_job_by_id`), `QuotaBlock`, `BeginAttempt`, `LandRows`, then one action per
  exit of `_execute_job`: `Succeed`, `Prevent`, `Refuse`, `Fail`, `RateLimited`;
  `FinishJob` is `_finish_job`, and `Record` the `_record_window_outcome` that
  follows its commit. `Crash` is the death of a process at any of those points,
  `Overdue` the visibility timeout passing, `RecoverStale` the sweep. The writes
  after a claim are unfenced, as in the code: with `SlowPulls` a worker may still
  be in its provider call when its row is handed to somebody else. `tries` and
  `landed` observe executions begun and rows landed.
* **PullPromise** is what either back end owes its callers: an accepted window is
  open until it ends, ends once, never shares its key with another open one, and
  lands rows only while open. `PullLedger!KeepsPromise` is the refinement, through
  `phase <- [j |-> Phase(j)], covers <- key, rows <- landed`.
* **LocalQueue** adds `LocalBackend.enqueue_pull` as the separate statements it
  is (`Lookup`, `InsertWins` or `InsertConflicts`, `SelectWinner`) and the polling
  loop (`ClaimOldest`, then the ledger's steps, and the sweep).
* **PushQueue** adds `CloudTasksBackend.enqueue_pull`, the push endpoint and
  `reconcile_pending_tasks`. The set `tasks` is Cloud Tasks, external: a task is
  delivered any number of times until it is acknowledged, may be lost, and an
  acknowledgement removes it unless a second one existed. An answer that is not
  2xx leaves the task to the retry policy of the queue.
* **Executions** is the transition table and the two writers every run goes
  through.
* **CurrentPromise** is what a Datastream owes its readers, whoever publishes: a run
  is published once, in the step that makes it Current and appends it to the history;
  the rows its readers are handed are in the relation by then, brought by the run or
  those of the Current it replaces, or, when it was published bare, follow as its own
  (`Fill`); they are never exchanged nor taken away; Current returns only to what was
  published. `Publication!KeepsHistory` and `Current!KeepsHistory`
  are the refinements: the log is the history, `wh` or `shared` the rows, and the
  state of the execution its phase (`RunPhase`). Both instantiate `MayBeBare <- TRUE`:
  the publish button is a door of both, and publishes a run that names no rows, or
  whose rows are still in its candidate.
* **CollectionRun** composes LocalQueue and Executions: a dispatcher opens a run,
  enqueues its windows one step at a time, may miss some, may die between two, and
  ends by trying to close the run; workers record and close; a person stops it.
  `RecordAndClose` is one step because `record_window_progress` updates, and so
  locks, the row of the run before the rest of its transaction reads the jobs.
* **Schedule** is the clock of one nightly Datastream, in hours: `TryLock`,
  `CloseSession` (the `with get_connection()` block ends), `Sweep`, `Select`,
  `Enqueue` or `Refuse`, `Advance`, `Release`, with pulls ending (`JobEnds`) and
  hours passing (`Pass`) in between. The queue is the set of days whose window is
  active. Instants are UTC; `Local` and `Utc` are `AT TIME ZONE` in a zone whose clock
  changes once (`Change`, `Jump`). The landing is computed on the local calendar and the
  count of what was stepped over (`Skipped`) on elapsed hours, as in the code, and
  `FirstRun` is any instant: activation writes its own when none is given
  (`datastream_activation.py:1034`).

* **Publication** extends Executions with one governed import of a managed file:
  the import ledger, the dispatch row that coordinates the two stores, the
  evidence of the quality gates, the rows (`wh`: none, candidate, landed there twice,
  promoted), the pointer and the log, with the door that wrote each entry. An action is one transaction or one warehouse job; `proc`
  holds where each process stands and what it read and may act on when it is no
  longer true: `seen` (state of the execution), `walk` (what
  `_GovernedDispatchWalk` believes), `book` (outcome of the ledger). The import is
  `OpenImport` or `ReplayImport`, then `StartLanding`, `Land`, `Observe`, the two
  gates with `Validate` and `PassDqGates`, or a refusal; then come the two halves of
  the cross-store write, `Begin`, `Promote`, `Commit`, which the reconciliation
  of a dispatch takes too (`Reconcile*`, called by a replay and by the sweep,
  `Select`). Each half has its failures: refused, rolled back, uncertain.
  `DieInRefusal` is the crash between the discard of the candidate and the commit
  of the refusal, `Die` any other. People come by five routes: `MemberAdvances` and
  `OwnerReconciles` write the execution, `MemberRecords` the ledger, and the publish
  button all it can reach of a governed import (`Press`). A press is its three
  transactions, `ButtonReadies`, `ButtonCommits` (`commit_publication` without a
  dispatch: a `ready` run is enough, wherever its rows are) and `ButtonMarks`, with the
  out-of-band failure `ButtonFails`; between two of them it keeps nothing but the run,
  so any number of presses, some of them dead half-way, is any number of these steps.
  A reconciliation that finds the run published by the button skips the announcement,
  promotes the rows, and closes the dispatch when it had found every other record in
  agreement (`ConfirmPublished`), or leaves it (`ConfirmUnproven`). The scan job commits
  after a typed error, so what a transaction wrote before one stays.
* **Candidates** is the activation queue: `Materialize` writes a run and its job,
  `Claim` takes a queued or failed row, then `ReadContext` (the unlocked read of
  the run), `Land` or `LandFails` (the adapter, on a connection of its own) and
  `Complete`, which reads the run again under its lock. A failure is two
  transactions, `FailRun` and `BookFailure`. `cand` counts how often the rows of a
  run are in its isolated relation, because a retry may land them again.
* **Current** composes that queue with every door that moves
  `current_published_execution_id`. `Prepare` hands a person a review and the
  Current it would replace; `Submit` compares and is over; `PublishReviewed`,
  later, reads again under the locks. `PublishRolledBack` is the same transaction
  failing after the warehouse did nothing, the merge, or all of its part: `shared`
  counts the copies of a run's rows in the relation readers name, and `Merged` is
  `promote_candidate`'s merge keyed on the execution. The publish button is its
  three transactions (`ButtonReads`, `ButtonCommits`, `ButtonMarks`), standing before
  the second (`commit`) or the third (`mark`), with the out-of-band failure and a death
  between any two. `Overlay`, `RollBack`,
  `MemberAdvances` and `OwnerReconciles` are single transactions.
* **Inbound** is one delivery: a job, a file and an evidence per attachment, one
  receipt over them. A worker's action is one committed transaction of
  `process_inbound_delivery` or of `run_scan_job`; the end of an attempt is two
  steps, `Finish` or `GiveUp` (the job written, the siblings read) and `Commit`,
  because what the fold read may be older than what it commits against. The
  triggers of the tables are part of every UPDATE: a terminal job, file or receipt
  refuses or keeps. `Sweep` takes a job claimed two minutes ago, whose worker may be
  alive; `Recover` reopens a dead letter and starts a new generation of folds.
  `race` observes that two ends overlapped, or that a recovery crossed a fold.

Each `*Proofs` module extends its module and TLAPS. Each `MC*` module gives the
constants of its module their values. Definitions commented *Mutant* are
plausible bugs of the definition below them; no specification uses them. A
variable or a set said to be *for the properties only* observes and guards nothing.

## 3. Runs

| Run | Instance | Shows |
|---|---|---|
| `LocalQueue` | 2 keys on 1 platform, 2 job ids, 2 enqueuers, 2 workers, 2 attempts, 1 death, fair | `ExclusiveOwner`, `AttemptBudget`, the refinement, and `AnsweredWindowEnds` |
| `PushQueue` | 1 key, 2 job ids, 2 requests, 2 attempts, 1 death, fair | the same promise under loss and duplication, `ExclusiveOwner`, `NoRepullAfterLanding`, `QueuedWindowEnds` |
| `CollectionRun` | 2 windows, 2 workers, 1 run, 1 fault, pulls that may outlive the visibility, a stop door, fair | types, `ClaimedDaysLanded`, `VerdictIsFinal`, `EndedRunFrozen`, `StoppedRunStartsNothing`, `RunEnds` |
| `Publication` | 1 import, 2 workers, the sweep, a member with the publish button and an owner, any number of presses, deaths, failures and replays, fair | `PointerBacked`, `PublishedIsLogged`, `OutcomesAgree`, `RefusedLeavesNothing`, `PromotionSettles`, and the refinement of CurrentPromise (`KeepsHistory`) |
| `Current` | 2 runs, 1 worker, 2 attempts, 1 confirmation, 2 requests that submit it, a log of 3, any number of deaths and rollbacks, fair | types, `LogIsChain`, `ReviewReplacesWhatItShowed`, `PublishedOnce`, `ReviewedRowsServedOnce`, `JobAndRunAgree`, `JobEnds`, `KeepsHistory` |
| `Inbound` | 2 attachments, 2 tasks, 2 attempts, 1 recovery, 1 fault, fair | types, `ReceiptOverJobsOver`, `JobTellsFile`, `ReceiptTellsJobs`, `EvidenceStands`, `JobsSettle` |
| `Schedule` | 1 hourly clock, days of 3 hours, first run at hour 0, arrival hour 1, a clock change forward at hour 4, 7 hours, refusals, lost writes | types, `CatchUpOnce`, `EveryOccurrenceCounted`, `BackToArrivalHour`, `DispatchedOnce` |

Five runs exhibit places where the code does something else than it says
(`expect: violation`); each names the line:

| Run | Said | Done |
|---|---|---|
| `LocalQueue_phantom` | `enqueue_pull` inserts the job it returns (`queue.py:187`) | after a lost race with a window that has already ended, the id returned was never inserted, and the schedule advances on it |
| `PushQueue_stuck` | a stuck claim is released by `recover_stale_running_jobs` (`internal_api.py:134`) | only the local worker thread calls it, and it does not run in the push backend |
| `Schedule_lock` | the advisory lock is held until it is unlocked (`scheduler.py:786`) | it goes with the session, closed before the first step |
| `Current_split` | a published run whose ledger remains written is "an unrecoverable split-brain" (`datastream_publication.py:1399`) | the reviewed publication of a managed-feed candidate never writes the ledger |
| `Inbound_landed` | "if ANY attachment landed, the delivery landed" (`inbound_processing.py:1426`) | two attachments that end together each fold over the other's job as it still runs, and nobody writes LANDED |

**Divergences met and not run.** The properties above except them by name, so
that they say what the code does guarantee:

* A window that ends before the next one is enqueued closes its run
  (`execution_progress.py:689`, `:728`): `VerdictIsFinal`
  excepts the runs in `early`: those over while windows were left, and those a pull
  that outlived the visibility timeout took part in.
* A stop during a dispatch cancels what exists; the dispatcher goes on enqueuing
  for the stopped run (`execution_progress.py:817`, `:906`):
  `StoppedRunStartsNothing` speaks of runs whose dispatch is over.
* A dead letter of the stale sweep has no `completed_at` (`queue.py:480`), so the
  catch-up that reads it (`scheduler.py:1446`, `:1479`) passes it over.
* Rows merged by a publication that rolled back stay in the shared relation when
  the run is then given up (`raw_landing.py:311`): `ReviewedRowsServedOnce` speaks
  of runs whose outputs readers are handed.
* The publish button publishes a run without promoting its rows; a candidate that
  pulled from a connector has no relation to promote (`raw_landing.py:574`). Of a
  governed import it leaves the dispatch behind (`managed_feed_imports_api.py:343`):
  `PointerBacked` speaks of publications through the dispatch, `OutcomesAgree` lets the
  ledger be behind the execution and the dispatch behind both, and
  `PromotionSettles` says the rows of a bare run follow. Unless the press came before the DQ
  evidence: then no pass promotes the rows and the dispatch stays
  `reconcile_required` for ever (`managed_file_dispatch.py:362`).
* A candidate that was landed twice is refused by the promotion on DuckDB before it
  writes (`raw_landing.py:619`) and on BigQuery after its MERGE (`raw_landing.py:756`);
  either way the run does not commit and only a person ends it. `PromotionSettles`
  excepts it.
* The missed-run count divides elapsed hours (`scheduler.py:1278`) while the clock lands
  on the local calendar: on a row activation wrote off its arrival hour it can be one
  short, and a change of the clock puts it out by one. `EveryOccurrenceCounted` bounds
  both, and is exact without them.
* "The double dispatch is prevented" (`scheduler.py:1947`) holds of ticks that do not
  overlap: `DispatchedOnce` excepts a SELECT older than the row and a clock that stands
  between its enqueue and its advance, which `Schedule_lock` shows to happen.
* A running activation job whose process died is read by nothing (`queue.py:3615`):
  `JobEnds` excepts it as `Stranded`.
* A delivery whose receipt was never opened cannot be recovered by its
  worker: the transition is refused after the recovery reopened it
  (`inbound_scan_jobs.py:338`); and `reconcile_required`, an answer of the import,
  is no outcome the job's CHECK accepts, so the finish raises and is retried to the
  last attempt.
* A rolled-back schedule has no case for `weekly` (`dataset_recovery.py:1046`).

**Bounds.** `Jobs` bounds how many rows are ever minted (`Minted`), `MaxFaults`
the deaths (and, with `SlowPulls`, the calls that outlive the timeout; in
CollectionRun the lost records and dead dispatchers; in Inbound the attempts taken
for lost, the deaths and the writes that fail), `MaxRecoveries` the dead letters
reopened, `MaxLog` the rollbacks (publications are bounded by the runs), `Horizon`
the hours, `Runs` the executions; a dispatch begins only while an id per window is
left.

Publication and Current have no bound on deaths, retries and failures: their
counters are finite sets. One import is enough for Publication, whose hazards are
between processes on one import; two workers are what the two-minute rule of the
scan jobs lets in (`inbound_scan_jobs.py:491`). That a second import waits for the
first is `NoRunActive`, an index. In Current two runs are a Current and its rival,
which a publication, an overlay and a rollback need; two requests for one
confirmation are a double submission; a log of three is a publication, another over
it, and a rollback to the first. In Inbound two attachments are what a fold over
siblings needs, two tasks let an attempt taken for lost go on beside its successor,
one fault makes one of them lost, and one recovery gives a second generation of fold
keys.

Two jobs of one key are what deduplication, re-enqueue after an end and zombies
need; two keys on one platform what the head of the queue needs to be in the
way of the other while its platform is paused (more platforms are left to the theorems); two
enqueuers race for the unique index; two attempts the least that tell a first from
a last; two workers any race for a row. Seven hours of three-hour days cover two
occurrences, a tick that is skipped, and a day that is skipped altogether; the first run
off the arrival hour and the change forward are the instance in which the count may be
furthest out, and the theorem `OccurrencesCounted` covers the others, the exact one
included. One clock is checked; `DueOnce` and the other theorems hold for any number. The
runs say `CHECK_DEADLOCK FALSE` because the ids, runs, faults and hours run out and
a settled delivery stays settled: the system then has nothing left to do.

**Fairness.** `LocalQueue`: the worker loop polls for ever and sweeps every ten
minutes (`queue.py:2738`), so each worker's steps and sweeps are weakly fair; time
makes stale claims overdue and budgets refill. `PushQueue`: a request being served
runs on; Cloud Scheduler calls the reconciliation for ever (`internal_api.py:336`)
and a task that is there is delivered eventually, so dispatch and delivery are
strongly fair: each may find the job taken and try again. `CollectionRun`: a
dispatch once begun goes on, over the fairness of the local queue. `Publication`:
only the sweep is fair (`SweepFairness`), because `reconcile_stale_jobs`, which the
scheduler calls every five minutes (`infra/terraform/inbound_bridge.tf:456`), ends
in `reconcile_pending_dispatches`; a pass runs on, and a step of it that is reached
again and again succeeds once, as the deterministic job identifiers of the merge and
the retried commit suppose. Workers and people owe nothing: no press is fair. `PromotionSettles` asks for
rows that are still there, once: a run whose candidate was dropped by `DieInRefusal`
is not ended by anybody but a person. `Current`: a claimed job is
worked on, and some claimable job is claimed, because the poll loop asks whenever
the pull queue is empty and a reconciliation offers lost push tasks again; people
owe nothing, and no door is fair. `Inbound`: of the requests under way some one
goes on (with boundedly many faults, recoveries and claims that follows from each
of them going on, and it spares TLC a condition per task), a claimable job is
offered by the bridge, by the retries of Cloud Tasks or by the five-minute
reconciliation, which also sweeps. Nothing forces an enqueue, an outcome of a pull,
a stop, a review, a recovery or a fault, and no fairness is assumed of `Schedule`,
which has no liveness property: a tick may be skipped for ever.

## 4. Proofs

For every number of jobs, keys, platforms, workers, runs, files, clocks and hours
that the named assumptions allow (`LedgerAssumption`, `CollectionAssumption`,
`CandidateAssumption`, `InboundAssumption`, `SweepAssumption`,
`ScheduleAssumption`):

**The queue.**

* `TypeCorrect`, `PushTypeCorrect`: the types of both queues. The lemmas of
  `PullLedgerProofs` go action by action over the shared ledger, so that each
  back end only adds its own steps.
* `OneActiveRowPerWindow`, `PushOneActiveRow`: `OneActivePerKey` is inductive with
  the types alone, because every statement that makes a row active goes through
  the index.
* `OwnersExclude`, `AttemptsBounded`, `LocalKeepsPromise` assume
  `SlowPulls = FALSE`; without it they are false. Their inductive
  invariant joins four facts `ExclusiveOwner` alone does not give: a worker
  stands in `_execute_job` exactly while it holds a job; no held row is
  overdue, so that the sweep takes none; the `attempt` in a worker's hands agrees
  with the row's `attempt_count`; and `tries` never exceeds `attempt_count`,
  while a row that may still be claimed has attempts left.
* `PushOwnersExclude`, `PushAttemptsBounded`, `PushKeepsPromise` need no such
  assumption, because nothing in that backend takes a running row back: the
  reason the guarantee is stronger is the reason `PushQueue_stuck` fails.
* `LandedOnce`: a landed job is held at `landed`, or orphaned, or ended, so no
  claim can be made of it. It is false of the local queue, whose sweep requeues
  a job whose worker died between landing and `done`.

**Collection runs**, slow pulls included.

* `OverIsFrozen`: once over, a run keeps its state and its days.
* `RunTypeCorrect`, `ClaimsLanded`, `VerdictsFinal`, `StoppedStayStopped`, from
  one invariant, `RunInv`. Besides the types it says that a row that is done was
  landed (`Fed`); that a run has one dispatcher and is active while windows are left,
  unless it is in `early` (`Served`); that a window of a run not in `early` is moved by
  nobody but the one worker that holds it (`BoundOwned`); and that a run has no more
  windows than its dispatch has passed (`Counted`). It counts, so it assumes
  `Jobs` finite.
* `RunsOneActiveRow`, and without slow pulls `RunsOwnersExclude`,
  `RunsAttemptsBounded` and `RunsKeepPromise`: what LocalQueue owes its callers still
  holds with runs over it. CollectionRun does not refine LocalQueue, which knows no
  stop, so this does not follow from the theorems above: every step of a run is a step
  of the ledger, leaves the ledger alone (`LedgerRests`), or is the stop door, which
  ends queued rows nobody holds (`RunStepOnLedger`, `StopEnds`); the lemmas of
  `PullLedgerProofs` give the first kind.

**The clock.**

* `ScheduleTypeCorrect`, `ClockMovesOn` (`BackToArrivalHour`), `OccurrencesCounted`
  (`EveryOccurrenceCounted`): the arithmetic of `Landing` is proved from quotient
  and remainder (`DivMod`, `Unique`, `DivShift`, `LandsAhead`, `LandsOnHour`): the next
  landing is ahead of now, at the arrival hour of the zone, and `LandsOnTheNext` compares
  the days the local calendar stepped over with the periods that elapsed (`OutBy`): equal
  from an arrival hour without a change between, one apart for each of the two. The
  invariant (`Counted`) says that, until the first advance, the row is where
  activation put it, and after it on an arrival hour. They need `FirstRun <= Horizon`,
  part of `ScheduleAssumption`, which says nothing else of the first run.
* `OneCatchUp`: `CatchUpOnce`, for any number of clocks ticking together, from
  the invariant that `armed` is at most `retry_count`, unless a success that
  nothing has cleared yet came in between.
* `DueOnce`: `DispatchedOnce`, for any number of clocks, from `FiredInv`: an instant that
  got a job is behind the row, unless a clock still stands before the advance of it
  or that advance was lost. A clock alone is never in the excepted cases; two are, which
  is what `Schedule_lock` leads to.

**Publication of a managed file**, any number of imports and workers.

* `PublicationTypeCorrect`, `PublishedOnce`: types and `PublishedIsLogged` are
  inductive together, once the types say that a process that stands somewhere knows
  its run and that a run it saw failed has stayed so (a refusal writes `failed` over
  what it saw). Two steps append to the log, the commit and the press, each for a
  run that is active and so not in it (`GroupKeeps`); every other step leaves log and
  pointer alone and publishes nobody (`RunStep`). The owner's reconciliation is one of
  these, because nobody is both publishing and in the log, so its branch that resolves
  to published is never taken.
* `RefusedIsGone`: `RefusedLeavesNothing`, from `WInv`: each import has its records in
  the order the code writes them (`Ordered`: a run that is publishing has a dispatch that is
  promoting or past it, promoted rows a run or a ledger that has moved that far, a refusal
  no rows); a process at a step has what that step needs (`Placed`: rows promoted before a
  commit, and whoever may still refuse an import has rows that nobody promotes,
  or is barred from it); and only the worker that opened an import has its first landing
  before it (`Alone`), since a second landing beside a refusal would bring rows back. Each
  step keeps, for every process, what that process knows (`Ages`): rows moved are never
  taken back. It needs that the sweep is no worker (`SweepAssumption`).
* `RecordsAgree`: `OutcomesAgree`, from one fact more (`AInv`): a ledger that says failed
  or rejected has a run that is lost, which is what lets a reconciliation close the
  dispatch on the word of the ledger alone. Every step but the commit and the press is
  `Calm`: it publishes no run and moves a ledger to published only behind its run, which
  is `ButtonMarks`. The commit writes the three together, the press moves the run
  ahead, and `closes` carries what a reconciliation saw of the ledger, which a published
  ledger never leaves, to its confirmation.
* `CurrentIsBacked`: `PointerBacked`, from the two above: a dispatch that is published
  has its rows (`Ordered`), and an entry the import wrote has such a dispatch.
* `PublicationKeepsHistory`: the refinement of CurrentPromise. A step that does not
  publish touches one run, its state or its rows but never both (`Touches`), so that
  it maps to `Serve`, `Fill`, `Abandon` or a stutter; rows once promoted stay
  (`PromotedStays`, from `WInv`); the commit is `PublishOwn`, because nobody commits
  but with the rows promoted (`CommitPublishes`); the press is `PublishOwn` or
  `PublishBare` as they are or not (`PressPublishes`).

**Current**, any number of runs, workers, confirmations and requests.

* `CurrentTypeCorrect`, `ChainOfCurrents`, `ReviewsReplaceWhatTheySaw`,
  `LoggedOnce`, `RowsServedOnce`, `JobsAgree`: the six invariants the run checks, from
  one, `CInv`. A step either leaves log and pointer alone, or adds the one
  entry that replaces Current; for each property it is enough to know which of the two,
  and what the new entry's door read under its lock.
* `CurrentKeepsHistory`: the refinement of CurrentPromise. Three doors publish
  (`PublishOwn` by a review, `PublishBare` by the button, `PublishOver` by an
  overlay), the rollback returns, and a publication that rolls back after its merge
  serves rows of a run that may never be published. Every other step leaves the
  log alone and ends at most one run that is active (`OtherDoorsPromise`): here
  `PublishedOnce` is what forbids a published run to be failed by a late press.

**Inbound**, any number of attachments, tasks, attempts and recoveries.

* `JobsTellFiles`, `ReceiptsEndLast` (`ReceiptOverJobsOver`), `WhatIsOverStands`
  (`EvidenceStands`), from `IInv`: the rows hold their values (`Rows`), what a worker
  is about to report is true of its file (`Knows`), two ends of one job exclude
  each other (`Locks`), and a fold under way was computed from siblings that have
  not moved since unless a race was recorded (`Folds`).
* `RowsTypeCorrect`, `ReceiptTellsTheSum` (`ReceiptTellsJobs`), from a second
  invariant, `SInv`, over the first: an end about to be committed folds what the jobs
  will add up to, unless it raced with another (`Foresees`, `Alone`); the receipt is
  folded once between two recoveries (`Counted`: the operation key counts the
  recoveries, and each one raises the count), so that no fold is swallowed by an older
  key; and until an attempt is lost each running job has its one worker (`Attending`).
  `Generation` is therefore the cardinality of the set of recoveries of the delivery
  (`Recovered`): a sum by a fold over a function could not be reasoned about without
  induction.

Every safety invariant, action property and refinement that a passing run checks is
also a theorem. Only model-checked is everything under fairness
(`AnsweredWindowEnds`, `QueuedWindowEnds`, `RunEnds`, `PromotionSettles`, `JobEnds`,
`JobsSettle`), since liveness is out of the prover's reach. The types of LocalQueue
and of Publication are theorems (`TypeCorrect`, `PublicationTypeCorrect`) that no run of
its own repeats; those of LocalQueue are part of `RunTypeOK`.

## 5. Plan

Written, in this order: PullLedger, LocalQueue, PushQueue, PullPromise,
Executions, CollectionRun, Schedule, Publication, Candidates, Current, Inbound,
CurrentPromise, with their proofs. What would come next:

1. An abstract specification of a delivery (each file settled once per generation,
   the receipt after all of them) that Inbound refines.
2. Schedule with a window that spans several days, and weekly rows.
3. The rest of an inbound delivery: the receipt and the raw imports written before
   the acknowledgement, and the quarantine of bytes; then Inbound composed
   with Publication, whose answers it takes here as outcomes.
4. The outbox and its drain, the watermark of the Sheets sync, the handles of
   asynchronous reports, token refresh, as modules of their own.

## 6. Not modelled, and why

* What the connectors fetch, the SQL of landing and of dbt, verification: data,
  seen here as an outcome of the provider call and a count of landings.
* Quota: the bucket and the breaker are sequential arithmetic in one process's
  memory. The ledger's `paused` allows every pause and every resumption that one
  engine or several, restarted or not, could answer; that a pause ends is an assumption
  of the queues' fairness.
* Weekly and hourly cadences and several windows per occurrence (the refetch ladder)
  in Schedule; offsets that are not whole hours, and a second change of the clock.
* The clock when Postgres is unavailable (it then proceeds without a lock, and
  without rows to dispatch).
* Publication: the contents of the fingerprints (a divergence is an outcome of
  `Observe`), the plan-store and non-fact routes of `run_import`, which open no
  dispatch, and a snapshot that is a no-op.
* Activation: the preview jobs of drafts, which only read a source; the contents
  of plans, mappings and gates (a gate refuses or passes); a candidate that pulls from a
  connector, which lands no promotable relation.
* Inbound: what is in a manifest and in a file, the scanner, and the signature of
  the caller; a scan answers clean, refused or not available. The early ends of
  `process_inbound_delivery` for a delivery without data attachments or without its
  Datastream (`inbound_processing.py:1192`) are not reached by a scan job: its ordinal
  is one of the same immutable manifest's, and a receipt keeps its Datastream from being
  deleted (`094`, `ON DELETE RESTRICT`). The exit for a file whose raw import is
  over already is `AlreadyOver`.
* The plans of windows of `dataset_recovery.py` and `bounded_recovery.py`: reads
  that end in `enqueue_pull`.
* Audit rows, logs, alerts, observations: append-only, and nothing reads them to
  decide a step modelled here.
* The exponential back-off between polls: a delay, invisible to properties
  without time.
* Events and verification after a pull (`_execute_job` after `DONE`,
  `queue.py:1763`): best-effort. Each hook catches its own exceptions and
  audit rows never raise (`audit.py:262`), so only a rollback that fails on a dead
  connection leads from there to the branch that ends a row failed (`queue.py:2324`), and
  that connection cannot end the row either. An exception between the
  return of the pull and `DONE` is in the model: `Fail` takes a job that has landed too.
* Everything else in the table of section 1 without a module: single transactions
  with a unique key or a row lock each (invitations, shares, revocations), isolated
  best-effort steps, reads, and screens.
