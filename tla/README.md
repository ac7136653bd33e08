# A formal model of AddonMediaController's acquisition pipeline and library

AddonMediaController (DroppedNeedle) is a self-hosted music server: a FastAPI
backend that finds albums, downloads them through external clients (SABnzbd for
Usenet, slskd for Soulseek, plugins), publishes them into a managed library and
serves them to players.  This directory models, in TLA+, the parts of the backend
whose correctness depends on what happens *between* their steps: the download and
the cleanup after it, the publication of what was downloaded, the leases of the
library roots, and the scan that runs beside it all.  TLC checks the
modules on small instances; the TLA+ proof system checks the main safety theorems
for every value of the constants.

## 1. The system

All paths are below `src/backend/`.  The backend is one asyncio process with
one SQLite database; a store method is one write transaction under a shared lock.
Every `await` is a point where another coroutine, a route handler or a periodic
worker may run, and every one of them is a point where the process may die.

| component | state it keeps | operations | talks to |
|---|---|---|---|
| attempt journal (`infrastructure/persistence/download_store.py`, table `download_attempts`) | one row per hand-off to a download client: state, lease, revision, evidence, publication bundles, failures | create, store handle, schedule, finalize with the task, cancel the task with all its attempts, claim (one or a page), CAS transition, record failure, re-acquire for re-import | orchestrator and cleanup service, both only through transactions |
| acquisition cleanup (`services/native/acquisition_cleanup_service.py`) | none of its own; coroutines carry a copy of a row across awaits | `run_once`, `cleanup_now`, `recover_startup`; per row: barriers, inspection, evidence, abort, removal, discard, completion; hourly recheck of rows that need attention | journal, library store (bundle states), download clients, the downloads mount |
| download orchestrator (`services/native/download_orchestrator.py`, `acquisition/strategy.py`) | `download_tasks` rows, one asyncio task per running download, a per-task operation lock | dispatch, search, enqueue, poll, import, failover to the next candidate, finalize, cancel, retry, re-import, resume after a restart, reaper | strategies, journal, file processor, request history, event stream |
| file processor and downloads service (`file_processor.py`, `download_service.py`) | quarantine, held imports | validate, tag, place files; admin routes | publisher, journal |
| requests and wanted list (`infrastructure/cache/request_history.py`, `wanted_watcher_service.py`) | request rows, wanted rows, quotas | request, retry, sync with the task's end | orchestrator |
| library publisher and recovery (`library_management_publisher.py`, `..._recovery_service.py`, `..._undo_service.py`) | bundles and file journals | prepare, publish, commit, clean up, roll back, resolve, recover | filesystem coordinator, native library store |
| filesystem coordinator (`library_filesystem_coordinator.py`) | readers, writers and waiters per library root | writer-preferring read and write leases over several roots | everything that touches the library tree |
| scans (`library_scan_coordinator.py`, `library_inventory_scanner.py`, `library_indexer.py`, `library_reconciler.py`, `library_scan_supervisor.py`) | runs, scopes, inventory rows, cursors; in memory the recorded fences and pending controls | request, claim, discover, index, reconcile, pause, resume, stop, recover | filesystem coordinator, library store |
| identification (`identification_queue_service.py`, `explicit_reidentification_worker.py`, `background_workload_gate.py`) | queue rows, gate events | identify, yield to interactive use | library store |
| drop import and contributions (`drop_import_service.py`, `library_contribution_service.py`) | upload batches, contribution drafts | stage, match, import, submit | library |
| infrastructure (`infrastructure/resilience`, `http`, `queue`, `cache`, `persistence/_database.py`) | circuit breakers, in-flight futures, wake-up events, caches, the write lock | retry, coalesce, wake, cache | everything |
| following, metadata, discovery, compatibility APIs, authentication, front ends | caches and user data | mostly read | outside services |

### What is hard about it

* *Deleting a user's bytes safely.*  A finished download lies on a mount the
  server shares with the download client.  Deleting too early loses music that
  is being published, deleting too late (or believing it is done) leaks disk
  space for ever, because a `complete` row is never looked at again.
* *Many hands on a row.*  The orchestrator, the admin routes, the periodic
  worker and an inline `cleanup_now` all write the same attempt row.  Mutual
  exclusion is a lease in the row and a compare-and-swap on its revision; the
  orchestrator's writes ignore both.
* *Stale answers.*  The client's answer about a job, the health of the mount and
  the state of the publication bundles are read before several awaits and used
  after them.
* *Crashes.*  There is no shutdown protocol: a restart finds whatever the last
  transaction left and has to carry on from there.
* *Leases that lapse.*  A lease is 300 s and is not renewed while a page of up
  to 25 rows is worked off one after the other.
* *Two worlds to keep equal.*  A publication changes directories and a database that
  have no transaction in common; a scan compares the two while others change both.

### What makes each component correct

* journal, cleanup, orchestrator, publisher, coordinator, scans: section 4.
* requests: a request's status never disagrees with its task's for ever.
* coalescing and wake-ups: nobody waits for ever on a leader that left; a
  notification between an empty claim and the wait is not lost.
* circuit breaker: it opens after the threshold, and some call is let through
  again once the provider has been left alone for the timeout.

## 2. Modules

| module | models | role |
|---|---|---|
| `AttemptJournal` | the `download_attempts` transactions of `download_store.py` | operators from a row to a row; no variables |
| `AcquisitionCleanup` | `acquisition_cleanup_service.py` and the surroundings it reacts to | state machine, properties, inductive invariant |
| `AcquisitionCleanup_proofs` | - | theorems and proofs about `AcquisitionCleanup` |
| `MCAcquisitionCleanup` | - | symmetry for TLC; its `.cfg` files are the runs |
| `DownloadOrchestrator` | one task of `download_orchestrator.py` with `strategy.py`, the route handlers that reach into it, settings saves and restarts | state machine over the journal's rows, properties |
| `DownloadOrchestrator_proofs` | - | theorems and proofs about it: who drives the task |
| `DownloadOrchestratorAttempts_proofs` | - | theorems and proofs about its attempts, on top of those |
| `MCDownloadOrchestrator` | - | symmetry for TLC; its `.cfg` files are the runs |
| `AtomicPublication` | what the publication of an import bundle promises | abstract specification, five states and six steps |
| `ImportPublication` | the import half of `library_management_publisher.py`, `..._recovery_service.py` and their store methods | state machine, properties, refinement of `AtomicPublication` |
| `ImportPublication_proofs` | - | theorems and proofs about it |
| `ImportPublication_refinement` | - | theorem and proof that it implements `AtomicPublication` |
| `MCImportPublication` | - | names the actors for TLC |
| `FilesystemLease` | what the coordinator promises to scans and publishers | abstract specification: two variables, five steps |
| `LibraryFilesystemCoordinator` | `library_filesystem_coordinator.py` | state machine, properties, refinement of `FilesystemLease` |
| `LibraryFilesystemCoordinator_proofs` | - | theorems and proofs about it |
| `MCLibraryFilesystemCoordinator` | - | names the clients for TLC |
| `LibraryScan` | `library_scan_coordinator.py` with scanner, indexer, reconciler and the scan methods of the store, beside a publisher | state machine, properties |
| `LibraryScan_proofs` | - | theorems and proofs about it |
| `MCLibraryScan` | - | its `.cfg` files are the runs |

`AcquisitionCleanup` and `DownloadOrchestrator` are two views of the journal: the
first has every await of the cleanup and an owner that may do whatever the store
allows; the second has every await of the owner and a cleanup that settles a row in one
step once its publications are settled (`CleanUp`).  `ImportPublication`,
`LibraryFilesystemCoordinator` and `LibraryScan` meet at the leases of the library
roots: the coordinator has every call under a root's condition; the other two take what
it guarantees for granted and make the critical sections of publisher and scan exclusive
by a guard (`LeaseFree`, `~Publishing`).  What they take for granted is `FilesystemLease`,
and the coordinator is shown to implement it.

### AttemptJournal

A row is a record with the columns somebody branches on.  Each store method is
a guard and an update named after what it does to the row (`Scheduled`,
`Claimed`, `Reacquired`, ...).  Times are abstracted to the outcome of the
comparison they are used in: `due` is `next_retry_at <= now`, and `lease` is what
`lease_expires_at` can answer, `none`, `live` or `lapsed`.  Paths and
fingerprints become `located`, the client's job id becomes `identified`;
`cleanup_failures`, which the code counts up without end (`download_store.py:2087`),
saturates in the model at the only bound it is compared with.  The
`disposition` column is left out because nothing reads it back.

### AcquisitionCleanup

| variable | in the code |
|---|---|
| `journal` | the rows of `download_attempts` |
| `worker` | the cleanup coroutines: where each stands (`phase`), the copy of the row it carries (`row`), whether its `row_revision` is still the row's (`fresh`), what the client told it (`seen`, `found`, `mounted`), and whether its inspection listed files beyond the recorded lot (`further`) |
| `disk` | what lies at the attempt's paths: nothing yet, the delivered bytes, an slskd lot with later files beside it, later files alone, something else (a link, a foreign file, a recorded file that was still being written), or nothing any more |
| `client` | the client's knowledge of the job |
| `barrier` | `library_management_import_bundles.state` |
| `down` | which of the client and the mount do not answer |

There is one action per stretch of code between two awaits.  `Claim` is
`run_once`/`cleanup_now`; `CheckPublisherBarriers`, `InspectSource`,
`RecordEvidence`, `AbortActive`, `CleanupUsenetWorkspace`, `CleanupSlskdFiles`,
`RecordRemoval`, `DiscardClientArtifacts` and `MarkComplete` follow
`_cleanup_source` and what it calls; `RecheckAttention`, `RecheckSource`,
`RecheckAbsent`, `RecheckDiscard`, `Reopen` and `DeferAttention` follow
`_recheck_attention`; `Reread`, `RecordFailure` and `RecordUnsafe` are the
exception handlers of `_process_claimed`, which read the row again before they
write it.  `Swap` is `transition_download_attempt`: it succeeds exactly when
nobody has written the row since the worker read it, which is what comparing
`row_revision` decides; every write makes every other reader of that row stale.

The owner (the orchestrator and the admin routes) is any sequence of the store's
owner-side transactions: create, store handle, schedule, cancel all, re-acquire.
The publisher moves bundles along the transitions its guarded updates allow;
`publishing` stands for every state a publication is at work in.  The clients
finish, fail or forget jobs.  `Mishaps` selects which of these may happen:
`client` and `mount` outages, `meddling` (foreign hands on the mount), `purge`
(SABnzbd's history is cleared) and `crash`.

Left out of the module: legacy workspaces found on the mount at an upgrade
(`reconcile_legacy_mount`), the warning counter shown to the admin, and the
number of files of an slskd attempt: they are one lot, and whatever arrives beyond it.

### DownloadOrchestrator

One task whose search is over and whose first candidate is linked.

| variable | in the code |
|---|---|
| `task` | the `download_tasks` row: `status`, `candidate_index` (`cand`), whether `last_polled_at` is recent (`polled`), whether there are downloaded bytes (`bytes`), whether `preferred_quality_fallback_at` is set (`deadline`) |
| `journal` | the task's `download_attempts` rows in the order of their creation, each with its `candidate_index` and the candidate whose transfer its handle names (`bytes`; the two differ only where the code confuses them) |
| `manifest` | `staging/<task>/manifest.json`: whose handle it holds and, for Usenet, which attempt it names |
| `loops` | the coroutines of `dispatch` and `_dispatch_resume`: where each stands, the status and candidate of the task object it carries across awaits, the transfer it polls, the result of its import |
| `active` | the current instance's `_active_tasks` entry; the process-wide task registry is "some loop is alive" |
| `op` | the calls in progress of `cancel_task`, `try_next_source`, `reimport_task` and `reap_stale_tasks`, at most one of each |
| `lock` | `_operation_lock(task)`, one for every orchestrator instance |
| `instance` | which orchestrator instance requests get |
| `bundle` | publications, by the candidate whose files they read |
| `budget` | what is left of the bounds |

A coroutine goes `ReadTask` (or `ResumeTask` after a restart or a lost race), `Prepare`,
`StartEnqueue`, `CreateAttempt`, `WriteManifest`, `Submit` (with `WaitOutage`),
`StoreHandle`, `OpenPoll`, `PollProgress` and `PollDone`, `Recheck` (with
`KeepTransfer`), `Process`, `ImportFiles`, `EndPublication`, and then `Finish` and
`RemoveStaging` or `Failover`, `AbortTransfer`, `ScheduleAttempt`, `LinkCandidate`,
`ResetTransfer` and round again; `Fail` is the safe runner's handler.  The route
handlers have one action per await as well.  Cancelling a coroutine (`Killed`) takes
effect at whatever await it is in, except in a publication, which the publisher
shields: there the cancellation is delivered when it is over.  `Crash` clears
everything in memory; recovery settles the publications and `startup_resume`
dispatches the task if it was not over.  `RebuildOrchestrator` is a settings save.

Answers of the clients, of verification and of the quality gates are choices.
Whether another candidate is left is a choice of one with a higher index, which is
how the ranked list is walked.  Left out: searching, the re-pull of a track,
retries (they make a new task), `settle_after_manual_import`, plugin sources,
concurrency slots, quotas, events and the request history.  A store call is one
step: that a write handed to the database's executor thread may land after its
coroutine was cancelled is not modelled.

### ImportPublication

One bundle of `NFiles` files, its callers and the recovery service.

| variable | in the code |
|---|---|
| `bundle` | `library_management_import_bundles.state`, `none` before the row is inserted |
| `rows` | `library_management_import_journal`: per file the state and whether it has a `staged_fingerprint` |
| `catalog` | do the catalogue's tracks point to the imported files |
| `fs` | per file, what the directories hold: the download (`src`), the staged copy (`temp`), the destination (`dest`), the backup of the replaced track, the replaced track at another path (`aside`), the recycle bin, the staged and the published cover |
| `me` | per actor: where it is, the file its loop is at, the bundle state and the journal rows it has read, which of these copies are current (`fresh`), and the locals of `_rollback_import_bundle_locked` and `_resume_import_cleanup_locked` |
| `booted` | startup recovery is over and the workers run |
| `spent` | what the environment has used up of its bounds |

`Call`, `Admit`, `EnsureBundle`, `MarkPublishing` and `ListJournals` lead to
`PrepareImportFile`, which runs without a lease; `LockPublish` takes it, and
`Boundary`, `Recheck`, `BackUp`, `JournalBackUp`, `Move`, `PublishArtifacts`,
`JournalPublished` and `Commit` are the critical section, a rename and the journal write
that follows it being two steps.  An exception anywhere in it (`PublishFails`, a stale
revision, a commit whose answer is lost) goes to `Refresh`, where the re-read bundle
decides between the cleanup (`LockCleanup` to `CleanFinish`) and the rollback
(`RollbackStart` to `RollFinish`).  Outside it `Unhandled` is a store call that raises, or
a policy revision that has changed: the caller gets the error, recovery marks the bundle,
and nothing is undone.  Recovery is `RecoverList`, `RecoverCheck`,
`RecoverJournals`, `RecoverVerdict`, `MarkNeedsAttention` and the same rollback and
cleanup; `Boot` ends the recovery of a start.  A write of a journal row is a
compare-and-swap on its revision: it takes the row out of everybody else's `fresh`.

The bytes of a file are what they came from (`old`, `new`, `foreign`), so a hash
comparison is a comparison of these.  Left out: power loss (fsync), file systems without
RENAME_NOREPLACE, where a file that appears between the check and the rename is
overwritten (`library_filesystem_coordinator.py:369`), a preparation thread
that runs on after its coroutine was cancelled, the management half of the publisher,
edition conversion and undo.  The read of a bundle and the write that closes its
rollback are one step, as are the verification and the write of `resolve_import_bundle`.

The refinement mapping (`Outcome`, `Shelf`) reads the bundle as its users do: while it is
open only the publisher looks at the shelf; when it is committed, done or withdrawn the
files must be what that word says; a row that needs attention makes the whole bundle
need attention.

### LibraryFilesystemCoordinator

| variable | in the code |
|---|---|
| `readers`, `writer_active`, `waiting_writers`, `revision` | the fields of `_RootLeaseState`, per root |
| `waiters` | `_async_waiters` and the threads in `condition.wait()`, per root |
| `pc`, `wants`, `held`, `reg` | where a client of `read_many`, `write_many` or `read_sync` stands, the roots it asked for, those it has (`acquired`), those it is registered on as a pending writer |
| `requests` | bound on what is asked for |

One action is one call that takes a root's condition, since clients of other event loops
and threads run between any two of them.  `ParkRead` parks before `BackOff` gives
partial leases back, `AcquireWrite` uses the registration up, `UnwindHeld` and
`UnwindRegistered` are the `finally` of `write_many`; `Cancel` reaches a parked coroutine
whether or not it has been woken.  Nested leases of one coroutine are left out.

`FilesystemLease` is what a user of the leases may rely on: `lease`, per client the roots it
may use, granted as a whole and ended as a whole, and `edition`, per root, which rises
with the end of a write on all its roots at once.  The refinement mapping: `Lease` is what
a client asked for while the body of its `with` runs, so a partial request has none;
`Edition` is `revision`, plus one while the root awaits its release by a writer that has
left or given up.  The steps that show are the last `AcquireRead` or `AcquireWrite` of a
request, `Leave`, and the `Cancel` of a writer that has some of its roots (`Withdraw`: their
revisions rise although nothing was written, which costs a scan another walk); all
others stutter.  The walk of a scope reads the revision first without a lease
(`library_inventory_scanner.py:623`): it may read one that is about to rise, and finds the
difference later under its lease.

### LibraryScan

| variable | in the code |
|---|---|
| `shelf`, `catalog` | the files of the root; `local_tracks.availability` by path |
| `pub` | a publisher under the write lease: what it placed, what it replaced, how far it is |
| `fence`, `changed` | `scan_revision` against the root's revision (`none` recorded, `current`, `stale`); whether the revision has moved since the walk began |
| `state`, `resume_phase`, `outdated`, `queued` | the row of the active run, whether its frozen policy revision is out of date, and the durable follow-up run |
| `scope`, `inventory`, `cursor`, `reconciled` | `discovery_state` per scope, the inventory rows of the current generation, the reconciliation's progress |
| `pc`, `at`, `todo`, `seen`, `degraded`, `restarts`, `tags`, `bad` | the worker's place and locals |
| `disturbed` | history: somebody else changed files during the run, or it was resumed while the worker was still leaving it |

`request_scan_run` and `claim_next_scan_run` make a run; `BeginWalk` to `CheckFence` and
`EndScopes` are discovery, with `WalkTimesOut`, `RetryWalk`, `GiveUpWalk` and the walk
repeated by a publication; `ReadTags` and `commit_scan_index_batch` index;
`reconcile_scan_scope_batch` marks and restores tracks along the cursor; `EndPhase` reads
the run's state and moves it on.  `Pause`, `Resume`, `Stop` and `ChangePolicy` may come at
every await and are met by `Checkpoint`, by the ends of the phases and by the exception
handler (`WorkerFails`).  `Restart` forgets the fence.  The model has one run; the rows of
a terminal run are dropped, as nothing reads them again.

Coarser than the code: `PersistInventory` classifies the files once, at the end of a walk,
where the code does it per batch; the record of the fence and the completion of its scope
are one step, where the code has an await between them; a control that meets other writers
is settled in the end, where `_settle_pending_control` leaves it to the supervisor after a
bounded number of stale retries (`library_scan_coordinator.py:271`).

Left out: versions of a file's content, excluded paths, moves made by the management
worker, the workload gate, and a publication that belongs to the scan's own run.

## 3. Runs

The runs of the first three state machines and of `ImportPublication` exclude deadlock
checking: the system may come to rest with every row complete or preserved, with a task
that is over, or with a bundle that is closed; `leases` comes to rest when the bounded
requests are used up.  The scan runs check it.

### AcquisitionCleanup

| run | instance | question |
|---|---|---|
| `usenet` | one fair worker, one SABnzbd attempt, one bundle; client outages, meddling, purges, crashes | does a cleanup ever go past an unsettled publication, say it removed what is there, or close a row over bytes whose place it had recorded; is every debt eventually paid or put before a human? |
| `soulseek` | two workers, one slskd attempt, leases that lapse under their holder; mount outages | do lease and compare-and-swap keep the row consistent, where files arrive beside and after every inspection and the mount comes and goes; is a closed row ever debt again; is the proofs' invariant right? |

Bounds: `UnresolvedJobRetries = 1` (the code has 3) keeps one retry of an
unconfirmed enqueue and one giving up, the only two outcomes of the comparison.
One attempt is enough, since a worker works on one row at a time and rows share
nothing but their task (`CancelTask` writes several at once; the proofs cover any
number).  Two workers are enough for races on a row because a third could only do
what one of the two may do after returning; one bundle stands for the first unsettled
one, which decides.  With these the runs reach 358,000 (`usenet`) and 2,356,000 (`soulseek`) distinct
states.

Fairness (`FairSpec` of the module, only for `DebtDrains`): the periodic worker never stops
(`run_acquisition_cleanup_periodically` catches everything but cancellation), so
a claimable row is claimed and a coroutine that can take a step takes it; time
passes, so retries fall due and leases lapse.  Nothing is assumed of client,
mount, publisher or owner; the property is about behaviours in which they
eventually leave the rows alone and answer (`Calm`).

### DownloadOrchestrator

| run | instance | question |
|---|---|---|
| `restart` | fair; Usenet; a cancellation, re-imports, a crash | is somebody at work on every running task, and does it come to an end; does a resumed task poll its own candidate's transfer; does cancelled stay cancelled? |
| `clientOutage` | Soulseek; an outage at a hand-over, a cancellation, re-imports | is anything published from bytes no attempt holds, or deleted under a publication? |
| `settingsSave` | Usenet; a settings save, a cancellation, re-imports, the reaper | do two ever work on the task; are two attempts ever live? |
| `switch` | Soulseek with three peers; a manual switch, a settings save | the same of two coroutines; can a switch skip the peer the fallback has just chosen? |

Bounds: two candidates and `MaxFailover = 2` (the code's setting is larger) give one
failover and one exhausted list; three peers in `switch` let the fallback and the
manual switch both move on.  Two coroutines are enough for "a second one is there";
a third could be dispatched only by what dispatched the second.  Cancellations,
switches, crashes, outages and settings saves are one each, in the combinations
above: each run allows the mishaps that bear on its question.  The combinations left
out are not all benign: `CancelledIsFinal` holds in `restart` and fails with a
settings save or a manual switch, `SomebodyDrives` fails with a manual switch,
`PollsOwnCandidate` holds for a restarted Usenet download and fails for Soulseek; see
the disagreements at the end of section 4.  The runs reach 95,000
to 3,200,000 distinct states.

Fairness (`FairSpec` of the module, only for `TaskSettles`): a coroutine and a handler
that can take a step take it, as asyncio schedules them and as clients and databases
answer.  A poll ends because `_poll_until_done` gives up after six hours, so
`PollDone` is in the fair part and `PollProgress` is not.  Nobody has to cancel,
re-import, save settings or reap.

### ImportPublication

| run | instance | question |
|---|---|---|
| `publicationCrash` | one caller, two files (one replaces the track at its own path and brings a cover, one a track elsewhere), two crashes, two faults, one foreign file, three calls | is a publication all or nothing (`AtomicPublication`); is a download removed too early; is a caller told that its publication was undone when the bundle is committed? |
| `publicationBeside` | two callers and the periodic recovery, one crash, two faults; fair | is the replaced track always somewhere; is a commit final; does every bundle come to an end? |
| `recoveryUndoes` | one caller, one file, the periodic recovery, two faults | *violated*: finding 1 |

Bounds: two files give a bundle that is published in part, in both orders of undoing; the
two kinds of replacement take different paths through rollback and cleanup.  Two
crashes let recovery itself crash; two faults let a rollback fail after a failed
publication; three calls are a publication, a failed retry and a successful one.
`publicationCrash` leaves the periodic recovery out, because with it `SourceKept`,
`FailureMeansUncommitted` and `AtomicallyPublished` fail (finding 1); it keeps the recovery
of every start.  `publicationBeside` has it and checks what still holds.  They reach
145,000 and 481,000 distinct states.

Fairness (`FairSpec`, only for `Settles`): a coroutine that can go on does, and recovery,
which a periodic task runs for ever (`target_application_runtime.py`), looks again.
Nobody has to call; faults and crashes are bounded, as each may undo any progress.

### LibraryFilesystemCoordinator

| run | instance | question |
|---|---|---|
| `leases` | two roots, two publishers, a scan, a thread, four requests | exclusion, exact counters, no lost wake-up, no overtaking; do the leases look atomic to their users; is everybody served? |

Bounds: two roots are enough for a partial lease, a cycle and a back-off; two writers for a
registration that outlasts another's; four requests let one client come back while
others wait.  The run reaches 122,000 distinct states.  Fairness: a client that can take
its next step takes it and the body of a lease ends; nobody has to ask or be cancelled.
`Served` rests on the bound of the requests: a writer that asks again without awaiting
starves the others, and the code does not promise otherwise.

### LibraryScan

| run | instance | question |
|---|---|---|
| `scan` | one path, one scope, one restart; fair | does a scan take a published file for missing; does a completed run agree with the shelf; do stop, pause and requests get their way? |
| `scanAfterRestart` | the same | *violated*: finding 2 |

Bounds: what happens to one path does not depend on another except through the cursor
and the ends of scopes and batches; the theorems of section 5 cover every number of
paths, scopes and restarts for all but the liveness properties, and the bound only keeps
the liveness check small.  The run reaches 452,440 distinct states.

Fairness (`FairSpec`): strong fairness of the worker as a whole, since a publisher may
hold the lease it waits for again and again and the coordinator serves whoever waits
(`Served`); a publication that has begun ends.  Users, requests, restarts and deletions
are free.

## 4. Properties

* `ClearedBySettledBundles`: past the barrier check every bundle the worker
  checked stays settled, through all awaits that follow.
* `RemovedMeansGone`: a row says `workspace_removed` only when the bytes are gone;
  the next worker discards the client's records without looking again.
* `CompletionLeavesNoSource`: a row is completed over recorded bytes only when
  they are no longer there.
* `LeaseProtectsRow`: while a worker at work still owns the lease, the row is what
  it claimed or last wrote.
* `DebtDrains`: debt does not get stuck half way.
* `ClosedNeverDebt`: a closed row is never debt or in use again; all a late handler can do
  to it is put it before a human.  `CompleteIsFinal`, that it is not opened at all, holds
  for one worker and is only proved, not run.

Of the orchestrator:

* `OneDriver`: never two at work on a task, be it two coroutines or a coroutine and a
  re-import.
* `SomebodyDrives`, `TaskSettles`: a running task has somebody who will settle it, and
  it is settled.
* `CancelledIsFinal`: no write of a coroutine lands on a cancelled task.
* `PollsOwnCandidate`: the transfer polled and published is the linked candidate's.
* `ImportsHeldBytes`: a publication reads bytes only while an attempt holds them.
* `DiscardAwaitsPublication`: no source is up for deletion under a publication that
  reads it, unless the row makes the cleanup wait for it.
* `OneLiveAttempt`: a failover releases the attempt it leaves.
* `NextSkipsNobody`: a manual switch moves on from the peer the user saw.

Of the publication:

* `AtomicallyPublished`: it is one step for everybody else: on the shelf and in the
  catalogue as a whole, or not at all, or marked as needing attention.
* `SourceKept`: the download is removed only when its successor is catalogued and there.
* `OriginalKept`: the replaced track is always at its place, in the backup or in the bin.
* `FailureMeansUncommitted`: a caller whose publication failed and was undone may try
  another candidate, since the commit did not go through behind its back.
* `CommittedFinal`, `Settles`: a commit is not undone; nothing stays half published.

Of the leases: `Exclusive`, `Accounted`, `NoLostWakeup`, `NoOvertaking`,
`AtomicLeases`, `Served`, each stated above its definition.

Of the scan:

* `FencedMissingIsGone`: with a recorded fence, no publication makes a scan miss a file.
* `CompletedAgrees`: a run over whole scopes that nobody disturbed leaves catalogue and
  shelf equal, through time-outs, pauses and restarts.
* `StopWins`, `ControlObeyed`: a stop is not overtaken; a control settles.
* `RequestServed`: a request made during a run gets a run of its own.

### Findings

1. `recoveryUndoes`: recovery asks once whether a bundle is being published and rolls back
   from copies of the journal rows that may be older than a whole publication; a row
   whose copy says `rollback_pending` is not compared before its files are touched.
2. `scanAfterRestart`: a fence nobody recorded counts as the current revision, so after a
   restart the reconciler marks tracks missing that were published after the walk.

### Disagreements without a run

The models show these as well.  They are not kept as runs; each is reproduced by
checking the property named on the instance described.

Of the cleanup (`MCAcquisitionCleanup`; one attempt, no bundle):

* A cancellation that preserves the bytes and arrives between the evidence write and the
  removal thread does not stop the removal (`acquisition_cleanup_service.py:512`;
  `download_store.py:1755` says "preserved/needs_attention mean the bytes must stay").
  `DeletesOnlyDebt`, one worker, a SABnzbd attempt, no mishaps, no lapsing leases.
* A worker whose row was rescheduled and then completed by the other still runs its
  `_UnsafeCleanup` handler, which re-reads the row and swaps against that revision.
  `CompleteIsFinal`, two workers: no mishap is needed for an slskd attempt, one of whose
  files finishes after the lot was recorded (the late worker's inspection then lists more
  than the record covers, 363-372) or is still being written as it is fingerprinted (1011).
* The lstat that decides whether a purged job's workspace still exists relies on the
  mount health of an earlier call.  `CompletionLeavesNoSource`, a SABnzbd attempt,
  mishaps `mount` and `purge`.

Of the orchestrator (`MCDownloadOrchestrator`; two candidates, two coroutines, every
bound that is not named 0):

* After a settings save `cancel_task` has no handle of the running coroutine and does not
  ask the task registry; the next status write overwrites `cancelled` (2500, 3383; the
  comment at 1671-1673 says it must not).  `CancelledIsFinal`, Usenet,
  `MaxCancels = MaxRebuilds = 1`.  The same on Soulseek with `MaxSwitches = 1`, because
  the coroutine is looked up before the lock is held.
* A manual switch that stops the coroutine and then finds bytes in the row, or meets a
  client error, leaves the task to nobody (3293).  `SomebodyDrives`, Soulseek,
  `MaxSwitches = 1`.
* The same switch, having waited for the client while the coroutine finalized the task,
  checks the candidate index and the bytes again but not the status (3287-3293), and
  dispatches a new coroutine onto a task that is `failed` or `partial` already
  (3306, 3333), beside which a re-import may run.  `OneDriver`, Soulseek,
  `Handlers = {"reimport"}`, `MaxSwitches = 1`.
* The stale manifest makes the result of a candidate that never got a manifest apply to
  the attempt before it, whose bytes were preserved (1965, 2238).  `PreservedBytesKept`,
  Usenet.
* A crash after linking the next candidate makes a Soulseek restart poll the previous
  peer's transfer (3207).  `PollsOwnCandidate`, Soulseek, `MaxCrashes = 1`.
* A crash between scheduling an attempt and linking the next candidate makes a Usenet
  restart import what is up for deletion (`ImportsHeldBytes` and
  `DiscardAwaitsPublication`, `MaxCrashes = 1`).  On Soulseek a manual switch does the same
  without a crash: it stops the coroutine after the next candidate's row is inserted and
  before its manifest is written, and the coroutine it dispatches resumes from the manifest
  of the attempt just given up (3306).  `ImportsHeldBytes`, Soulseek,
  `Handlers = {}`, `MaxSwitches = 1`.
* After a settings save the coroutine that `cancel_task` does not find starts its
  publication between the read of the barriers and the write: the row is up for deletion
  and names no publication.  `DiscardAwaitsPublication`, `MaxCancels = MaxRebuilds = 1`;
  `ImportsHeldBytes` fails on the same instance.  Likewise a re-import, admitted because the
  reaper failed a cancelled task, reads what an attempt of the same candidate discards.
  `DiscardAwaitsPublication`, Soulseek, `Handlers = {"reap", "reimport"}`, `MaxCancels = 1`.
* `OneLiveAttempt` fails with `MaxOutages = 1` (each retry inserts a row), with
  `MaxCrashes = 1` (the row of the interrupted candidate stays), with `MaxSwitches = 1` on
  Soulseek, and on Soulseek with `MaxCancels = MaxRebuilds = 1`: the cancellation finds no
  coroutine and adopts an attempt for the manifest that the previous candidate left,
  beside the row that the coroutine inserts for the next.
* The reaper can find a task unowned while `cancel_task` is between stopping the coroutine
  and its write, and then writes `failed` over `cancelled` (3149, 773).
  `CancelledIsFinal`, `Handlers = {"reap"}`, `MaxCancels = 1`.
* A task completed by what other downloads imported leaves its last attempt live; the
  reaper can fail a task that is being re-imported.

Of the publication (`MCImportPublication`):

* A crash in a rollback, after the destination is gone and before the cover is, leaves the
  cover: the next pass decides `was_published` again from the destination (1650), and a
  retry finds the cover's place occupied.  `CoversWithdrawn`, one file with a cover, one
  caller, one crash, one fault, two calls, no periodic recovery.
* A caller may get an error for a bundle that is committed.  `_resume_import_cleanup` asks
  for the roots of the current policy first (1781), and raises
  `LibraryManagementPolicyChangedError` once the settings' revision has moved (2165-2177);
  its store calls (1809, 1879) and the reads of the bundle's row (385, 502, 518) may fail
  too.  This is so on a retry of a committed bundle (405) and after the commit (522).  The
  bundle stands, and a later call or recovery finishes it, or recovery, which meets the
  same error, marks it `needs_attention` (606).  `FailureMeansUncommitted` with `Publishing`
  widened to `Entered`, one caller, one fault, one call.
* With the periodic recovery `FailureMeansUncommitted` and `AtomicallyPublished` fail like
  `SourceKept`: a caller that waited for the lease while recovery finished its cleanup gets
  a `StaleRevisionError`, and recovery undoes or condemns what a retry is publishing.

Of the scan (`MCLibraryScan`):

* The fence is keyed by run and root: the clean walk of a second scope of the same root
  records a later revision over the first scope's.  `FencedMissingIsGone`, two paths, two
  scopes (`library_inventory_scanner.py:681`).
* A run paused and resumed before the worker has left it goes on as if the interrupted
  phase were over, or fails for want of a walk.  `CompletedAgrees` with `disturbed` left
  alone by `Resume` (`library_scan_coordinator.py:408`, `library_inventory_scanner.py:708`).
* A run that is resumed and paused again before the supervisor picks it up stays
  `pausing`: it can be neither resumed nor claimed past, until a restart.  `ControlObeyed`
  without `pc # "idle"` (`native_library_store.py:11584`, 11632).

The hazards the properties are for, and those no property covers with the reason, are
listed in PROJECT.json.  Lesser ones that no property looks at: slskd files that finish
between the record of a lot and the abort of the transfer, which stay on the mount when the
row is closed (`leftover` in the model; slskd_repository.py:290), the made-up
evidence of reconciled legacy workspaces (acquisition_cleanup_service.py:369), the attempt
rows each retry after a client outage leaves behind (download_orchestrator.py:1305), the
write-back of a status held across awaits in settle_after_manual_import
(download_orchestrator.py:2905), a second scheduling that replaces the barriers of the
first (download_store.py:1855), a cleanup that finishes on a bundle another pass has
completed (native_library_store.py:27441), a foreign file lost under a restored backup
(library_management_publisher.py:1760), a coroutine that takes the write lease again
without ever yielding (library_filesystem_coordinator.py:59), and tags read under a lease
that is given back before they are stored (library_indexer.py:405).

## 5. Proofs

### AcquisitionCleanup

`AcquisitionCleanup_proofs` proves, for every finite or infinite set of workers,
attempts and bundles, every retry bound and every combination of mishaps:

* `Typing`: `Spec => []TypeOK`
* `LeaseSafety`: `Spec => []LeaseProtectsRow`
* `BarrierSafety`: `Spec => []ClearedBySettledBundles`
* `RemovalSafety`: `Spec => []RemovedMeansGone`
* `CompletionSafety`: `CompletionLeavesNoSource` whenever `mount` is not among the
  mishaps (with it the property is false for a SABnzbd attempt).
* `Invariance`: `Spec => []IndInv`, the inductive invariant these rest on
* `ClosedIsNoDebt`: `Spec => ClosedNeverDebt`
* `ClosedForGood`: `Spec => CompleteIsFinal` where one worker drains the debt (`Alone`).
  Section 4 says what refutes it with two.

The assumptions are those the modules name: the null owner is no worker, the retry
bound is positive, there is an attempt, the mishaps are among the known ones.

The argument.  `LeaseProtectsRow` alone is not inductive: a worker's swap may win
only because its copy of the row is current, so the invariant carries
`FreshIsCurrent` (a copy that will win is the row as it stands) and `FreshOwns`
(outside the handlers it is the lease holder's).  Handlers are exempt, as they own
nothing.  `ClearedBySettledBundles` follows because `completed` and `resolved` are
never left, and because the row a worker carries keeps its bundles.
`RemovedMeansGone` needs that bytes cannot come back: the client's job is over
(`GoneForGood`), also for a worker that is *about* to record the removal and for
every stale copy of the row (`RemovalInv`).  `CompletionLeavesNoSource` needs to
know when bytes can be there at all (`BytesMeanSeen`, `LocatedMeansBytes`) and
that a worker about to complete has left nothing (`NothingLeft`, where the mount
stays up).  `IndInv` is the conjunction; TLC checks it in `soulseek`.

`ClosedIsNoDebt`: a row may be closed under a worker whose lease ran out, but that worker's
writes then fail, except in the two handlers, which read the row again first.  Of these
`RecordFailure` leaves the state alone and `RecordUnsafe` writes `needs_attention`
(`StepReopens`, `ReopensForAttention`).  `ClosedForGood` adds that with one worker the row
of whoever is at work, the handlers included, is open (`WorkedIsOpen`), since nobody but
that worker closes it.

The step lemma is split by who moves: a step of a worker on its own row
(`ActorInv`), the other workers, which only become stale or stay as they are
(`OthersRest`), and the rows (`RowsStep`), each resting on how the surroundings
may evolve (`StepGrowsWorld`).

### DownloadOrchestrator

`DownloadOrchestrator_proofs` proves, for every number of candidates, coroutines and
attempts and every bound on cancellations, switches, crashes, outages and settings saves,
where the condition does not set one to 0:

* `TypeCorrectness`: `Spec => []TypeOK`
* `SwitchSkipsNobody`: `Spec => NextSkipsNobody`
* `NoTwoDrivers`: `OneDriver` where there are no re-imports or no manual switches
* `NeverAbandoned`: `SomebodyDrives` without manual switches
* `CancellationIsFinal`: `CancelledIsFinal` without settings saves, manual switches and
  the reaper
* `PollsItsOwn`: `PollsOwnCandidate` for a Usenet task

"Without manual switches" is `Unswitched`: the bound is 0, or the task is a Usenet one,
which `try_next_source` refuses.

The conditions on switches, settings saves and the source are needed: without them the
properties fail as the disagreements of section 4 say.

The argument.  `TypeInv` adds to the types where each handler can be and what it then has
in hand.  Every step is one of eight (`Step`): a step of a coroutine (`Moved`,
`StatusMoves`), of one of the four handlers (`CancelMoved`, `NextMoved`, `ReimportMoved`,
`ReapMoved`), of the surroundings (`Quiet`), a settings save, a crash; `StepTypes` shows
it once, and the invariants are proved from it.  `LoopsInv`: at most one coroutine is
there, since the one handler that dispatches does so after it has stopped every coroutine
it found (the one in `active`, else those of the registry) and waited until none is left
that a publication shields.  `DriveInv`: the task of a coroutine at work is neither failed
nor partial, so nobody can re-import it, and the status that `Prepare` writes back is no
such status either.  `OwnerInv`: whoever ends a coroutine early is a cancellation that
will write.  `CancelInv`: with one instance `active` knows every coroutine, so nothing is
alive between the lock and the write of a cancellation, and the lock keeps a re-import
away.  `OwnInv`: the manifest names an attempt of the candidate whose job it holds, and
from the hand-over to the import it is the coroutine's own.

`DownloadOrchestratorAttempts_proofs` goes on with what the attempts hold, for one life of
the process (`MaxCrashes = 0`) and without manual switches:

* `PollsItsOwnInOneLife`: `PollsOwnCandidate` for either source
* `ImportsFromTheLive`: `ImportsHeldBytes` where nobody cancels or nobody saves settings
* `DiscardsAwaitPublications`: `DiscardAwaitsPublication` where nobody cancels, or nobody
  saves settings and the reaper is off
* `OneAttemptIsLive`: `OneLiveAttempt` without outages, where nobody cancels, nobody saves
  settings, or the task is a Usenet one

They cover the runs `clientOutage` and `settingsSave`; each condition is needed, as section
4 says: the disagreements there are the counterexamples met without it.

The argument.  Every step of a coroutine is an edge from one place to another with what it
carries and writes (`Flow`), and every other step is one that leaves the attempts alone
(`Still`) or one of a few writers (`Deed`); what each writer does to the journal is a lemma of
its own (`AdoptLeft`, `CancelLeft`, `ReimportLeft`, `HandLeft`, `ReapLeft`, `CleanLeft`).
`CourseInv`: the candidate a coroutine carries is the task's, and the attempts are in the
order of the candidates (`Ordered`), since a failover goes on down the ranked list.  That
makes "the last attempt of this candidate" and "the last live attempt", by which the code
looks up a row on Soulseek, the attempt made last.  `HeldInv`: from the insertion of its row
to the end of the import a coroutine's attempt is that one, open, and over the bytes of the
candidate; on every way back to the next insertion the candidate's attempts are closed or
there are none (`Untried`).  `GoneInv`: of a candidate in work nothing is up for deletion,
unless the user has cancelled; and whatever is being published is published by the one
coroutine or the one re-import that is there.  `LiveInv`: between two insertions nothing is
live (`NoneLive`), which needs that whoever settles a task closes the live attempt, whatever
name it finds it by (`ClosedNone`), and that a re-import starts from a task with none.
`CancelAlone` is what the conditions on settings saves buy: a cancellation that reads the
barriers or writes is alone with the task.  `OneAttemptIsLive` needs it on Soulseek only; a
Usenet manifest names its attempt, so the cancellation adopts none (`AdoptNamed`).
TLC finds no violation of the first three on the instance of `clientOutage`, nor of the
first and last on that of `settingsSave`.

### ImportPublication

`ImportPublication_proofs` proves, for every set of files and callers, every kind of
replacement and cover, and every bound on calls, faults, crashes and foreign files:

* `TypeCorrectness`: `Spec => []TypeOK`
* `OriginalSafe`: `Spec => []OriginalKept`, with recovery at startup or beside the callers
* `CommitIsFinal`: `Spec => CommittedFinal`, likewise
* `SourceSafe`, `FailuresAreUncommitted`: `SourceKept` and `FailureMeansUncommitted` where
  recovery runs only at startup (`PeriodicRecovery = FALSE`); with the periodic recovery
  they are false (finding 1)

and `ImportPublication_refinement`, in the same generality and under the same condition:

* `Implements`: `Spec => AtomicallyPublished`, the refinement of `AtomicPublication`

The argument of `OriginalSafe` (`InvA`) cannot rest on the journal rows, as an actor may
act on a copy of a row that is out of date.  What holds whatever the copies say: the
replaced track is moved only by whoever has the write lease (`OneWriter`), and a file the
critical section has yet to back up is still at its place (`OldAtPlace`); the rollback
moves the backup home and nowhere else; and the cleanup, which puts the backup into the
bin, is entered only by an actor that has seen the commit (`KnowsCommit`), which is never
taken back (`CommitKnown`).

That of `SourceSafe` and `FailuresAreUncommitted` (`InvB`) needs more, and needs the
condition: one actor at a time has the bundle in hand (`Alone`, `Turns`), so the bundle's
row says what that actor last wrote (`BundleAt`); the files it has gone past are on the
shelf (`Placed`), so the commit finds all of them there, and nobody moves them afterwards
(`Delivered`).

That of `Implements` (`InvC`, on top of the other two) is about what the rows promise of
one another and of the directories.  `RowsSay`: which states of the journal rows go with
each state of the bundle's row.  `FileSays`: what a journal row says of its file is true
on disk, at each place where a crash may stop an actor.  `ActorC`: the actor that has the
bundle in hand holds copies that are current (`Holds`), and has done its work on the files
it has gone past, going forward (`Forward`), going back (`Backward`) or tidying up
(`Cleaned`).  `Goes` bounds how one step may move bundle and rows.  From these, `Honest`:
the shelf is always the one the outcome announces; and `StepAtomic`: the outcome moves as
`AtomicPublication` allows or not at all, which gives one abstract step, or a stutter, for
every step.

### LibraryFilesystemCoordinator

`LibraryFilesystemCoordinator_proofs` proves, for every number of roots and all finite sets
of readers, threads and writers:

* `TypeCorrectness`: `Spec => []TypeOK`: no counter falls below zero
* `Exclusion`, `Accounting`, `WakeupsArrive`: `Exclusive`, `Accounted`, `NoLostWakeup`
* `WritersComeFirst`: the action property `NoOvertaking`
* `ReadersSeeNoWrite`: no revision changes under a read lease, a partial one included
  (`StableWhileRead`; for whole leases `AtomicLeases` says it)
* `Implements`: `Spec => AtomicLeases`, the refinement of `FilesystemLease`
* `LeaseReadsEdition`: the revision that a lease holder reads is the edition

The argument.  `IndInv` adds to these the shape of a request (`Shape`): which leases and
registrations a client may have at its place in the code, registrations being used up
from the first root on.  `Accounted` is what makes the guards, which look at counters,
speak about clients: `ReadBlocked` and `WriteBlocked` are false only when no lease is in
the way (`Exclusive`), and a counter that reaches zero is the last lease or registration
gone, which is when the waiters are woken (`NoLostWakeup`).  Cardinalities change by one
with the set they count; two lemmas on finite sets say so.

The refinement rests on `Exclusive`, which speaks of every root a client has, of partial
requests and of those being unwound: nobody is granted a root whose revision is still to
rise, nor one that another request has gathered.  A writer that unwinds a root raises its
revision and ends its release in one step, which `Edition` does not see.

### LibraryScan

`LibraryScan_proofs` proves, for every number of paths, scopes and restarts:

* `TypeCorrectness`: `Spec => []TypeOK`, with the bound on the walks of a scope
* `StopIsObeyed`: `Spec => StopWins`
* `FenceProtects`: `Spec => FencedMissingIsGone` for one scope (with two it is false)
* `CompletedScanAgrees`: `Spec => CompletedAgrees`

The argument of `FenceProtects`: `FenceInv` says that while no publication has ended since
the walk began, every file the walk has passed that is not placed by a publication in
progress was seen or deleted (`WalkSeesAll`), and that while the fence is `current` a
completed scope's inventory covers the shelf except for what is being placed (`FenceHolds`);
the reconciliation reads both under the lease, when nothing is being placed.

That of `CompletedScanAgrees`: a run is calm while nobody disturbed it, and a calm run is
always in the phase its worker is in (`PhaseOfPc`).  `AgreeInv` says of a calm run that no
publication is under way and no fence stale, that what was found is there and whole scopes
were found whole (`FoundIsThere`, `ScopesWhole`), that the rows indexed are in the catalogue
(`KnownRows`, `IndexedAll`), and that up to the cursor and in every reconciled scope
catalogue and shelf agree (`ReconciledAgrees`, `ReconciledSoFar`); a completed run has
reconciled all its whole scopes.

Only model-checked: liveness (`DebtDrains`, `TaskSettles`, `Settles`, `Served`,
`ControlObeyed`, `RequestServed`), which the prover does not reach.

## 6. Plan

1. Done: attempt journal and cleanup, with proofs.
2. Done: `DownloadOrchestrator`, with proofs.  Next for it: store writes in flight after a cancellation; the
   rows an outage leaves behind; the track re-pull and `settle_after_manual_import`.
   `AttemptOwner`, an abstract specification of what the owner may do to a task's
   rows (create, store the handle, schedule, cancel all, re-acquire), implemented by
   `DownloadOrchestrator`, closes the gap to the free owner of `AcquisitionCleanup`.
3. Done: `LibraryFilesystemCoordinator`, with proofs.
4. Done: `ImportPublication` and `AtomicPublication`, and `LibraryScan`, with proofs, the
   refinement among them.  Next for them: the management half of the publisher (operation
   journals, undo), which shares rollback and recovery; versions of a file's content in
   the scan.
5. `CircuitBreaker`, `RequestCoalescing`, `DurableWakeups`, `WorkloadGate`: small
   modules with liveness.
6. `RequestHistory` and the wanted watcher against the orchestrator's task status; the
   identification queue; drop import.

Not modelled, and not planned: metadata matching and discovery (data, not
behaviour), the compatibility APIs, authentication, plugins' own code, the front
ends, tagging and artwork formats.
