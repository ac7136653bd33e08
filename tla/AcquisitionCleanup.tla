------------------------- MODULE AcquisitionCleanup -------------------------
(***************************************************************************)
(* The acquisition cleanup service                                         *)
(* (services/native/acquisition_cleanup_service.py): workers that drain    *)
(* cleanup debt from the attempt journal.  A worker claims a row, checks   *)
(* that every publication reading the downloaded bytes has settled, asks   *)
(* the download client what it knows, records that evidence, deletes the   *)
(* bytes, deletes the client's records and marks the row complete.  Every  *)
(* `await' is a step boundary at which other workers and the owner of the  *)
(* download (the orchestrator: create, schedule, cancel, re-import) may    *)
(* write the same row; each store write is a compare-and-swap on           *)
(* row_revision.                                                           *)
(*                                                                         *)
(* A worker here is one claimed row in the hands of run_once or            *)
(* cleanup_now (run_once works its page off one row after the other).  The *)
(* revision counter is abstracted to what the CAS asks of it: `fresh' says *)
(* that nobody has written the row since the worker last read it.          *)
(***************************************************************************)
EXTENDS AttemptJournal

CONSTANTS
    Attempt,        \* rows of the journal, all of one task
    Usenet,         \* the attempts whose source is SABnzbd; the rest are slskd
    LeaseMayLapse,  \* may the 300 s lease run out under a working holder?
    Mishaps         \* which mishaps of the surroundings may happen at all

ASSUME AttemptAssumption == Attempt # {} /\ Usenet \subseteq Attempt
ASSUME LapseAssumption == LeaseMayLapse \in BOOLEAN
ASSUME MishapsAssumption ==
    Mishaps \subseteq {"client", "mount", "meddling", "purge", "crash"}

VARIABLES
    journal,   \* download_attempts: attempt -> row
    worker,    \* the cleanup coroutines in flight
    disk,      \* what lies at the attempt's paths on the downloads mount
    client,    \* what the download client knows of the job
    barrier,   \* library_management_import_bundles: bundle -> state
    down       \* which of the client and the mount are unavailable

vars == <<journal, worker, disk, client, barrier, down>>

-----------------------------------------------------------------------------
(* Types *)

\* The lot is what an inspection records: a SABnzbd workspace, or the slskd files
\* finished by then.  Grown: the lot and slskd files that finished later;
\* leftover: the lot is gone and those are left.  Replaced: the lot no longer is
\* what was recorded (a link, a foreign file, a file recorded half-written), and
\* the safe-removal helpers refuse to touch it.
DiskState == {"empty", "present", "grown", "replaced", "gone", "leftover"}
Occupied == {"present", "grown", "replaced"}   \* the place of the lot
Exceeded == {"grown", "leftover"}              \* files beyond the lot

ClientState == {"unseen", "active", "completed", "failed", "forgotten"}

\* "publishing" stands for every state a publication is at work in: preparing,
\* publishing, catalog_committed and cleanup_pending.
BarrierState ==
    {"absent", "publishing", "completed", "rolled_back", "needs_attention",
     "resolved"}
Settled == {"completed", "resolved"}
Stuck == {"absent", "rolled_back", "needs_attention"}

Phase ==
    {"idle", "barriers", "source", "evidence", "abort", "remove",
     "record_removal", "discard", "finish", "recheck", "recheck_source",
     "recheck_absent", "recheck_discard", "defer", "reopen",
     "on_retry", "retry", "on_unsafe", "unsafe"}

\* The columns of the row a worker carries across its awaits and reads again.
Snapshot(row) ==
    [state |-> row.state, bundles |-> row.bundles, failures |-> row.failures,
     error |-> row.error, located |-> row.located,
     identified |-> row.identified]

SnapshotType ==
    [state : AttemptState, bundles : SUBSET Bundle,
     failures : 0 .. UnresolvedJobRetries, error : ErrorCode,
     located : BOOLEAN, identified : BOOLEAN]

Idle ==
    [phase |-> "idle", attempt |-> CHOOSE a \in Attempt : TRUE,
     row |-> Snapshot(Absent), fresh |-> FALSE, seen |-> "unseen", found |-> FALSE,
     further |-> FALSE, mounted |-> FALSE, code |-> "none"]

\* One row in the hands of a worker: where its coroutine stands, the row as it
\* last read or wrote it, and what the client told it.
WorkerType ==
    [phase : Phase, attempt : Attempt, row : SnapshotType, fresh : BOOLEAN,
     seen : ClientState, found : BOOLEAN, further : BOOLEAN,
     mounted : BOOLEAN, code : ErrorCode]

TypeOK ==
    /\ journal \in [Attempt -> Row]
    /\ worker \in [Worker -> WorkerType]
    /\ disk \in [Attempt -> DiskState]
    /\ client \in [Attempt -> ClientState]
    /\ barrier \in [Bundle -> BarrierState]
    /\ down \subseteq {"client", "mount"}

Init ==
    /\ journal = [a \in Attempt |-> Absent]
    /\ worker = [w \in Worker |-> Idle]
    /\ disk = [a \in Attempt |-> "empty"]
    /\ client = [a \in Attempt |-> "unseen"]
    /\ barrier = [b \in Bundle |-> "absent"]
    /\ down = {}

-----------------------------------------------------------------------------
(* Writing rows.  A write of a row makes every other reader of it stale.   *)

Busy(w) == worker[w].phase # "idle"
At(w, phase) == worker[w].phase = phase
Target(w) == worker[w].attempt

Stale(rows) ==
    [w \in Worker |->
        IF worker[w].attempt \in rows
        THEN [worker[w] EXCEPT !.fresh = FALSE] ELSE worker[w]]

\* A compare-and-swap of w that wins replaces the row as it stands: while w is
\* fresh only the clock has touched it since w read it.
Current(w) == journal[Target(w)]

\* w goes on with the row it wrote, in phase next.
Swap(w, row, next) ==
    /\ worker[w].fresh
    /\ journal' = [journal EXCEPT ![Target(w)] = row]
    /\ worker' = [Stale({Target(w)}) EXCEPT
                     ![w] = [worker[w] EXCEPT !.phase = next,
                                              !.row = Snapshot(row)]]

\* w's last compare-and-swap.
SwapAndReturn(w, row) ==
    /\ worker[w].fresh
    /\ journal' = [journal EXCEPT ![Target(w)] = row]
    /\ worker' = [Stale({Target(w)}) EXCEPT ![w] = Idle]

\* Steps of w that write no row.
Goto(w, next) ==
    /\ worker' = [worker EXCEPT ![w].phase = next]
    /\ UNCHANGED journal

Return(w) ==
    /\ worker' = [worker EXCEPT ![w] = Idle]
    /\ UNCHANGED journal

\* _RetryableCleanup and _UnsafeCleanup unwind to the handlers of
\* _process_claimed, which keep the attempt's id and the error code only.
Raise(w, handler, code) ==
    /\ worker' = [worker EXCEPT ![w] =
                     [Idle EXCEPT !.phase = handler, !.attempt = Target(w),
                                  !.code = code]]
    /\ UNCHANGED journal
Retryable(w) == Raise(w, "on_retry", "none")
Unsafe(w, code) == Raise(w, "on_unsafe", code)

Lost(w) == ~worker[w].fresh /\ Retryable(w)

-----------------------------------------------------------------------------
(* Cleaning up one claimed row *)

\* run_once and cleanup_now.
Claim(w, a) ==
    /\ At(w, "idle")
    /\ Claimable(journal[a])
    /\ LET row == Claimed(journal[a], w) IN
       /\ journal' = [journal EXCEPT ![a] = row]
       /\ worker' = [Stale({a}) EXCEPT
             ![w] = [Idle EXCEPT
                 !.phase = IF row.state = "needs_attention"
                           THEN "recheck" ELSE "barriers",
                 !.attempt = a, !.row = Snapshot(row), !.fresh = TRUE]]
    /\ UNCHANGED <<disk, client, barrier, down>>

AllSettled(bundles) == \A b \in bundles : barrier[b] \in Settled

\* Mutant: a bundle still being published is no reason to wait.
CheckPublisherBarriersUnawaited(w) ==
    /\ At(w, "barriers")
    /\ \/ /\ \A b \in worker[w].row.bundles : barrier[b] \notin Stuck
          /\ Goto(w, "source")
       \/ \E b \in worker[w].row.bundles :
             barrier[b] \in Stuck /\ Unsafe(w, "publisher")
    /\ UNCHANGED <<disk, client, barrier, down>>

\* The bundles are read one by one and the first unsettled one decides, so
\* any unsettled one may.
CheckPublisherBarriers(w) ==
    /\ At(w, "barriers")
    /\ \/ /\ AllSettled(worker[w].row.bundles)
          /\ Goto(w, "source")
       \/ \E b \in worker[w].row.bundles :
             \/ barrier[b] \in Stuck /\ Unsafe(w, "publisher")
             \/ /\ barrier[b] = "publishing"
                /\ SwapAndReturn(w, Waiting(Current(w))) \/ Lost(w)
    /\ UNCHANGED <<disk, client, barrier, down>>

\* What inspect_materialization reports: the client's record of the job, and
\* the source paths.  SABnzbd names the workspace of a completed job, unless
\* its complete directory cannot be mapped; slskd lists the files it finds.
Seen(a) == IF client[a] = "forgotten" THEN "unseen" ELSE client[a]
Found(a) ==
    IF a \in Usenet
    THEN IF client[a] = "completed" THEN BOOLEAN ELSE {FALSE}
    ELSE {disk[a] \in Occupied \union Exceeded /\ "mount" \notin down}

\* Some of the files slskd lists are beyond the lot.
Further(a) == a \notin Usenet /\ disk[a] \in Exceeded /\ "mount" \notin down

\* The client answers; w keeps what it said and goes on in phase next.
Inspected(w, next) ==
    /\ \E found \in Found(Target(w)) :
          worker' = [worker EXCEPT
              ![w].phase = next, ![w].seen = Seen(Target(w)),
              ![w].found = found,
              ![w].further = Further(Target(w)), ![w].mounted = "mount" \notin down]
    /\ UNCHANGED journal

InspectSource(w) ==
    /\ At(w, "source")
    /\ IF worker[w].row.state = "workspace_removed"
       THEN Goto(w, "discard")
       ELSE IF "client" \in down
       THEN Retryable(w)
       ELSE Inspected(w, "evidence")
    /\ UNCHANGED <<disk, client, barrier, down>>

\* slskd files are fingerprinted when they are first recorded, except those the
\* publisher has fingerprinted already; that takes the mount.
Unreadable(w) ==
    /\ Target(w) \notin Usenet
    /\ worker[w].found /\ ~worker[w].row.located
    /\ "mount" \in down

\* A file may be listed and fingerprinted while slskd still writes it.
StillWritten(w) ==
    /\ Target(w) \notin Usenet
    /\ worker[w].found /\ ~worker[w].row.located
    /\ client[Target(w)] = "active" /\ "mount" \notin down

\* A lot on record that does not cover every file now listed is evidence that
\* contradicts itself: a file finished after the lot was recorded.
BeyondRecord(w) == worker[w].row.located /\ worker[w].further

\* The first record of a lot takes in whatever the inspection listed.
RecordedLot(w) ==
    IF worker[w].further /\ ~worker[w].row.located /\ disk[Target(w)] = "grown"
    THEN [disk EXCEPT ![Target(w)] = "present"] ELSE disk

\* Evidence that contradicts what was recorded before is never acted on, nor is
\* a file that changes while it is fingerprinted.
RecordEvidence(w) ==
    /\ At(w, "evidence")
    /\ \/ /\ ~BeyondRecord(w)
          /\ Swap(w, Evidenced(Current(w), worker[w].found,
                               worker[w].seen # "unseen"),
                  IF worker[w].seen = "active" THEN "abort" ELSE "remove")
          /\ disk' = RecordedLot(w)
       \/ /\ \/ BeyondRecord(w) \/ disk[Target(w)] = "replaced"
             \/ StillWritten(w)
          /\ Unsafe(w, "other") /\ UNCHANGED disk
       \/ ~BeyondRecord(w) /\ Unreadable(w) /\ Retryable(w) /\ UNCHANGED disk
       \/ ~BeyondRecord(w) /\ Lost(w) /\ UNCHANGED disk
    /\ UNCHANGED <<client, barrier, down>>

\* An aborted SABnzbd job takes its incomplete bytes with it; a job that
\* finished meanwhile is not aborted.
AbortActive(w) ==
    /\ At(w, "abort")
    /\ LET a == Target(w) IN
       IF "client" \in down \/ (a \in Usenet /\ client[a] = "completed")
       THEN Retryable(w) /\ UNCHANGED client
       ELSE /\ client' = [client EXCEPT ![a] = "forgotten"]
            /\ Goto(w, IF a \in Usenet THEN "finish" ELSE "remove")
    /\ UNCHANGED <<disk, barrier, down>>

\* Removing the lot leaves what is beyond it.
Unlinked(a) ==
    [disk EXCEPT ![a] = CASE @ = "empty"     -> "empty"
                          [] @ \in Exceeded  -> "leftover"
                          [] OTHER           -> "gone"]

\* Mutant: the removal thread is started and not awaited.
RemoveUnawaited(w, next) == Goto(w, next) /\ UNCHANGED disk

\* _remove_workspace_safely and _unlink_file_safely, one worker-thread call:
\* validate everything on open descriptors, then delete.
RemoveSafely(w, next) ==
    IF "mount" \in down
    THEN Retryable(w) /\ UNCHANGED disk
    ELSE IF disk[Target(w)] = "replaced"
    THEN Unsafe(w, "other") /\ UNCHANGED disk
    ELSE disk' = Unlinked(Target(w)) /\ Goto(w, next)

\* Mutant: a job the client no longer knows is done with, whatever is on disk.
SettleMissingJobBlindly(w) == Goto(w, "finish")

\* The client no longer knows the job.  A recorded workspace that is still
\* there is not deleted on its say-so; an enqueue that was never confirmed is
\* given a few rounds to turn up.
SettleMissingJob(w) ==
    LET row == worker[w].row IN
    IF row.located
    THEN IF disk[Target(w)] \in Occupied /\ "mount" \notin down
         THEN Unsafe(w, "other") ELSE Goto(w, "finish")
    ELSE IF ~row.identified /\ row.failures < UnresolvedJobRetries
         THEN Retryable(w) ELSE Goto(w, "finish")

CleanupUsenetWorkspace(w) ==
    /\ At(w, "remove")
    /\ Target(w) \in Usenet
    /\ \/ /\ worker[w].seen = "failed"
          /\ Goto(w, "discard") /\ UNCHANGED disk
       \/ /\ worker[w].seen # "failed" /\ ~worker[w].mounted
          /\ Retryable(w) /\ UNCHANGED disk
       \/ /\ worker[w].seen = "unseen" /\ worker[w].mounted
          /\ SettleMissingJob(w) /\ UNCHANGED disk
       \/ /\ worker[w].seen = "completed" /\ worker[w].mounted
          /\ IF worker[w].row.located
             THEN RemoveSafely(w, "record_removal")
             ELSE Unsafe(w, "other") /\ UNCHANGED disk
    /\ UNCHANGED <<client, barrier, down>>

\* Mutant: with the mount gone there are no files to remove.
CleanupSlskdFilesUnmounted(w) ==
    /\ At(w, "remove")
    /\ Target(w) \notin Usenet
    /\ IF worker[w].mounted /\ worker[w].row.located
       THEN RemoveSafely(w, "discard")
       ELSE Goto(w, "discard") /\ UNCHANGED disk
    /\ UNCHANGED <<client, barrier, down>>

\* slskd: the exact files, each re-fingerprinted before it is unlinked.
CleanupSlskdFiles(w) ==
    /\ At(w, "remove")
    /\ Target(w) \notin Usenet
    /\ IF ~worker[w].mounted
       THEN Retryable(w) /\ UNCHANGED disk
       ELSE IF worker[w].row.located
       THEN RemoveSafely(w, "discard")
       ELSE Goto(w, "discard") /\ UNCHANGED disk
    /\ UNCHANGED <<client, barrier, down>>

RecordRemoval(w) ==
    /\ At(w, "record_removal")
    /\ Swap(w, WorkspaceRemoved(Current(w)), "discard") \/ Lost(w)
    /\ UNCHANGED <<disk, client, barrier, down>>

\* SABnzbd keeps the records of a job still queued; slskd cancels it.
Discardable(a) == "client" \notin down /\ ~(a \in Usenet /\ client[a] = "active")
Discarded(a) ==
    [client EXCEPT ![a] = IF @ = "unseen" THEN "unseen" ELSE "forgotten"]

DiscardClientArtifacts(w) ==
    /\ At(w, "discard")
    /\ IF Discardable(Target(w))
       THEN client' = Discarded(Target(w)) /\ Goto(w, "finish")
       ELSE Retryable(w) /\ UNCHANGED client
    /\ UNCHANGED <<disk, barrier, down>>

MarkComplete(w) ==
    /\ At(w, "finish")
    /\ SwapAndReturn(w, Completed(Current(w))) \/ Lost(w)
    /\ UNCHANGED <<disk, client, barrier, down>>

-----------------------------------------------------------------------------
(* Attention debt: rows whose evidence was unsafe, looked at again hourly *)

\* The barriers first: attention debt waits for all of them.
RecheckAttention(w) ==
    /\ At(w, "recheck")
    /\ Goto(w, IF AllSettled(worker[w].row.bundles) THEN "recheck_source"
                                                   ELSE "defer")
    /\ UNCHANGED <<disk, client, barrier, down>>

RecheckSource(w) ==
    /\ At(w, "recheck_source")
    /\ IF "client" \in down
       THEN Goto(w, "defer")
       ELSE Inspected(w, IF "mount" \in down THEN "defer" ELSE "recheck_absent")
    /\ UNCHANGED <<disk, client, barrier, down>>

\* Nothing of the attempt is left on the mount: not where its row says, not
\* where the client says, or else the client has never heard of it.
SourceAbsent(w) ==
    /\ "mount" \notin down
    /\ worker[w].seen # "active"
    /\ IF worker[w].row.located \/ worker[w].found
       THEN /\ disk[Target(w)] \notin Occupied
            /\ worker[w].further => disk[Target(w)] # "leftover"
       ELSE worker[w].seen = "unseen"

\* Where attention debt goes that cannot be closed.
NotAbsent(w) == IF worker[w].row.error = "publisher" THEN "reopen" ELSE "defer"

RecheckAbsent(w) ==
    /\ At(w, "recheck_absent")
    /\ Goto(w, IF SourceAbsent(w) THEN "recheck_discard" ELSE NotAbsent(w))
    /\ UNCHANGED <<disk, client, barrier, down>>

\* A client that raises defers; one that merely declines falls through.
RecheckDiscard(w) ==
    /\ At(w, "recheck_discard")
    /\ IF Discardable(Target(w))
       THEN client' = Discarded(Target(w)) /\ Goto(w, "finish")
       ELSE /\ UNCHANGED client
            /\ Goto(w, IF "client" \in down THEN "defer" ELSE NotAbsent(w))
    /\ UNCHANGED <<disk, barrier, down>>

Reopen(w) ==
    /\ At(w, "reopen")
    /\ SwapAndReturn(w, Reopened(Current(w))) \/ Lost(w)
    /\ UNCHANGED <<disk, client, barrier, down>>

DeferAttention(w) ==
    /\ At(w, "defer")
    /\ SwapAndReturn(w, Deferred(Current(w))) \/ Lost(w)
    /\ UNCHANGED <<disk, client, barrier, down>>

-----------------------------------------------------------------------------
(* The exception handlers of _process_claimed re-read the row, whoever it    *)
(* belongs to by now, and compare-and-swap against what they just read.      *)

Reread(w, from, to) ==
    /\ At(w, from)
    /\ worker' = [worker EXCEPT ![w].phase = to, ![w].fresh = TRUE,
                                ![w].row = Snapshot(Current(w))]
    /\ UNCHANGED <<journal, disk, client, barrier, down>>

RecordFailure(w) ==
    /\ At(w, "retry")
    /\ \/ SwapAndReturn(w, FailureRecorded(Current(w)))
       \/ ~worker[w].fresh /\ Return(w)
    /\ UNCHANGED <<disk, client, barrier, down>>

RecordUnsafe(w) ==
    /\ At(w, "unsafe")
    /\ \/ SwapAndReturn(w, Quarantined(Current(w), worker[w].code))
       \/ ~worker[w].fresh /\ Return(w)
    /\ UNCHANGED <<disk, client, barrier, down>>

Work(w) ==
    \/ CheckPublisherBarriers(w) \/ InspectSource(w) \/ RecordEvidence(w)
    \/ AbortActive(w) \/ CleanupUsenetWorkspace(w) \/ CleanupSlskdFiles(w)
    \/ RecordRemoval(w) \/ DiscardClientArtifacts(w) \/ MarkComplete(w)
    \/ RecheckAttention(w) \/ RecheckSource(w) \/ RecheckAbsent(w)
    \/ RecheckDiscard(w) \/ Reopen(w) \/ DeferAttention(w)
    \/ Reread(w, "on_retry", "retry") \/ Reread(w, "on_unsafe", "unsafe")
    \/ RecordFailure(w) \/ RecordUnsafe(w)

-----------------------------------------------------------------------------
(* The owner: the download orchestrator and the admin routes, each through   *)
(* one write transaction of the store.                                       *)

OwnerWrites(a, row) ==
    /\ journal' = [journal EXCEPT ![a] = row]
    /\ worker' = Stale({a})
    /\ UNCHANGED <<disk, client, barrier, down>>

\* create_download_attempt, before the client is asked.
CreateAttempt(a) ==
    /\ journal[a].state = "absent"
    /\ OwnerWrites(a, Created)

\* update_download_attempt_handle, after the client accepted.
StoreHandle(a) ==
    /\ HandleUpdatable(journal[a])
    /\ ~journal[a].identified
    /\ client[a] # "unseen"
    /\ OwnerWrites(a, HandleUpdated(journal[a]))

\* schedule_download_attempt_cleanup and finalize_task_and_attempt: one row.
Schedule(a, disposition, bundles) ==
    /\ Schedulable(journal[a])
    /\ OwnerWrites(a, Scheduled(journal[a], disposition, bundles))

\* cancel_task_and_schedule_attempts: every open row of the task at once.
Open == {a \in Attempt : Schedulable(journal[a])}
CancelTask(disposition, bundles) ==
    /\ Open # {}
    /\ journal' = [a \in Attempt |->
                      IF a \in Open THEN Scheduled(journal[a], disposition, bundles)
                                    ELSE journal[a]]
    /\ worker' = Stale(Open)
    /\ UNCHANGED <<disk, client, barrier, down>>

\* acquire_download_attempt_for_reimport.
AcquireForReimport(a) ==
    /\ Reimportable(journal[a])
    /\ OwnerWrites(a, Reacquired(journal[a]))

\* Whoever decides lists bundles that exist by then.
Known == {b \in Bundle : barrier[b] # "absent"}

Owner ==
    \/ \E a \in Attempt :
          \/ CreateAttempt(a) \/ StoreHandle(a) \/ AcquireForReimport(a)
          \/ \E d \in {"discard", "preserve"}, B \in SUBSET Known : Schedule(a, d, B)
    \/ \E d \in {"discard", "preserve"}, B \in SUBSET Known : CancelTask(d, B)

-----------------------------------------------------------------------------
(* Surroundings: the library publisher, the download client, the mount, time *)

BarrierStep(b, from, to) ==
    /\ barrier[b] \in from
    /\ barrier' = [barrier EXCEPT ![b] = to]
    /\ UNCHANGED <<journal, worker, disk, client, down>>

\* Bundle states as the store's guarded updates let them move.
Publisher(b) ==
    \/ BarrierStep(b, {"absent", "rolled_back"}, "publishing")
    \/ BarrierStep(b, {"publishing"}, "completed")
    \/ BarrierStep(b, {"publishing"}, "rolled_back")
    \/ BarrierStep(b, {"publishing"}, "needs_attention")
    \/ BarrierStep(b, {"needs_attention"}, "resolved")

ClientStep(a, from, to) ==
    /\ client[a] = from
    /\ client' = [client EXCEPT ![a] = to]
    /\ UNCHANGED <<journal, worker, barrier, down>>

\* One more slskd file is there.  It joins the lot while none is on record, unless
\* an inspection has passed it by; a file on record may prove to be half-written.
\* (What foreign hands took away before it was on record stays gone.)
FileFinishes(a) ==
    LET after ==
          CASE disk[a] = "empty" -> {"present"}
            [] disk[a] = "gone" /\ journal[a].located -> {"leftover"}
            [] disk[a] = "present" /\ ~journal[a].located -> {"present", "grown"}
            [] disk[a] \in {"present", "grown"} /\ journal[a].located ->
                  {"grown", "replaced"}
            [] OTHER -> {disk[a]}
    IN /\ a \notin Usenet
       /\ \E d \in after : disk' = [disk EXCEPT ![a] = d]

\* The job becomes visible, ends, and may be purged from the client's history.
\* slskd leaves finished files in place while others are still on their way;
\* SABnzbd publishes a workspace once, on success.
Download(a) ==
    \/ /\ journal[a].state # "absent"
       /\ ClientStep(a, "unseen", "active") /\ UNCHANGED disk
    \/ ClientStep(a, "active", "active") /\ FileFinishes(a)
    \/ /\ ClientStep(a, "active", "completed")
       /\ \/ FileFinishes(a)
          \/ disk[a] # "empty" /\ UNCHANGED disk
          \/ /\ a \in Usenet /\ disk[a] = "empty"
             /\ disk' = [disk EXCEPT ![a] = "present"]
    \/ ClientStep(a, "active", "failed") /\ UNCHANGED disk
    \/ /\ "purge" \in Mishaps
       /\ ClientStep(a, "completed", "forgotten") /\ UNCHANGED disk

\* Someone else's hands on the mount.
Meddle(a) ==
    /\ "meddling" \in Mishaps
    /\ \/ disk[a] = "present" /\ disk' = [disk EXCEPT ![a] = "replaced"]
       \/ disk[a] = "replaced" /\ disk' = [disk EXCEPT ![a] = "gone"]
    /\ UNCHANGED <<journal, worker, client, barrier, down>>

Outage(x) ==
    /\ down' = IF x \in down THEN down \ {x} ELSE down \union {x}
    /\ UNCHANGED <<journal, worker, disk, client, barrier>>

\* next_retry_at passes.
FallDue(a) ==
    /\ ~journal[a].due
    /\ journal' = [journal EXCEPT ![a].due = TRUE]
    /\ UNCHANGED <<worker, disk, client, barrier, down>>

Holder(a) == {w \in Worker : Busy(w) /\ Target(w) = a /\ journal[a].owner = w}

\* lease_expires_at passes.
LeaseLapses(a) ==
    /\ journal[a].lease = "live"
    /\ LeaseMayLapse \/ Holder(a) = {}
    /\ journal' = [journal EXCEPT ![a].lease = "lapsed"]
    /\ UNCHANGED <<worker, disk, client, barrier, down>>

\* The process dies and comes back: coroutines are lost, rows are not.
Crash ==
    /\ "crash" \in Mishaps
    /\ \E w \in Worker : Busy(w)
    /\ worker' = [w \in Worker |-> Idle]
    /\ UNCHANGED <<journal, disk, client, barrier, down>>

Surroundings ==
    \/ \E b \in Bundle : Publisher(b)
    \/ \E a \in Attempt :
          Download(a) \/ Meddle(a) \/ FallDue(a) \/ LeaseLapses(a)
    \/ \E x \in {"client", "mount"} \intersect Mishaps : Outage(x)
    \/ Crash

Next ==
    \/ \E w \in Worker : Work(w) \/ \E a \in Attempt : Claim(w, a)
    \/ Owner
    \/ Surroundings

Spec == Init /\ [][Next]_vars

-----------------------------------------------------------------------------
(* Properties *)

\* Phases a worker reaches only past the publisher barriers and from which it
\* goes on to touch bytes, client records or the row's final state.
Cleared ==
    {"source", "evidence", "abort", "remove", "record_removal", "discard",
     "finish", "recheck_source", "recheck_absent", "recheck_discard", "reopen"}

\* The phases of the exception handlers, which have let go of the row, and
\* those of a worker that still acts on what it claimed.
Handling == {"on_retry", "retry", "on_unsafe", "unsafe"}
HandsOn == Phase \ (Handling \union {"idle"})

\* A worker that got past the barriers may go on although it no longer looks:
\* every bundle on the list it checked is still settled, through all the
\* awaits that follow (_check_publisher_barriers, _recheck_attention).
ClearedBySettledBundles ==
    \A w \in Worker :
        worker[w].phase \in Cleared => AllSettled(worker[w].row.bundles)

\* workspace_removed is a durable promise that the bytes are gone: whoever
\* picks the row up next discards the client's records without looking at the
\* mount again (_cleanup_source).
RemovedMeansGone ==
    \A a \in Attempt :
        journal[a].state = "workspace_removed" => disk[a] \notin Occupied

Completes(a) == journal[a].state # "complete" /\ journal'[a].state = "complete"

\* An attempt is closed over bytes whose place it had recorded only when those
\* bytes are no longer there, whatever was aborted, purged or interrupted in
\* between (_cleanup_usenet_workspace, _cleanup_slskd_files, _mark_complete).
CompletionLeavesNoSource ==
    [][\A a \in Attempt :
          Completes(a) /\ journal[a].located => disk[a] \notin Occupied]_vars

\* The lease protects the row: as long as a worker working a row still owns it,
\* the row is the debt it checked.  Scheduling, cancelling and re-importing all
\* take the lease away with whatever else they change (download_store), so a
\* re-import can never be handed a row that somebody is about to clean up in
\* good faith.
LeaseProtectsRow ==
    \A w \in Worker :
        worker[w].phase \in HandsOn /\ journal[Target(w)].owner = w
            => Snapshot(journal[Target(w)]) = worker[w].row

\* Bytes are deleted only while the row says they are debris: nothing that was
\* meanwhile preserved or taken back into use loses its files
\* (_remove_workspace_safely and _unlink_file_safely, called between two
\* compare-and-swaps).
DeletesOnlyDebt ==
    [][\A a \in Attempt :
          disk[a] \in Occupied /\ disk'[a] \notin Occupied
              => journal[a].state = "cleanup_pending"]_vars

\* A closed attempt is never debt again and never back in use, not by the owner's
\* scheduling and re-importing, which do not ask for the lease, nor by a handler
\* that re-reads the row long after its worker lost it: all such a late handler
\* can still do is to put the row before a human (_process_claimed,
\* record_download_cleanup_failure, schedule_download_attempt_cleanup).
ClosedNeverDebt ==
    [][\A a \in Attempt :
          journal[a].state = "complete"
              => journal'[a].state \in {"complete", "needs_attention"}]_vars

\* A closed attempt stays closed.  One worker alone keeps it so; with two, the
\* handler of a late one can put the row before a human (ClosedNeverDebt).
CompleteIsFinal ==
    [][\A a \in Attempt :
          journal[a].state = "complete" => journal'[a].state = "complete"]_vars

-----------------------------------------------------------------------------
(* Strengthening: what the safety properties above rest on. *)

\* run_once and cleanup_now hand over claimed debt and nothing else.
WorksOnDebt ==
    \A w \in Worker :
        worker[w].phase \in HandsOn => worker[w].row.state \in CleanupStates

\* A compare-and-swap that will win was prepared from the row as it stands.
FreshIsCurrent ==
    \A w \in Worker :
        Busy(w) /\ worker[w].fresh => worker[w].row = Snapshot(journal[Target(w)])

\* One that will win outside the handlers is the lease holder's.
FreshOwns ==
    \A w \in Worker :
        worker[w].phase \in HandsOn /\ worker[w].fresh
            => journal[Target(w)].owner = w

LeaseInv ==
    TypeOK /\ WorksOnDebt /\ FreshIsCurrent /\ FreshOwns /\ LeaseProtectsRow

\* The bytes are gone and the client has nothing left to write.
GoneForGood(a) == disk[a] \notin Occupied /\ client[a] \notin {"unseen", "active"}

\* What workspace_removed promises is already true when it is about to be
\* written, and stays true for every copy of the row.
RemovalInv ==
    /\ \A a \in Attempt : journal[a].state = "workspace_removed" => GoneForGood(a)
    /\ \A w \in Worker :
          /\ worker[w].phase = "record_removal" => GoneForGood(Target(w))
          /\ worker[w].phase \in HandsOn /\ worker[w].row.state = "workspace_removed"
                => GoneForGood(Target(w))
          /\ worker[w].seen = "completed"
                => client[Target(w)] \in {"completed", "forgotten"}

\* Bytes appear only as a download runs, SABnzbd's only as it ends well.
BytesMeanSeen ==
    /\ \A a \in Attempt :
          /\ disk[a] # "empty" => client[a] # "unseen"
          /\ client[a] = "completed" => disk[a] # "empty"
    /\ \A a \in Usenet :
          /\ disk[a] # "empty" => client[a] # "active"
          /\ client[a] = "failed" => disk[a] = "empty"
    /\ \A w \in Worker :
          worker[w].seen = "failed" =>
              /\ client[Target(w)] \in {"failed", "forgotten"}
              /\ Target(w) \in Usenet => disk[Target(w)] = "empty"

\* A place is recorded only for bytes that were there, so for SABnzbd never
\* while it still works on them.
LocatedMeansBytes ==
    /\ \A a \in Attempt : journal[a].located => disk[a] # "empty"
    /\ \A w \in Worker :
          /\ worker[w].phase \in HandsOn /\ worker[w].row.located
                => disk[Target(w)] # "empty"
          /\ worker[w].found => disk[Target(w)] # "empty"
          /\ Target(w) \in Usenet =>
                /\ worker[w].phase = "evidence" /\ worker[w].seen = "active"
                      => ~worker[w].row.located /\ ~worker[w].found
                /\ worker[w].phase = "abort" => ~worker[w].row.located

\* With the mount up, a worker about to close an attempt leaves nothing behind.
NothingLeft ==
    \A w \in Worker :
        /\ worker[w].phase \in {"discard", "finish", "recheck_discard"}
        /\ worker[w].row.located
        => disk[Target(w)] \notin Occupied

SourceInv ==
    /\ BytesMeanSeen
    /\ LocatedMeansBytes
    /\ "mount" \notin Mishaps => "mount" \notin down /\ NothingLeft

IndInv == LeaseInv /\ ClearedBySettledBundles /\ RemovalInv /\ SourceInv

-----------------------------------------------------------------------------
(* Fairness and liveness *)

\* The periodic worker keeps running, time passes, and a coroutine that can
\* take its next step takes it.
Fairness ==
    /\ \A w \in Worker : WF_vars(Work(w))
    /\ \A a \in Attempt :
          /\ WF_vars(\E w \in Worker : Claim(w, a))
          /\ WF_vars(FallDue(a))
          /\ WF_vars(LeaseLapses(a))

FairSpec == Spec /\ Fairness

\* Nobody writes the rows but the workers, client and mount answer, and no
\* publication is under way.
Calm ==
    /\ <>[](down = {} /\ \A b \in Bundle : barrier[b] # "publishing")
    /\ <>[][~Owner /\ ~Crash]_vars

\* Cleanup debt never gets stuck half way: once the surroundings are calm it
\* is paid off or put before a human.
DebtDrains ==
    Calm => \A a \in Attempt :
                journal[a].state \in {"cleanup_pending", "workspace_removed"}
                    ~> journal[a].state \in {"complete", "needs_attention",
                                             "in_use", "preserved"}
=============================================================================
