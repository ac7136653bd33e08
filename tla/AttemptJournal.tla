--------------------------- MODULE AttemptJournal ---------------------------
(***************************************************************************)
(* The download_attempts table of the download store                       *)
(* (infrastructure/persistence/download_store.py): one row per hand-off of *)
(* a candidate to a download client, kept apart from the queue task so     *)
(* that deleting a task never erases the duty to clean its bytes up.       *)
(*                                                                         *)
(* Every operation of the store is one SQLite write transaction under the  *)
(* shared write lock, so each is one operator from a row to a row.  Wall   *)
(* clock comparisons are abstracted to their outcome: `due' stands for     *)
(* next_retry_at <= now, `lease' for the three answers lease_expires_at    *)
(* can give (NULL, in the future, in the past).  The paths, fingerprints   *)
(* and handle columns are abstracted to whether they are filled in.  The   *)
(* disposition column is left out: nothing reads it back, and the state    *)
(* (cleanup_pending against preserved) already tells the two apart.        *)
(***************************************************************************)
EXTENDS Naturals

CONSTANTS
    Worker,               \* cleanup workers: each names itself in lease_owner
    Bundle,               \* import publication bundles of the library
    NoOwner,              \* lease_owner IS NULL
    UnresolvedJobRetries  \* _UNRESOLVED_JOB_RETRIES of the cleanup service

ASSUME NoOwnerAssumption == NoOwner \notin Worker
ASSUME RetriesAssumption == UnresolvedJobRetries \in Nat \ {0}

AttemptState ==
    {"absent", "acquiring", "in_use", "cleanup_pending", "workspace_removed",
     "complete", "preserved", "needs_attention"}

\* error_code, as far as anything branches on it: "publisher" stands for the
\* two publisher codes from which attention debt may go back to cleanup.
ErrorCode == {"none", "publisher", "other"}

\* cleanup_failures saturates: only `< UnresolvedJobRetries' is ever asked.
Row ==
    [state       : AttemptState,
     bundles     : SUBSET Bundle,            \* publisher_bundle_ids
     failures    : 0 .. UnresolvedJobRetries,
     due         : BOOLEAN,
     lease       : {"none", "live", "lapsed"},
     owner       : Worker \union {NoOwner},
     error       : ErrorCode,
     located     : BOOLEAN,                  \* workspace / file paths recorded
     identified  : BOOLEAN]                  \* the client's job id is recorded

\* The row before it is inserted.
Absent ==
    [state |-> "absent", bundles |-> {}, failures |-> 0, due |-> TRUE,
     lease |-> "none", owner |-> NoOwner, error |-> "none",
     located |-> FALSE, identified |-> FALSE]

-----------------------------------------------------------------------------
(* Operations of the acquisition side. *)

Created == [Absent EXCEPT !.state = "acquiring"]

\* The client accepted the job; refused (ValueError) in any other state.
HandleUpdatable(row) == row.state \in {"acquiring", "in_use"}
HandleUpdated(row) == [row EXCEPT !.state = "in_use", !.identified = TRUE]

Released(row) == [row EXCEPT !.lease = "none", !.owner = NoOwner]

\* Mutant: a closed attempt is scheduled again.
SchedulableClosed(row) == row.state \notin {"absent", "needs_attention"}

\* The UPDATE shared by schedule, finalize and cancel.  It takes the row away
\* from whatever worker holds its lease; complete and needs_attention rows are
\* left alone.
Schedulable(row) == row.state \notin {"absent", "complete", "needs_attention"}

\* Mutant: the disposition's own word ("preserve") lands in the state column.
ScheduledVerbatim(row, disposition, bundles) ==
    [Released(row) EXCEPT
        !.state = IF disposition = "discard" THEN "cleanup_pending"
                                             ELSE disposition,
        !.bundles = bundles,
        !.due = TRUE,
        !.error = "none"]

\* Mutant: the UPDATE forgets lease_owner and lease_expires_at.
ScheduledUnderLease(row, disposition, bundles) ==
    [row EXCEPT
        !.state = IF disposition = "discard" THEN "cleanup_pending"
                                             ELSE "preserved",
        !.bundles = bundles,
        !.due = TRUE,
        !.error = "none"]

Scheduled(row, disposition, bundles) ==
    [Released(row) EXCEPT
        !.state = IF disposition = "discard" THEN "cleanup_pending"
                                             ELSE "preserved",
        !.bundles = bundles,
        !.due = TRUE,
        !.error = "none"]

\* A manual re-import takes the attempt back; bundle ids and evidence stay.
Reimportable(row) ==
    /\ row.state \in {"cleanup_pending", "preserved", "needs_attention"}
    /\ row.lease # "live"
Reacquired(row) ==
    [Released(row) EXCEPT !.state = "in_use", !.due = TRUE, !.error = "none"]

-----------------------------------------------------------------------------
(* Operations of the cleanup workers. *)

CleanupStates == {"cleanup_pending", "workspace_removed", "needs_attention"}

\* Mutant: lease_expires_at <= now forgotten, only unleased rows are claimed.
ClaimableUnleased(row) ==
    row.state \in CleanupStates /\ row.due /\ row.lease = "none"

Claimable(row) ==
    /\ row.state \in CleanupStates
    /\ row.due
    /\ row.lease # "live"
Claimed(row, w) == [row EXCEPT !.lease = "live", !.owner = w]

\* Mutant: a failure puts the row back in debt, whatever it has become.
FailureRecordedReopens(row) ==
    [Released(row) EXCEPT
        !.state = "cleanup_pending",
        !.failures = IF @ < UnresolvedJobRetries THEN @ + 1 ELSE @,
        !.due = FALSE,
        !.error = "other"]

\* record_download_cleanup_failure: back off, count, give the lease up.  The
\* column goes on counting; here it stops where nobody asks any further.
FailureRecorded(row) ==
    [Released(row) EXCEPT
        !.failures = IF @ < UnresolvedJobRetries THEN @ + 1 ELSE @,
        !.due = FALSE,
        !.error = "other"]

\* The transitions the cleanup service asks of transition_download_attempt.
Deferred(row) == [Released(row) EXCEPT !.state = "needs_attention", !.due = FALSE]
Waiting(row) == [Released(row) EXCEPT !.due = FALSE, !.error = "other"]
Quarantined(row, code) ==
    [Released(row) EXCEPT
        !.state = "needs_attention", !.due = FALSE, !.error = code]
Reopened(row) ==
    [Released(row) EXCEPT
        !.state = "cleanup_pending", !.due = TRUE, !.error = "none"]
Evidenced(row, located, identified) ==
    [row EXCEPT !.located = @ \/ located, !.identified = @ \/ identified]
WorkspaceRemoved(row) == [row EXCEPT !.state = "workspace_removed", !.error = "none"]
Completed(row) == [Released(row) EXCEPT !.state = "complete", !.error = "none"]
=============================================================================
