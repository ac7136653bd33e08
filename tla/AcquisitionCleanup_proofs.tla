---------------------- MODULE AcquisitionCleanup_proofs ----------------------
(* Theorems about AcquisitionCleanup, for every set of workers, attempts and *)
(* bundles, every retry limit and every combination of mishaps.              *)
EXTENDS AcquisitionCleanup, TLAPS

-----------------------------------------------------------------------------
(* Types *)

LEMMA IdleType == Idle \in WorkerType
  <1>1. (CHOOSE a \in Attempt : TRUE) \in Attempt
    BY AttemptAssumption
  <1>2. Snapshot(Absent) \in SnapshotType
    BY RetriesAssumption DEF Snapshot, Absent, SnapshotType, AttemptState, ErrorCode
  <1> QED
    BY <1>1, <1>2 DEF Idle, WorkerType, Phase, ClientState, ErrorCode

LEMMA SnapshotIsTyped ==
  ASSUME NEW row \in Row
  PROVE  Snapshot(row) \in SnapshotType
  BY DEF Row, Snapshot, SnapshotType

\* The store's own updates keep a row well formed.
LEMMA RowUpdatesType ==
  ASSUME NEW row \in Row
  PROVE  /\ Created \in Row
         /\ HandleUpdated(row) \in Row
         /\ \A d \in {"discard", "preserve"}, B \in SUBSET Bundle :
               Scheduled(row, d, B) \in Row
         /\ Reacquired(row) \in Row
         /\ \A w \in Worker : Claimed(row, w) \in Row
         /\ FailureRecorded(row) \in Row
         /\ Deferred(row) \in Row
         /\ Waiting(row) \in Row
         /\ \A c \in ErrorCode : Quarantined(row, c) \in Row
         /\ Reopened(row) \in Row
         /\ \A l, i \in BOOLEAN : Evidenced(row, l, i) \in Row
         /\ WorkspaceRemoved(row) \in Row
         /\ Completed(row) \in Row
  <1> USE RetriesAssumption DEF Row, AttemptState, ErrorCode
  <1>1. Created \in Row
    <2>1. 0 \in 0 .. UnresolvedJobRetries
      OBVIOUS
    <2>2. Absent \in Row
      BY <2>1 DEF Absent
    <2> QED
      BY <2>2 DEF Created
  <1>2. HandleUpdated(row) \in Row
    BY DEF HandleUpdated
  <1>3. \A d \in {"discard", "preserve"}, B \in SUBSET Bundle :
           Scheduled(row, d, B) \in Row
    <2>1. Released(row) \in Row
      BY DEF Released
    <2> DEFINE r == Released(row)
    <2> SUFFICES ASSUME NEW d \in {"discard", "preserve"}, NEW B \in SUBSET Bundle
                 PROVE  Scheduled(row, d, B) \in Row
      OBVIOUS
    <2>2. (IF d = "discard" THEN "cleanup_pending" ELSE "preserved") \in AttemptState
      OBVIOUS
    <2>3. r \in Row /\ Scheduled(row, d, B)
            = [r EXCEPT !.state = IF d = "discard" THEN "cleanup_pending" ELSE "preserved",
                        !.bundles = B, !.due = TRUE, !.error = "none"]
      BY <2>1 DEF Scheduled
    <2> HIDE DEF r
    <2> QED
      BY <2>2, <2>3
  <1>4. Reacquired(row) \in Row
    BY DEF Reacquired, Released
  <1>5. \A w \in Worker : Claimed(row, w) \in Row
    BY DEF Claimed
  <1>6. FailureRecorded(row) \in Row
    <2> DEFINE n == IF row.failures < UnresolvedJobRetries
                    THEN row.failures + 1 ELSE row.failures
    <2>1. row.failures \in 0 .. UnresolvedJobRetries
      OBVIOUS
    <2>2. n \in 0 .. UnresolvedJobRetries
      BY <2>1
    <2>3. FailureRecorded(row) =
             [row EXCEPT !.lease = "none", !.owner = NoOwner,
                         !.failures = n, !.due = FALSE, !.error = "other"]
      BY DEF FailureRecorded, Released
    <2> HIDE DEF n
    <2> QED
      BY <2>2, <2>3
  <1>7. Deferred(row) \in Row /\ Waiting(row) \in Row
    BY DEF Deferred, Waiting, Released
  <1>8. \A c \in ErrorCode : Quarantined(row, c) \in Row
    BY DEF Quarantined, Released
  <1>9. Reopened(row) \in Row /\ Completed(row) \in Row
    BY DEF Reopened, Completed, Released
  <1>10. \A l, i \in BOOLEAN : Evidenced(row, l, i) \in Row
    BY DEF Evidenced
  <1>11. WorkspaceRemoved(row) \in Row
    BY DEF WorkspaceRemoved
  <1> QED
    BY <1>1, <1>2, <1>3, <1>4, <1>5, <1>6, <1>7, <1>8, <1>9, <1>10, <1>11

-----------------------------------------------------------------------------
(* The ways a worker takes a step keep the two typed variables typed. *)

LEMMA StaleType ==
  ASSUME worker \in [Worker -> WorkerType], NEW rows
  PROVE  Stale(rows) \in [Worker -> WorkerType]
  BY DEF Stale, WorkerType

RowsTyped == journal \in [Attempt -> Row] /\ worker \in [Worker -> WorkerType]

LEMMA SwapType ==
  ASSUME RowsTyped, NEW w \in Worker, NEW row \in Row, NEW next \in Phase,
         Swap(w, row, next)
  PROVE  RowsTyped'
  <1>1. Target(w) \in Attempt
    BY DEF RowsTyped, Target, WorkerType
  <1>2. journal' \in [Attempt -> Row]
    BY <1>1 DEF RowsTyped, Swap
  <1>3. Snapshot(row) \in SnapshotType
    BY SnapshotIsTyped
  <1>4. [worker[w] EXCEPT !.phase = next, !.row = Snapshot(row)] \in WorkerType
    BY <1>3 DEF RowsTyped, WorkerType
  <1>5. worker' \in [Worker -> WorkerType]
    BY <1>4, StaleType DEF RowsTyped, Swap
  <1> QED
    BY <1>2, <1>5 DEF RowsTyped

LEMMA SwapAndReturnType ==
  ASSUME RowsTyped, NEW w \in Worker, NEW row \in Row, SwapAndReturn(w, row)
  PROVE  RowsTyped'
  <1>1. Target(w) \in Attempt
    BY DEF RowsTyped, Target, WorkerType
  <1> QED
    BY <1>1, StaleType, IdleType DEF RowsTyped, SwapAndReturn

LEMMA GotoType ==
  ASSUME RowsTyped, NEW w \in Worker, NEW next \in Phase, Goto(w, next)
  PROVE  RowsTyped'
  BY DEF RowsTyped, Goto, WorkerType

LEMMA ReturnType ==
  ASSUME RowsTyped, NEW w \in Worker, Return(w)
  PROVE  RowsTyped'
  BY IdleType DEF RowsTyped, Return

LEMMA RaiseType ==
  ASSUME RowsTyped, NEW w \in Worker, NEW handler \in Phase, NEW code \in ErrorCode,
         Raise(w, handler, code)
  PROVE  RowsTyped'
  <1>1. Target(w) \in Attempt
    BY DEF RowsTyped, Target, WorkerType
  <1>2. [Idle EXCEPT !.phase = handler, !.attempt = Target(w), !.code = code]
           \in WorkerType
    BY <1>1, IdleType DEF WorkerType
  <1> QED
    BY <1>2 DEF RowsTyped, Raise

LEMMA RetryableType ==
  ASSUME RowsTyped, NEW w \in Worker, Retryable(w)
  PROVE  RowsTyped'
  BY RaiseType DEF Retryable, Phase, ErrorCode

LEMMA UnsafeType ==
  ASSUME RowsTyped, NEW w \in Worker, NEW code \in ErrorCode, Unsafe(w, code)
  PROVE  RowsTyped'
  BY RaiseType DEF Unsafe, Phase

LEMMA LostType ==
  ASSUME RowsTyped, NEW w \in Worker, Lost(w)
  PROVE  RowsTyped'
  BY RetryableType DEF Lost

LEMMA OwnerWritesType ==
  ASSUME RowsTyped, NEW a \in Attempt, NEW row \in Row, OwnerWrites(a, row)
  PROVE  RowsTyped'
  BY StaleType DEF RowsTyped, OwnerWrites

LEMMA CurrentType ==
  ASSUME RowsTyped, NEW w \in Worker
  PROVE  Target(w) \in Attempt /\ Current(w) \in Row
  BY DEF RowsTyped, Target, Current, WorkerType

-----------------------------------------------------------------------------
(* Typing of one step, action by action. *)

\* Everything but the journal and the workers.
WorldTyped ==
    /\ disk \in [Attempt -> DiskState]
    /\ client \in [Attempt -> ClientState]
    /\ barrier \in [Bundle -> BarrierState]
    /\ down \subseteq {"client", "mount"}

LEMMA TypeSplit == TypeOK <=> RowsTyped /\ WorldTyped
  BY DEF TypeOK, RowsTyped, WorldTyped

LEMMA InspectedType ==
  ASSUME RowsTyped, WorldTyped, NEW w \in Worker,
         NEW next \in {"evidence", "recheck_absent", "defer"}, Inspected(w, next)
  PROVE  RowsTyped'
  <1> DEFINE m == ("mount" \notin down)
             f == Further(Target(w))
  <1>1. Target(w) \in Attempt
    BY CurrentType
  <1>2. PICK found \in Found(Target(w)) :
           worker' = [worker EXCEPT
               ![w].phase = next, ![w].seen = Seen(Target(w)),
               ![w].found = found, ![w].further = f, ![w].mounted = m]
    BY DEF Inspected
  <1>3. /\ found \in BOOLEAN /\ Seen(Target(w)) \in ClientState
        /\ m \in BOOLEAN /\ f \in BOOLEAN
    BY <1>1, <1>2 DEF Found, Further, Occupied, Seen, WorldTyped, ClientState
  <1> HIDE DEF m, f
  <1> DEFINE v == [worker[w] EXCEPT !.phase = next, !.seen = Seen(Target(w)),
                                     !.found = found, !.further = f, !.mounted = m]
  <1>4. worker' = [worker EXCEPT ![w] = v] /\ UNCHANGED journal
    BY <1>2 DEF Inspected
  <1>5. v \in WorkerType
    <2>1. worker[w] \in WorkerType /\ next \in Phase
      BY DEF RowsTyped, Phase
    <2>2. \A s \in ClientState :
             [worker[w] EXCEPT !.phase = next, !.seen = s, !.found = found,
                                !.further = f, !.mounted = m] \in WorkerType
      BY ONLY <1>3, <2>1 DEF WorkerType
    <2> QED
      BY <1>3, <2>2
  <1> HIDE DEF v
  <1> QED
    BY <1>4, <1>5 DEF RowsTyped

LEMMA WorkRowsTyped ==
  ASSUME RowsTyped, WorldTyped, NEW w \in Worker, Work(w)
  PROVE  RowsTyped'
  <1> DEFINE row == Current(w)
  <1>1. row \in Row /\ Target(w) \in Attempt
    BY CurrentType
  <1>2. CASE CheckPublisherBarriers(w)
    <2>1. CASE Goto(w, "source")
      BY <2>1, GotoType DEF Phase
    <2>2. CASE Unsafe(w, "publisher")
      BY <2>2, UnsafeType DEF ErrorCode
    <2>3. CASE SwapAndReturn(w, Waiting(Current(w)))
      BY <2>3, <1>1, RowUpdatesType, SwapAndReturnType
    <2>4. CASE Lost(w)
      BY <2>4, LostType
    <2> QED
      BY <1>2, <2>1, <2>2, <2>3, <2>4 DEF CheckPublisherBarriers
  <1>3. CASE InspectSource(w)
    <2>1. CASE Goto(w, "discard")
      BY <2>1, GotoType DEF Phase
    <2>2. CASE Retryable(w)
      BY <2>2, RetryableType
    <2>3. CASE Inspected(w, "evidence")
      BY <2>3, InspectedType
    <2> QED
      BY <1>3, <2>1, <2>2, <2>3 DEF InspectSource
  <1>4. CASE RecordEvidence(w)
    <2>1. CASE Unsafe(w, "other")
      BY <2>1, UnsafeType DEF ErrorCode
    <2>2. CASE Lost(w) \/ Retryable(w)
      BY <2>2, LostType, RetryableType
    <2> DEFINE found == worker[w].found
               known == worker[w].seen # "unseen"
               next == IF worker[w].seen = "active" THEN "abort" ELSE "remove"
    <2>3. CASE Swap(w, Evidenced(Current(w), found, known), next)
      <3>1. found \in BOOLEAN /\ known \in BOOLEAN /\ next \in Phase
        BY DEF RowsTyped, WorkerType, Phase
      <3> HIDE DEF found, known, next
      <3>2. Evidenced(Current(w), found, known) \in Row
        BY <3>1, <1>1, RowUpdatesType
      <3> QED
        BY <2>3, <3>1, <3>2, SwapType
    <2> QED
      BY <1>4, <2>1, <2>2, <2>3 DEF RecordEvidence
  <1>5. CASE AbortActive(w)
    <2>1. CASE Retryable(w)
      BY <2>1, RetryableType
    <2>2. CASE Goto(w, IF Target(w) \in Usenet THEN "finish" ELSE "remove")
      BY <2>2, GotoType DEF Phase
    <2> QED
      BY <1>5, <2>1, <2>2 DEF AbortActive
  <1>6. ASSUME NEW next \in Phase, RemoveSafely(w, next)
        PROVE  RowsTyped'
    BY <1>6, RetryableType, UnsafeType, GotoType DEF RemoveSafely, ErrorCode
  <1>7. CASE CleanupUsenetWorkspace(w)
    <2>1. ASSUME NEW next \in {"discard", "finish"}, Goto(w, next)
          PROVE  RowsTyped'
      BY <2>1, GotoType DEF Phase
    <2>2. CASE Retryable(w)
      BY <2>2, RetryableType
    <2>3. CASE Unsafe(w, "other")
      BY <2>3, UnsafeType DEF ErrorCode
    <2>4. CASE SettleMissingJob(w)
      BY <2>1, <2>2, <2>3, <2>4 DEF SettleMissingJob
    <2>5. CASE RemoveSafely(w, "record_removal")
      BY <1>6, <2>5 DEF Phase
    <2> QED
      BY <1>7, <2>1, <2>2, <2>3, <2>4, <2>5 DEF CleanupUsenetWorkspace
  <1>8. CASE CleanupSlskdFiles(w)
    <2>1. CASE Goto(w, "discard")
      BY <2>1, GotoType DEF Phase
    <2>2. CASE Retryable(w)
      BY <2>2, RetryableType
    <2>3. CASE RemoveSafely(w, "discard")
      BY <1>6, <2>3 DEF Phase
    <2> QED
      BY <1>8, <2>1, <2>2, <2>3 DEF CleanupSlskdFiles
  <1>9. CASE RecordRemoval(w)
    <2>1. CASE Swap(w, WorkspaceRemoved(Current(w)), "discard")
      BY <2>1, <1>1, RowUpdatesType, SwapType DEF Phase
    <2>2. CASE Lost(w)
      BY <2>2, LostType
    <2> QED
      BY <1>9, <2>1, <2>2 DEF RecordRemoval
  <1>10. CASE DiscardClientArtifacts(w)
    <2>1. CASE Goto(w, "finish")
      BY <2>1, GotoType DEF Phase
    <2>2. CASE Retryable(w)
      BY <2>2, RetryableType
    <2> QED
      BY <1>10, <2>1, <2>2 DEF DiscardClientArtifacts
  <1>11. ASSUME NEW new \in {Completed(row), Reopened(row), Deferred(row),
                             FailureRecorded(row)},
                SwapAndReturn(w, new)
         PROVE  RowsTyped'
    BY <1>11, <1>1, RowUpdatesType, SwapAndReturnType
  <1>12. CASE MarkComplete(w) \/ Reopen(w) \/ DeferAttention(w)
    BY <1>11, <1>12, LostType DEF MarkComplete, Reopen, DeferAttention
  <1>13. CASE \/ RecheckAttention(w) \/ RecheckSource(w) \/ RecheckAbsent(w)
              \/ RecheckDiscard(w)
    <2>1. ASSUME NEW next \in {"defer", "recheck_source", "recheck_discard", "reopen",
                               "finish"},
                 Goto(w, next)
          PROVE  RowsTyped'
      BY <2>1, GotoType DEF Phase
    <2>2. ASSUME NEW next \in {"defer", "recheck_absent"}, Inspected(w, next)
          PROVE  RowsTyped'
      BY <2>2, InspectedType
    <2> QED
      BY <1>13, <2>1, <2>2
         DEF RecheckAttention, RecheckSource, RecheckAbsent, RecheckDiscard, NotAbsent
  <1>14. ASSUME NEW from, NEW to \in {"retry", "unsafe"}, Reread(w, from, to)
         PROVE  RowsTyped'
    <2> DEFINE v == [worker[w] EXCEPT !.phase = to, !.fresh = TRUE,
                                       !.row = Snapshot(Current(w))]
    <2>1. v \in WorkerType
      BY <1>1, SnapshotIsTyped DEF RowsTyped, WorkerType, Phase
    <2>2. worker' = [worker EXCEPT ![w] = v] /\ UNCHANGED journal
      BY <1>14 DEF Reread
    <2> HIDE DEF v
    <2> QED
      BY <2>1, <2>2 DEF RowsTyped
  <1>15. CASE RecordFailure(w)
    BY <1>11, <1>15, ReturnType DEF RecordFailure
  <1>16. CASE RecordUnsafe(w)
    <2>1. worker[w].code \in ErrorCode
      BY DEF RowsTyped, WorkerType
    <2>2. CASE SwapAndReturn(w, Quarantined(Current(w), worker[w].code))
      BY <2>1, <2>2, <1>1, RowUpdatesType, SwapAndReturnType
    <2> QED
      BY <1>16, <2>2, ReturnType DEF RecordUnsafe
  <1> QED
    BY <1>2, <1>3, <1>4, <1>5, <1>7, <1>8, <1>9, <1>10, <1>12, <1>13, <1>14,
       <1>15, <1>16 DEF Work

LEMMA RestRowsTyped ==
  ASSUME RowsTyped, WorldTyped,
         \/ Owner \/ Surroundings
         \/ \E w \in Worker, a \in Attempt : Claim(w, a)
  PROVE  RowsTyped'
  <1>1. ASSUME NEW w \in Worker, NEW a \in Attempt, Claim(w, a)
        PROVE  RowsTyped'
    <2> DEFINE row == Claimed(journal[a], w)
               v == [Idle EXCEPT
                       !.phase = IF row.state = "needs_attention"
                                 THEN "recheck" ELSE "barriers",
                       !.attempt = a, !.row = Snapshot(row), !.fresh = TRUE]
    <2>1. row \in Row
      BY RowUpdatesType DEF RowsTyped
    <2>2. /\ journal' = [journal EXCEPT ![a] = row]
          /\ worker' = [Stale({a}) EXCEPT ![w] = v]
      BY <1>1 DEF Claim
    <2> HIDE DEF row
    <2>3. v \in WorkerType
      BY <2>1, IdleType, SnapshotIsTyped DEF WorkerType, Phase
    <2> HIDE DEF v
    <2> QED
      BY <2>1, <2>2, <2>3, StaleType DEF RowsTyped
  <1>2. ASSUME NEW a \in Attempt, CreateAttempt(a) \/ StoreHandle(a)
                                  \/ AcquireForReimport(a)
        PROVE  RowsTyped'
    <2>1. journal[a] \in Row
      BY DEF RowsTyped
    <2> QED
      BY <1>2, <2>1, RowUpdatesType, OwnerWritesType
         DEF CreateAttempt, StoreHandle, AcquireForReimport
  <1>3. ASSUME NEW a \in Attempt, NEW d \in {"discard", "preserve"},
               NEW B \in SUBSET Bundle, Schedule(a, d, B)
        PROVE  RowsTyped'
    <2>1. journal[a] \in Row
      BY DEF RowsTyped
    <2>2. Scheduled(journal[a], d, B) \in Row
      BY <2>1, RowUpdatesType
    <2> QED
      BY <1>3, <2>2, OwnerWritesType DEF Schedule
  <1>4. ASSUME NEW d \in {"discard", "preserve"}, NEW B \in SUBSET Bundle,
               CancelTask(d, B)
        PROVE  RowsTyped'
    <2>1. \A a \in Attempt : Scheduled(journal[a], d, B) \in Row
      BY RowUpdatesType DEF RowsTyped
    <2>2. journal' \in [Attempt -> Row]
      BY <1>4, <2>1 DEF CancelTask, RowsTyped
    <2> QED
      BY <1>4, <2>2, StaleType DEF CancelTask, RowsTyped
  <1>5. Known \subseteq Bundle
    BY DEF Known
  <1>6. CASE Owner
    BY <1>2, <1>3, <1>4, <1>5, <1>6 DEF Owner
  <1>7. ASSUME NEW a \in Attempt, FallDue(a) \/ LeaseLapses(a)
        PROVE  RowsTyped'
    <2>1. \A row \in Row : /\ [row EXCEPT !.due = TRUE] \in Row
                           /\ [row EXCEPT !.lease = "lapsed"] \in Row
      BY DEF Row
    <2>2. UNCHANGED worker
      BY <1>7 DEF FallDue, LeaseLapses
    <2>3. journal' \in [Attempt -> Row]
      <3>1. CASE journal' = [journal EXCEPT ![a].due = TRUE]
        BY <2>1, <3>1 DEF RowsTyped
      <3>2. CASE journal' = [journal EXCEPT ![a].lease = "lapsed"]
        BY <2>1, <3>2 DEF RowsTyped
      <3> QED
        BY <1>7, <3>1, <3>2 DEF FallDue, LeaseLapses
    <2> QED
      BY <2>2, <2>3 DEF RowsTyped
  <1>8. CASE Crash
    BY <1>8, IdleType DEF Crash, RowsTyped
  <1>9. ASSUME UNCHANGED <<journal, worker>>
        PROVE  RowsTyped'
    BY <1>9 DEF RowsTyped
  <1>10. CASE Surroundings
    BY <1>7, <1>8, <1>9, <1>10
       DEF Surroundings, Publisher, BarrierStep, Download, ClientStep, Meddle, Outage
  <1> QED
    BY <1>1, <1>6, <1>10

LEMMA WorldStaysTyped ==
  ASSUME RowsTyped, WorldTyped, Next
  PROVE  WorldTyped'
  <1> USE DEF WorldTyped
  <1>1. \A w \in Worker : Target(w) \in Attempt
    BY DEF RowsTyped, Target, WorkerType
  <1>2. CASE UNCHANGED <<disk, client, barrier, down>>
    BY <1>2
  <1>3. ASSUME NEW w \in Worker, Work(w)
        PROVE  WorldTyped'
    <2>1. \/ UNCHANGED <<disk, client, barrier, down>>
          \/ /\ disk' = Unlinked(Target(w)) \/ disk' = RecordedLot(w)
             /\ UNCHANGED <<client, barrier, down>>
          \/ /\ client' = [client EXCEPT ![Target(w)] = "forgotten"]
             /\ UNCHANGED <<disk, barrier, down>>
          \/ client' = Discarded(Target(w)) /\ UNCHANGED <<disk, barrier, down>>
      BY <1>3 DEF Work, CheckPublisherBarriers, InspectSource, RecordEvidence,
         AbortActive, CleanupUsenetWorkspace, SettleMissingJob, RemoveSafely,
         CleanupSlskdFiles, RecordRemoval, DiscardClientArtifacts, MarkComplete,
         RecheckAttention, RecheckSource, RecheckAbsent, RecheckDiscard, Inspected,
         Reopen, DeferAttention, Reread,
         RecordFailure, RecordUnsafe
    <2> QED
      BY <1>1, <2>1
         DEF Unlinked, RecordedLot, Exceeded, Discarded, DiskState, ClientState
  <1>4. CASE \E w \in Worker, a \in Attempt : Claim(w, a)
    BY <1>2, <1>4 DEF Claim
  <1>5. CASE Owner
    BY <1>2, <1>5 DEF Owner, CreateAttempt, StoreHandle, Schedule, CancelTask,
       AcquireForReimport, OwnerWrites
  <1>6. ASSUME NEW b \in Bundle, Publisher(b)
        PROVE  WorldTyped'
    BY <1>6 DEF Publisher, BarrierStep, BarrierState
  <1>7. ASSUME NEW a \in Attempt, Download(a) \/ Meddle(a)
        PROVE  WorldTyped'
    BY <1>7 DEF Download, FileFinishes, ClientStep, Meddle, DiskState, ClientState
  <1>8. ASSUME NEW x \in {"client", "mount"}, Outage(x)
        PROVE  WorldTyped'
    BY <1>8 DEF Outage
  <1>9. CASE Surroundings
    BY <1>2, <1>6, <1>7, <1>8, <1>9 DEF Surroundings, FallDue, LeaseLapses, Crash
  <1> QED
    BY <1>3, <1>4, <1>5, <1>9 DEF Next

LEMMA InitTyped == Init => TypeOK
  <1> SUFFICES ASSUME Init PROVE TypeOK
    OBVIOUS
  <1>1. 0 \in 0 .. UnresolvedJobRetries
    BY RetriesAssumption
  <1>2. Absent \in Row
    BY <1>1 DEF Absent, Row, AttemptState, ErrorCode
  <1> QED
    BY <1>2, IdleType DEF Init, TypeOK, DiskState, ClientState, BarrierState

LEMMA StepTyped == TypeOK /\ [Next]_vars => TypeOK'
  <1> SUFFICES ASSUME TypeOK, [Next]_vars PROVE TypeOK'
    OBVIOUS
  <1>1. RowsTyped /\ WorldTyped
    BY TypeSplit
  <1>2. CASE Next
    BY <1>1, <1>2, WorkRowsTyped, RestRowsTyped, WorldStaysTyped
       DEF Next, TypeOK, RowsTyped, WorldTyped
  <1>3. CASE UNCHANGED vars
    BY <1>3 DEF TypeOK, vars
  <1> QED
    BY <1>2, <1>3

\* Every reachable state is well typed: no interleaving of workers, owner and
\* surroundings takes a row, a worker's copy of it or the mount out of the
\* states the code distinguishes (download_store, acquisition_cleanup_service).
THEOREM Typing == Spec => []TypeOK
  <1> QED
    BY InitTyped, StepTyped, PTL DEF Spec

-----------------------------------------------------------------------------
(* The lease protects the row.  What a step may do to one worker, by how it   *)
(* changes the worker and the row it works on.                                *)

Undisturbed(w) ==
    /\ journal'[worker[w].attempt].owner = journal[worker[w].attempt].owner
    /\ Snapshot(journal'[worker[w].attempt]) = Snapshot(journal[worker[w].attempt])

StandsBy(w) == worker'[w] = worker[w] /\ Undisturbed(w)

Proceeds(w) ==
    /\ Undisturbed(w)
    /\ worker[w].phase \in HandsOn
    /\ worker'[w].phase \in HandsOn
    /\ worker'[w].attempt = worker[w].attempt
    /\ worker'[w].row = worker[w].row
    /\ worker'[w].fresh = worker[w].fresh

\* Somebody else wrote w's row, and w no longer owns it.
IsOvertaken(w) ==
    /\ worker'[w] = [worker[w] EXCEPT !.fresh = FALSE]
    /\ worker[w].phase \in HandsOn => journal'[worker[w].attempt].owner # w

\* w wrote the row, and goes on with what it wrote.
GoesOn(w) ==
    /\ worker'[w].phase \in HandsOn
    /\ worker'[w].row = Snapshot(journal'[worker'[w].attempt])
    /\ worker'[w].row.state \in CleanupStates
    /\ journal'[worker'[w].attempt].owner = w

Unwinds(w) == worker'[w].phase \in Handling /\ ~worker'[w].fresh

Rereads(w) ==
    /\ worker'[w].phase \in Handling
    /\ worker'[w].row = Snapshot(journal'[worker'[w].attempt])

Finishes(w) == worker'[w].phase = "idle"

LEMMA LeaseByWorker ==
  ASSUME LeaseInv, TypeOK',
         \A w \in Worker : \/ StandsBy(w) \/ Proceeds(w) \/ IsOvertaken(w)
                           \/ GoesOn(w) \/ Unwinds(w) \/ Rereads(w) \/ Finishes(w)
  PROVE  LeaseInv'
  <1> SUFFICES ASSUME NEW w \in Worker
               PROVE  /\ worker'[w].phase \in HandsOn
                         => worker'[w].row.state \in CleanupStates
                      /\ worker'[w].phase # "idle" /\ worker'[w].fresh
                         => worker'[w].row = Snapshot(journal'[worker'[w].attempt])
                      /\ worker'[w].phase \in HandsOn /\ worker'[w].fresh
                         => journal'[worker'[w].attempt].owner = w
                      /\ /\ worker'[w].phase \in HandsOn
                         /\ journal'[worker'[w].attempt].owner = w
                         => Snapshot(journal'[worker'[w].attempt]) = worker'[w].row
    BY DEF LeaseInv, WorksOnDebt, FreshIsCurrent, FreshOwns, LeaseProtectsRow,
           Target, Busy, Snapshot
  <1>1. HandsOn \intersect Handling = {} /\ "idle" \notin HandsOn
    BY DEF HandsOn
  <1>2. CASE StandsBy(w) \/ Proceeds(w)
    BY <1>1, <1>2 DEF LeaseInv, WorksOnDebt, FreshIsCurrent, FreshOwns,
       LeaseProtectsRow, Target, Busy, StandsBy, Proceeds, Undisturbed
  <1>3. CASE IsOvertaken(w)
    <2>1. worker[w] \in WorkerType
      BY DEF LeaseInv, TypeOK
    <2>2. /\ worker'[w].phase = worker[w].phase
          /\ worker'[w].attempt = worker[w].attempt
          /\ worker'[w].row = worker[w].row
          /\ worker'[w].fresh = FALSE
      BY <1>3, <2>1 DEF IsOvertaken, WorkerType
    <2> QED
      BY <1>3, <2>2 DEF IsOvertaken, LeaseInv, WorksOnDebt
  <1>4. CASE GoesOn(w)
    BY <1>4 DEF GoesOn
  <1>5. CASE Unwinds(w) \/ Rereads(w) \/ Finishes(w)
    BY <1>1, <1>5 DEF Unwinds, Rereads, Finishes
  <1> QED
    BY <1>2, <1>3, <1>4, <1>5

\* Whoever stands at a row that another one writes.
LEMMA OthersOvertaken ==
  ASSUME LeaseInv, NEW rows \in SUBSET Attempt, NEW x \in Worker,
         worker'[x] = Stale(rows)[x],
         \A a \in Attempt \ rows : journal'[a] = journal[a],
         worker[x].phase \in HandsOn /\ worker[x].attempt \in rows
             => journal'[worker[x].attempt].owner # x
  PROVE  IsOvertaken(x) \/ StandsBy(x)
  <1>1. worker[x] \in WorkerType
    BY DEF LeaseInv, TypeOK
  <1>2. CASE worker[x].attempt \in rows
    BY <1>2 DEF Stale, IsOvertaken
  <1>3. CASE worker[x].attempt \notin rows
    BY <1>1, <1>3 DEF Stale, StandsBy, Undisturbed, WorkerType
  <1> QED
    BY <1>2, <1>3

LEMMA SwapKeepsLease ==
  ASSUME LeaseInv, TypeOK', NEW w \in Worker, NEW row \in Row, NEW next \in HandsOn,
         worker[w].phase \in HandsOn, Swap(w, row, next),
         row.owner = Current(w).owner, row.state \in CleanupStates
  PROVE  LeaseInv'
  <1>1. /\ Target(w) \in Attempt /\ Target(w) = worker[w].attempt
        /\ worker \in [Worker -> WorkerType] /\ journal \in [Attempt -> Row]
    BY DEF LeaseInv, TypeOK, Target, WorkerType
  <1>2. row.owner = w
    BY DEF LeaseInv, FreshOwns, Swap, Current
  <1>3. journal'[Target(w)] = row
    BY <1>1 DEF Swap
  <1>4. \A a \in Attempt \ {Target(w)} : journal'[a] = journal[a]
    BY <1>1 DEF Swap
  <1>5. worker'[w] = [worker[w] EXCEPT !.phase = next, !.row = Snapshot(row)]
    BY <1>1 DEF Swap, Stale
  <1>6. GoesOn(w)
    BY <1>1, <1>2, <1>3, <1>5 DEF GoesOn, WorkerType, Snapshot
  <1>7. ASSUME NEW x \in Worker, x # w
        PROVE  IsOvertaken(x) \/ StandsBy(x)
    <2>1. worker'[x] = Stale({Target(w)})[x]
      BY <1>1, <1>7 DEF Swap, Stale
    <2> QED
      BY <1>1, <1>2, <1>3, <1>4, <1>7, <2>1, OthersOvertaken
  <1> QED
    BY <1>6, <1>7, LeaseByWorker

LEMMA SwapAndReturnKeepsLease ==
  ASSUME LeaseInv, TypeOK', NEW w \in Worker, NEW row \in Row,
         SwapAndReturn(w, row), row.owner = NoOwner
  PROVE  LeaseInv'
  <1>1. /\ Target(w) \in Attempt
        /\ worker \in [Worker -> WorkerType] /\ journal \in [Attempt -> Row]
    BY DEF LeaseInv, TypeOK, Target, WorkerType
  <1>2. journal'[Target(w)] = row
    BY <1>1 DEF SwapAndReturn
  <1>3. \A a \in Attempt \ {Target(w)} : journal'[a] = journal[a]
    BY <1>1 DEF SwapAndReturn
  <1>4. Finishes(w)
    BY <1>1 DEF SwapAndReturn, Stale, Finishes, Idle
  <1>5. ASSUME NEW x \in Worker, x # w
        PROVE  IsOvertaken(x) \/ StandsBy(x)
    <2>1. worker'[x] = Stale({Target(w)})[x]
      BY <1>1, <1>5 DEF SwapAndReturn, Stale
    <2> QED
      BY <1>1, <1>2, <1>3, <2>1, OthersOvertaken, NoOwnerAssumption
  <1> QED
    BY <1>4, <1>5, LeaseByWorker

\* Steps that write no row.
LEMMA GotoKeepsLease ==
  ASSUME LeaseInv, TypeOK', NEW w \in Worker, NEW next \in HandsOn,
         worker[w].phase \in HandsOn, Goto(w, next)
  PROVE  LeaseInv'
  <1>1. worker \in [Worker -> WorkerType]
    BY DEF LeaseInv, TypeOK
  <1>2. \A x \in Worker : Undisturbed(x)
    BY DEF Goto, Undisturbed, Snapshot
  <1>3. Proceeds(w)
    BY <1>1, <1>2 DEF Proceeds, Goto, WorkerType
  <1>4. \A x \in Worker \ {w} : StandsBy(x)
    BY <1>1, <1>2 DEF StandsBy, Goto
  <1> QED
    BY <1>3, <1>4, LeaseByWorker

LEMMA UnwindKeepsLease ==
  ASSUME LeaseInv, TypeOK', NEW w \in Worker,
         \/ Retryable(w) \/ Lost(w) \/ Return(w)
         \/ \E code \in ErrorCode : Unsafe(w, code)
  PROVE  LeaseInv'
  <1>1. worker \in [Worker -> WorkerType]
    BY DEF LeaseInv, TypeOK
  <1>2. \A x \in Worker : Undisturbed(x)
    BY DEF Retryable, Lost, Return, Unsafe, Raise, Undisturbed, Snapshot
  <1>3. ASSUME NEW handler \in Handling, NEW code, Raise(w, handler, code)
        PROVE  Unwinds(w)
    <2>1. worker'[w] = [Idle EXCEPT !.phase = handler, !.attempt = Target(w),
                                    !.code = code]
      BY <1>1, <1>3 DEF Raise
    <2> QED
      BY <2>1 DEF Unwinds, Idle
  <1>4. CASE Return(w)
    BY <1>1, <1>4, LeaseByWorker, <1>2 DEF Finishes, Return, Idle, StandsBy
  <1>5. \A x \in Worker \ {w} : StandsBy(x)
    BY <1>1, <1>2 DEF StandsBy, Retryable, Lost, Return, Unsafe, Raise
  <1> QED
    BY <1>3, <1>4, <1>5, LeaseByWorker DEF Retryable, Lost, Unsafe, Handling

\* The rows a worker writes, as far as the lease is concerned.
LEMMA WorkRows ==
  ASSUME LeaseInv, NEW w \in Worker
  PROVE  /\ Current(w) \in Row /\ Target(w) \in Attempt
         /\ \A row \in Row :
               /\ Waiting(row).owner = NoOwner
               /\ Completed(row).owner = NoOwner
               /\ Reopened(row).owner = NoOwner
               /\ Deferred(row).owner = NoOwner
               /\ FailureRecorded(row).owner = NoOwner
               /\ \A c \in ErrorCode : Quarantined(row, c).owner = NoOwner
               /\ WorkspaceRemoved(row).owner = row.owner
               /\ WorkspaceRemoved(row).state = "workspace_removed"
               /\ \A l, i \in BOOLEAN : /\ Evidenced(row, l, i).owner = row.owner
                                        /\ Evidenced(row, l, i).state = row.state
  <1>1. RowsTyped
    BY DEF LeaseInv, TypeOK, RowsTyped
  <1>2. Current(w) \in Row /\ Target(w) \in Attempt
    BY <1>1, CurrentType
  <1>3. ASSUME NEW row \in Row
        PROVE  /\ Waiting(row).owner = NoOwner
               /\ Completed(row).owner = NoOwner
               /\ Reopened(row).owner = NoOwner
               /\ Deferred(row).owner = NoOwner
               /\ FailureRecorded(row).owner = NoOwner
    BY DEF Row, Waiting, Completed, Reopened, Deferred, FailureRecorded, Released
  <1>4. ASSUME NEW row \in Row, NEW c \in ErrorCode
        PROVE  Quarantined(row, c).owner = NoOwner
    BY DEF Row, Quarantined, Released
  <1>5. ASSUME NEW row \in Row
        PROVE  /\ WorkspaceRemoved(row).owner = row.owner
               /\ WorkspaceRemoved(row).state = "workspace_removed"
    BY DEF Row, WorkspaceRemoved
  <1>6. ASSUME NEW row \in Row, NEW l \in BOOLEAN, NEW i \in BOOLEAN
        PROVE  /\ Evidenced(row, l, i).owner = row.owner
               /\ Evidenced(row, l, i).state = row.state
    BY DEF Row, Evidenced
  <1> QED
    BY <1>2, <1>3, <1>4, <1>5, <1>6

LEMMA InspectedKeepsLease ==
  ASSUME LeaseInv, TypeOK', NEW w \in Worker,
         NEW next \in {"evidence", "recheck_absent", "defer"}, Inspected(w, next),
         worker[w].phase \in {"source", "recheck_source"}
  PROVE  LeaseInv'
  <1> DEFINE m == ("mount" \notin down)
             f == Further(Target(w))
  <1>1. worker \in [Worker -> WorkerType]
    BY DEF LeaseInv, TypeOK
  <1>2. PICK found : worker' = [worker EXCEPT
                         ![w].phase = next, ![w].seen = Seen(Target(w)),
                         ![w].found = found, ![w].further = f, ![w].mounted = m]
    BY DEF Inspected
  <1> HIDE DEF m, f
  <1>3. \A x \in Worker : Undisturbed(x)
    BY DEF Inspected, Undisturbed, Snapshot
  <1> DEFINE v == [worker[w] EXCEPT !.phase = next, !.seen = Seen(Target(w)),
                                     !.found = found, !.further = f, !.mounted = m]
  <1>4. worker' = [worker EXCEPT ![w] = v]
    BY <1>2
  <1>5. /\ v.phase = next /\ v.attempt = worker[w].attempt
        /\ v.row = worker[w].row /\ v.fresh = worker[w].fresh
    BY <1>1 DEF WorkerType
  <1> HIDE DEF v
  <1>6. Proceeds(w)
    BY <1>1, <1>3, <1>4, <1>5 DEF Proceeds, HandsOn, Phase, Handling
  <1>7. \A x \in Worker \ {w} : StandsBy(x)
    BY <1>1, <1>3, <1>4 DEF StandsBy
  <1> QED
    BY <1>6, <1>7, LeaseByWorker

LEMMA WorkKeepsLease ==
  ASSUME LeaseInv, TypeOK', NEW w \in Worker, Work(w)
  PROVE  LeaseInv'
  <1> DEFINE row == Current(w)
  <1>1. row \in Row /\ Target(w) \in Attempt
    BY WorkRows
  <1>2. RowsTyped
    BY DEF LeaseInv, TypeOK, RowsTyped
  <1>3. ASSUME NEW next \in {"source", "discard", "finish", "remove",
                             "record_removal", "defer", "recheck_source",
                             "recheck_discard", "reopen"},
               worker[w].phase \in {"barriers", "source", "abort", "remove", "discard",
                                    "recheck", "recheck_source", "recheck_absent",
                                    "recheck_discard"},
               Goto(w, next)
        PROVE  LeaseInv'
    <2>1. next \in HandsOn /\ worker[w].phase \in HandsOn
      BY <1>3 DEF HandsOn, Phase, Handling
    <2> QED
      BY <1>3, <2>1, GotoKeepsLease
  <1>4. CASE CheckPublisherBarriers(w)
    <2>1. CASE Unsafe(w, "publisher")
      BY <2>1, UnwindKeepsLease DEF ErrorCode
    <2>2. CASE SwapAndReturn(w, Waiting(Current(w)))
      BY <2>2, <1>1, RowUpdatesType, WorkRows, SwapAndReturnKeepsLease
    <2> QED
      BY <1>3, <1>4, <2>1, <2>2, UnwindKeepsLease DEF CheckPublisherBarriers, At
  <1>5. CASE InspectSource(w)
    <2>1. CASE Inspected(w, "evidence")
      BY <1>5, <2>1, InspectedKeepsLease DEF InspectSource, At
    <2>2. CASE Retryable(w)
      BY <2>2, UnwindKeepsLease
    <2>3. CASE Goto(w, "discard")
      BY <1>3, <1>5, <2>3 DEF InspectSource, At
    <2> QED
      BY <1>5, <2>1, <2>2, <2>3 DEF InspectSource
  <1>6. CASE RecordEvidence(w)
    <2> DEFINE found == worker[w].found
               known == worker[w].seen # "unseen"
               next == IF worker[w].seen = "active" THEN "abort" ELSE "remove"
    <2>1. CASE Swap(w, Evidenced(Current(w), found, known), next)
      <3>1. found \in BOOLEAN /\ known \in BOOLEAN /\ next \in HandsOn
        BY <1>2 DEF RowsTyped, WorkerType, HandsOn, Handling, Phase
      <3> HIDE DEF found, known, next
      <3>2. Evidenced(row, found, known) \in Row
        BY <3>1, <1>1, RowUpdatesType
      <3>3. worker[w].phase \in HandsOn
        BY <1>6 DEF RecordEvidence, At, HandsOn, Handling, Phase
      <3>4. Snapshot(row) = worker[w].row
        BY <3>3, <2>1 DEF LeaseInv, FreshIsCurrent, Swap, Busy, HandsOn, Current
      <3>5. row.state \in CleanupStates
        BY <3>3, <3>4 DEF LeaseInv, WorksOnDebt, Snapshot
      <3>6. /\ Evidenced(row, found, known).owner = row.owner
            /\ Evidenced(row, found, known).state = row.state
        BY <1>1, <3>1, WorkRows
      <3> QED
        BY <2>1, <3>1, <3>2, <3>3, <3>5, <3>6, SwapKeepsLease
    <2> QED
      BY <1>6, <2>1, UnwindKeepsLease DEF RecordEvidence, ErrorCode
  <1>7. CASE AbortActive(w)
    BY <1>3, <1>7, UnwindKeepsLease DEF AbortActive, At
  <1>8. CASE CleanupUsenetWorkspace(w)
    <2>1. CASE SettleMissingJob(w)
      BY <1>3, <1>8, <2>1, UnwindKeepsLease
         DEF CleanupUsenetWorkspace, SettleMissingJob, At, ErrorCode
    <2>2. CASE RemoveSafely(w, "record_removal")
      BY <1>3, <1>8, <2>2, UnwindKeepsLease
         DEF CleanupUsenetWorkspace, RemoveSafely, At, ErrorCode
    <2> QED
      BY <1>3, <1>8, <2>1, <2>2, UnwindKeepsLease
         DEF CleanupUsenetWorkspace, At, ErrorCode
  <1>9. CASE CleanupSlskdFiles(w)
    BY <1>3, <1>9, UnwindKeepsLease DEF CleanupSlskdFiles, RemoveSafely, At, ErrorCode
  <1>10. CASE RecordRemoval(w)
    <2>1. CASE Swap(w, WorkspaceRemoved(Current(w)), "discard")
      <3>1. worker[w].phase \in HandsOn /\ "discard" \in HandsOn
        BY <1>10 DEF RecordRemoval, At, HandsOn, Handling, Phase
      <3> QED
        BY <2>1, <3>1, <1>1, WorkRows, RowUpdatesType, SwapKeepsLease
           DEF CleanupStates
    <2> QED
      BY <1>10, <2>1, UnwindKeepsLease DEF RecordRemoval
  <1>11. CASE DiscardClientArtifacts(w)
    BY <1>3, <1>11, UnwindKeepsLease DEF DiscardClientArtifacts, At
  <1>12. ASSUME NEW new \in {Completed(row), Reopened(row), Deferred(row),
                             FailureRecorded(row)},
                SwapAndReturn(w, new)
         PROVE  LeaseInv'
    BY <1>12, <1>1, RowUpdatesType, WorkRows, SwapAndReturnKeepsLease
  <1>13. CASE MarkComplete(w) \/ Reopen(w) \/ DeferAttention(w)
    BY <1>12, <1>13, UnwindKeepsLease DEF MarkComplete, Reopen, DeferAttention
  <1>14. CASE RecheckAttention(w) \/ RecheckAbsent(w) \/ RecheckDiscard(w)
    BY <1>3, <1>14 DEF RecheckAttention, RecheckAbsent, RecheckDiscard, NotAbsent, At
  <1>18. CASE RecheckSource(w)
    <2>1. ASSUME NEW next \in {"defer", "recheck_absent"}, Inspected(w, next)
          PROVE  LeaseInv'
      BY <1>18, <2>1, InspectedKeepsLease DEF RecheckSource, At
    <2> QED
      BY <1>3, <1>18, <2>1 DEF RecheckSource, At
  <1>15. ASSUME NEW from, NEW to \in {"retry", "unsafe"}, Reread(w, from, to)
         PROVE  LeaseInv'
    <2>1. worker \in [Worker -> WorkerType]
      BY DEF LeaseInv, TypeOK
    <2>2. \A x \in Worker : Undisturbed(x)
      BY <1>15 DEF Reread, Undisturbed, Snapshot
    <2>3. worker'[w] = [worker[w] EXCEPT !.phase = to, !.fresh = TRUE,
                                         !.row = Snapshot(Current(w))]
      BY <1>15, <2>1 DEF Reread
    <2>4. /\ worker'[w].phase = to
          /\ worker'[w].attempt = Target(w)
          /\ worker'[w].row = Snapshot(Current(w))
      BY <2>1, <2>3 DEF WorkerType, Target
    <2>5. Rereads(w)
      BY <1>15, <2>4 DEF Rereads, Handling, Current, Reread, Snapshot
    <2>6. \A x \in Worker \ {w} : StandsBy(x)
      BY <1>15, <2>1, <2>2 DEF StandsBy, Reread
    <2> QED
      BY <2>5, <2>6, LeaseByWorker
  <1>16. CASE RecordFailure(w)
    BY <1>12, <1>16, UnwindKeepsLease DEF RecordFailure
  <1>17. CASE RecordUnsafe(w)
    <2>1. worker[w].code \in ErrorCode
      BY <1>2 DEF RowsTyped, WorkerType
    <2>2. CASE SwapAndReturn(w, Quarantined(Current(w), worker[w].code))
      BY <2>1, <2>2, <1>1, RowUpdatesType, WorkRows, SwapAndReturnKeepsLease
    <2> QED
      BY <1>17, <2>2, UnwindKeepsLease DEF RecordUnsafe
  <1> QED
    BY <1>4, <1>5, <1>6, <1>7, <1>8, <1>9, <1>10, <1>11, <1>13, <1>14, <1>15,
       <1>16, <1>17, <1>18 DEF Work

LEMMA ClaimKeepsLease ==
  ASSUME LeaseInv, TypeOK', NEW w \in Worker, NEW a \in Attempt, Claim(w, a)
  PROVE  LeaseInv'
  <1> DEFINE row == Claimed(journal[a], w)
             v == [Idle EXCEPT
                     !.phase = IF row.state = "needs_attention"
                               THEN "recheck" ELSE "barriers",
                     !.attempt = a, !.row = Snapshot(row), !.fresh = TRUE]
  <1>1. worker \in [Worker -> WorkerType] /\ journal \in [Attempt -> Row]
    BY DEF LeaseInv, TypeOK
  <1>2. row.owner = w /\ row.state \in CleanupStates
    BY <1>1 DEF Claim, Claimable, Claimed, Row
  <1>3. journal' = [journal EXCEPT ![a] = row]
        /\ worker' = [Stale({a}) EXCEPT ![w] = v]
    BY DEF Claim
  <1> HIDE DEF row
  <1>4. v.phase \in HandsOn /\ v.attempt = a /\ v.row = Snapshot(row)
    BY DEF Idle, HandsOn, Handling, Phase
  <1> HIDE DEF v
  <1>5. worker'[w] = v /\ journal'[a] = row
    BY <1>1, <1>3 DEF Stale
  <1>6. \A b \in Attempt \ {a} : journal'[b] = journal[b]
    BY <1>1, <1>3
  <1>7. GoesOn(w)
    BY <1>2, <1>4, <1>5 DEF GoesOn, Snapshot
  <1>8. ASSUME NEW x \in Worker, x # w
        PROVE  IsOvertaken(x) \/ StandsBy(x)
    <2>1. worker'[x] = Stale({a})[x]
      BY <1>1, <1>3, <1>8 DEF Stale
    <2> QED
      BY <1>2, <1>5, <1>6, <1>8, <2>1, OthersOvertaken
  <1> QED
    BY <1>7, <1>8, LeaseByWorker

\* An owner of the download writes some rows, and holds none of their leases.
LEMMA OwnerKeepsLease ==
  ASSUME LeaseInv, TypeOK', Owner
  PROVE  LeaseInv'
  <1>1. worker \in [Worker -> WorkerType] /\ journal \in [Attempt -> Row]
    BY DEF LeaseInv, TypeOK
  <1>2. ASSUME NEW rows \in SUBSET Attempt, worker' = Stale(rows),
               \A a \in Attempt \ rows : journal'[a] = journal[a],
               \A a \in rows : \/ journal'[a].owner = NoOwner
                               \/ /\ journal'[a].owner = journal[a].owner
                                  /\ journal[a].state \notin CleanupStates
        PROVE  LeaseInv'
    <2> SUFFICES ASSUME NEW x \in Worker
                 PROVE  IsOvertaken(x) \/ StandsBy(x)
      BY LeaseByWorker
    <2>1. ASSUME worker[x].phase \in HandsOn, worker[x].attempt \in rows,
                 journal'[worker[x].attempt].owner = x
          PROVE  FALSE
      <3> DEFINE a == worker[x].attempt
      <3>1. journal[a].owner = x /\ journal[a].state \notin CleanupStates
        BY <1>2, <2>1, NoOwnerAssumption
      <3>2. Snapshot(journal[a]) = worker[x].row
        BY <2>1, <3>1 DEF LeaseInv, LeaseProtectsRow, Target
      <3>3. worker[x].row.state \in CleanupStates
        BY <2>1 DEF LeaseInv, WorksOnDebt
      <3>4. journal[a].state \in CleanupStates
        BY <3>2, <3>3 DEF Snapshot
      <3> QED
        BY <3>1, <3>4
    <2> QED
      BY <1>2, <2>1, OthersOvertaken
  <1>3. ASSUME NEW a \in Attempt, NEW row \in Row, OwnerWrites(a, row),
               \/ row.owner = NoOwner
               \/ row.owner = journal[a].owner /\ journal[a].state \notin CleanupStates
        PROVE  LeaseInv'
    <2>1. worker' = Stale({a}) /\ journal'[a] = row
      BY <1>1, <1>3 DEF OwnerWrites
    <2>2. \A b \in Attempt \ {a} : journal'[b] = journal[b]
      BY <1>1, <1>3 DEF OwnerWrites
    <2> QED
      BY <1>2, <1>3, <2>1, <2>2
  <1>4. ASSUME NEW a \in Attempt, CreateAttempt(a)
        PROVE  LeaseInv'
    <2>1. Created \in Row
      BY <1>1, RowUpdatesType
    <2>2. Created.owner = NoOwner
      BY DEF Created, Absent
    <2> QED
      BY <1>3, <1>4, <2>1, <2>2 DEF CreateAttempt
  <1>5. ASSUME NEW a \in Attempt, StoreHandle(a)
        PROVE  LeaseInv'
    <2>1. HandleUpdated(journal[a]) \in Row
      BY <1>1, RowUpdatesType
    <2>2. HandleUpdated(journal[a]).owner = journal[a].owner
      BY <1>1 DEF HandleUpdated, Row
    <2>3. journal[a].state \notin CleanupStates
      BY <1>5 DEF StoreHandle, HandleUpdatable, CleanupStates
    <2> QED
      BY <1>3, <1>5, <2>1, <2>2, <2>3 DEF StoreHandle
  <1>6. ASSUME NEW a \in Attempt, AcquireForReimport(a)
        PROVE  LeaseInv'
    <2>1. Reacquired(journal[a]) \in Row
      BY <1>1, RowUpdatesType
    <2>2. Reacquired(journal[a]).owner = NoOwner
      BY <1>1 DEF Reacquired, Released, Row
    <2> QED
      BY <1>3, <1>6, <2>1, <2>2 DEF AcquireForReimport
  <1>7. ASSUME NEW row \in Row, NEW d \in {"discard", "preserve"},
               NEW B \in SUBSET Bundle
        PROVE  Scheduled(row, d, B) \in Row /\ Scheduled(row, d, B).owner = NoOwner
    <2>1. Scheduled(row, d, B) \in Row
      BY RowUpdatesType
    <2>2. Scheduled(row, d, B).owner = NoOwner
      BY DEF Scheduled, Released, Row
    <2> QED
      BY <2>1, <2>2
  <1>8. ASSUME NEW a \in Attempt, NEW d \in {"discard", "preserve"},
               NEW B \in SUBSET Bundle, Schedule(a, d, B)
        PROVE  LeaseInv'
    BY <1>1, <1>3, <1>7, <1>8 DEF Schedule
  <1>9. ASSUME NEW d \in {"discard", "preserve"}, NEW B \in SUBSET Bundle,
               CancelTask(d, B)
        PROVE  LeaseInv'
    <2>1. \A a \in Attempt \ Open : journal'[a] = journal[a]
      BY <1>1, <1>9 DEF CancelTask
    <2>2. \A a \in Open : journal'[a].owner = NoOwner
      BY <1>1, <1>7, <1>9 DEF CancelTask, Open
    <2> QED
      BY <1>2, <1>9, <2>1, <2>2 DEF CancelTask, Open
  <1>10. Known \subseteq Bundle
    BY DEF Known
  <1> QED
    BY <1>4, <1>5, <1>6, <1>8, <1>9, <1>10 DEF Owner

LEMMA SurroundingsKeepLease ==
  ASSUME LeaseInv, TypeOK', Surroundings
  PROVE  LeaseInv'
  <1>1. worker \in [Worker -> WorkerType] /\ journal \in [Attempt -> Row]
    BY DEF LeaseInv, TypeOK
  <1>2. CASE Crash
    BY <1>1, <1>2, LeaseByWorker DEF Crash, Finishes, Idle
  <1>3. ASSUME UNCHANGED worker,
               \A a \in Attempt : /\ journal'[a].owner = journal[a].owner
                                  /\ Snapshot(journal'[a]) = Snapshot(journal[a])
        PROVE  LeaseInv'
    <2>1. \A w \in Worker : StandsBy(w)
      BY <1>1, <1>3 DEF StandsBy, Undisturbed, WorkerType
    <2> QED
      BY <2>1, LeaseByWorker
  <1>4. ASSUME NEW a \in Attempt, FallDue(a) \/ LeaseLapses(a)
        PROVE  LeaseInv'
    <2>1. UNCHANGED worker
      BY <1>4 DEF FallDue, LeaseLapses
    <2>2. ASSUME NEW b \in Attempt
          PROVE  /\ journal'[b].owner = journal[b].owner
                 /\ Snapshot(journal'[b]) = Snapshot(journal[b])
      BY <1>1, <1>4 DEF FallDue, LeaseLapses, Row, Snapshot
    <2> QED
      BY <1>3, <2>1, <2>2
  <1>5. ASSUME UNCHANGED <<worker, journal>>
        PROVE  LeaseInv'
    BY <1>3, <1>5 DEF Snapshot
  <1> QED
    BY <1>2, <1>4, <1>5
       DEF Surroundings, Publisher, BarrierStep, Download, ClientStep, Meddle, Outage

LEMMA InitLease == Init => LeaseInv
  <1> SUFFICES ASSUME Init PROVE LeaseInv
    OBVIOUS
  <1>1. \A w \in Worker : worker[w].phase = "idle"
    BY DEF Init, Idle
  <1> QED
    BY <1>1, InitTyped DEF LeaseInv, WorksOnDebt, FreshIsCurrent, FreshOwns,
       LeaseProtectsRow, HandsOn, Busy

LEMMA StepKeepsLease == LeaseInv /\ [Next]_vars => LeaseInv'
  <1> SUFFICES ASSUME LeaseInv, [Next]_vars PROVE LeaseInv'
    OBVIOUS
  <1>1. TypeOK'
    BY StepTyped DEF LeaseInv
  <1>2. CASE Next
    BY <1>1, <1>2, WorkKeepsLease, ClaimKeepsLease, OwnerKeepsLease,
       SurroundingsKeepLease DEF Next
  <1>3. CASE UNCHANGED vars
    BY <1>1, <1>3 DEF vars, LeaseInv, WorksOnDebt, FreshIsCurrent, FreshOwns,
       LeaseProtectsRow, Busy, Target, Snapshot
  <1> QED
    BY <1>2, <1>3

\* However many workers there are and however leases lapse, a worker that still
\* owns the row it works on holds a true copy of it: schedule, finalize, cancel
\* and re-import (download_store) never change a row and leave its lease.
THEOREM LeaseSafety == Spec => []LeaseProtectsRow
  <1>1. LeaseInv => LeaseProtectsRow
    BY DEF LeaseInv
  <1> QED
    BY <1>1, InitLease, StepKeepsLease, PTL DEF Spec

-----------------------------------------------------------------------------
(* The world: what bundles, clients and files can never go back on.           *)

WorldGrows ==
    /\ \A b \in Bundle : barrier[b] \in Settled => barrier'[b] \in Settled
    /\ \A a \in Attempt :
          /\ client[a] # "unseen" => client'[a] # "unseen"
          /\ client[a] \notin {"unseen", "active"}
                => client'[a] \notin {"unseen", "active"}
          /\ client[a] \in {"completed", "forgotten"}
                => client'[a] \in {"completed", "forgotten"}
          /\ client[a] \in {"failed", "forgotten"}
                => client'[a] \in {"failed", "forgotten"}
          /\ disk[a] # "empty" => disk'[a] # "empty"
          /\ disk'[a] \in Occupied
                => disk[a] \in Occupied \/ (client[a] = "active" /\ disk[a] = "empty")
          /\ disk'[a] # "empty" /\ disk[a] = "empty"
                => /\ client[a] = "active"
                   /\ client'[a] # "unseen"
                   /\ a \in Usenet => client'[a] = "completed"
          /\ client'[a] = "failed" => client[a] \in {"active", "failed"}
          /\ client'[a] = "completed" => client[a] = "completed" \/ disk'[a] # "empty"

LEMMA StepGrowsWorld ==
  ASSUME TypeOK, [Next]_vars
  PROVE  WorldGrows
  <1> USE DEF WorldGrows, Settled, Occupied, Exceeded
  <1>1. /\ barrier \in [Bundle -> BarrierState]
        /\ client \in [Attempt -> ClientState] /\ disk \in [Attempt -> DiskState]
        /\ \A w \in Worker : Target(w) \in Attempt
    BY DEF TypeOK, Target, WorkerType
  <1>2. ASSUME UNCHANGED <<disk, client, barrier>>
        PROVE  WorldGrows
    BY <1>2
  <1>3. ASSUME NEW w \in Worker, Work(w)
        PROVE  WorldGrows
    <2>1. CASE disk' = Unlinked(Target(w)) /\ UNCHANGED <<client, barrier>>
      BY <1>1, <2>1 DEF Unlinked, DiskState
    <2>5. CASE disk' = RecordedLot(w) /\ UNCHANGED <<client, barrier>>
      BY <1>1, <2>5 DEF RecordedLot, DiskState
    <2>2. CASE client' = [client EXCEPT ![Target(w)] = "forgotten"]
               /\ UNCHANGED <<disk, barrier>>
      BY <1>1, <2>2 DEF ClientState
    <2>3. CASE client' = Discarded(Target(w)) /\ UNCHANGED <<disk, barrier>>
      BY <1>1, <2>3 DEF Discarded, ClientState
    <2>4. \/ UNCHANGED <<disk, client, barrier>>
          \/ disk' = Unlinked(Target(w)) /\ UNCHANGED <<client, barrier>>
          \/ disk' = RecordedLot(w) /\ UNCHANGED <<client, barrier>>
          \/ client' = [client EXCEPT ![Target(w)] = "forgotten"]
             /\ UNCHANGED <<disk, barrier>>
          \/ client' = Discarded(Target(w)) /\ UNCHANGED <<disk, barrier>>
      BY <1>3 DEF Work, CheckPublisherBarriers, InspectSource, RecordEvidence,
         AbortActive, CleanupUsenetWorkspace, SettleMissingJob, RemoveSafely,
         CleanupSlskdFiles, RecordRemoval, DiscardClientArtifacts, MarkComplete,
         RecheckAttention, RecheckSource, RecheckAbsent, RecheckDiscard, Inspected,
         Reopen, DeferAttention, Reread,
         RecordFailure, RecordUnsafe
    <2> QED
      BY <1>2, <2>1, <2>2, <2>3, <2>4, <2>5
  <1>4. CASE \E w \in Worker, a \in Attempt : Claim(w, a)
    BY <1>2, <1>4 DEF Claim
  <1>5. CASE Owner
    BY <1>2, <1>5 DEF Owner, CreateAttempt, StoreHandle, Schedule, CancelTask,
       AcquireForReimport, OwnerWrites
  <1>6. ASSUME NEW b \in Bundle, Publisher(b)
        PROVE  WorldGrows
    BY <1>1, <1>6 DEF Publisher, BarrierStep, BarrierState
  <1>7. ASSUME NEW a \in Attempt, Download(a)
        PROVE  WorldGrows
    <2>1. ASSUME FileFinishes(a)
          PROVE  /\ a \notin Usenet
                 /\ \E d \in DiskState :
                       /\ disk' = [disk EXCEPT ![a] = d] /\ d # "empty"
                       /\ d \in Occupied => disk[a] \in Occupied \/ disk[a] = "empty"
      BY <1>1, <2>1 DEF FileFinishes, DiskState
    <2> QED
      BY <1>1, <1>7, <2>1 DEF Download, ClientStep, ClientState, DiskState
  <1>8. ASSUME NEW a \in Attempt, Meddle(a)
        PROVE  WorldGrows
    BY <1>1, <1>8 DEF Meddle, DiskState
  <1>9. CASE Surroundings
    BY <1>2, <1>6, <1>7, <1>8, <1>9
       DEF Surroundings, FallDue, LeaseLapses, Outage, Crash
  <1> QED
    BY <1>2, <1>3, <1>4, <1>5, <1>9 DEF Next, vars

\* Per attempt and per worker, the parts of IndInv beyond LeaseInv.
WorldInv(a) ==
    /\ disk[a] # "empty" => client[a] # "unseen"
    /\ client[a] = "completed" => disk[a] # "empty"
    /\ a \in Usenet /\ disk[a] # "empty" => client[a] # "active"
    /\ a \in Usenet /\ client[a] = "failed" => disk[a] = "empty"

RowInv(a) ==
    /\ journal[a].state = "workspace_removed" => GoneForGood(a)
    /\ journal[a].located => disk[a] # "empty"

SeenInv(w) ==
    /\ worker[w].seen = "completed" => client[Target(w)] \in {"completed", "forgotten"}
    /\ worker[w].seen = "failed" =>
          /\ client[Target(w)] \in {"failed", "forgotten"}
          /\ Target(w) \in Usenet => disk[Target(w)] = "empty"
    /\ worker[w].found => disk[Target(w)] # "empty"

CopyInv(w) ==
    worker[w].phase \in HandsOn =>
        /\ worker[w].row.state = "workspace_removed" => GoneForGood(Target(w))
        /\ worker[w].row.located => disk[Target(w)] # "empty"

PhaseInv(w) ==
    /\ worker[w].phase \in Cleared => AllSettled(worker[w].row.bundles)
    /\ worker[w].phase = "record_removal" => GoneForGood(Target(w))
    /\ Target(w) \in Usenet =>
          /\ worker[w].phase = "evidence" /\ worker[w].seen = "active"
                => ~worker[w].row.located /\ ~worker[w].found
          /\ worker[w].phase = "abort" => ~worker[w].row.located
    /\ /\ "mount" \notin Mishaps
       /\ worker[w].phase \in {"discard", "finish", "recheck_discard"}
       /\ worker[w].row.located
       => disk[Target(w)] \notin Occupied

WorkerInv(w) == SeenInv(w) /\ CopyInv(w) /\ PhaseInv(w)

MountInv == "mount" \notin Mishaps => "mount" \notin down

IndParts ==
    /\ LeaseInv
    /\ \A a \in Attempt : WorldInv(a) /\ RowInv(a)
    /\ \A w \in Worker : WorkerInv(w)
    /\ MountInv

LEMMA IndInvSplit == IndInv <=> IndParts
  <1>1. ASSUME IndInv, NEW a \in Attempt
        PROVE  WorldInv(a) /\ RowInv(a)
    BY <1>1, AttemptAssumption DEF IndInv, RemovalInv, SourceInv, BytesMeanSeen,
       LocatedMeansBytes, WorldInv, RowInv
  <1>2. ASSUME IndInv, NEW w \in Worker
        PROVE  WorkerInv(w)
    <2>1. SeenInv(w)
      BY <1>2 DEF IndInv, RemovalInv, SourceInv, BytesMeanSeen, LocatedMeansBytes,
         SeenInv
    <2>2. CopyInv(w)
      BY <1>2 DEF IndInv, RemovalInv, SourceInv, LocatedMeansBytes, CopyInv
    <2>3. PhaseInv(w)
      BY <1>2 DEF IndInv, ClearedBySettledBundles, RemovalInv, SourceInv,
         LocatedMeansBytes, NothingLeft, PhaseInv
    <2> QED
      BY <2>1, <2>2, <2>3 DEF WorkerInv
  <1>3. IndInv => MountInv /\ LeaseInv
    BY DEF IndInv, SourceInv, MountInv
  <1>4. ASSUME LeaseInv, MountInv,
               \A a \in Attempt : WorldInv(a) /\ RowInv(a),
               \A w \in Worker : WorkerInv(w)
        PROVE  IndInv
    <2> USE <1>4 DEF WorkerInv
    <2>1. ClearedBySettledBundles
      BY DEF ClearedBySettledBundles, PhaseInv
    <2>2. RemovalInv
      BY DEF RemovalInv, RowInv, SeenInv, CopyInv, PhaseInv
    <2>3. BytesMeanSeen
      BY AttemptAssumption DEF BytesMeanSeen, WorldInv, SeenInv
    <2>4. LocatedMeansBytes
      BY DEF LocatedMeansBytes, RowInv, SeenInv, CopyInv, PhaseInv
    <2>5. "mount" \notin Mishaps => "mount" \notin down /\ NothingLeft
      BY DEF NothingLeft, PhaseInv, MountInv
    <2> QED
      BY <2>1, <2>2, <2>3, <2>4, <2>5 DEF IndInv, SourceInv
  <1> QED
    BY <1>1, <1>2, <1>3, <1>4 DEF IndParts

\* Whatever holds of an attempt or of a worker at rest survives any step.
LEMMA WorldInvStable ==
  ASSUME WorldGrows, NEW a \in Attempt, WorldInv(a), TypeOK
  PROVE  WorldInv(a)'
  BY DEF WorldGrows, WorldInv, Occupied

LEMMA GoneStable ==
  ASSUME WorldGrows, NEW a \in Attempt, GoneForGood(a)
  PROVE  GoneForGood(a)'
  BY DEF WorldGrows, GoneForGood, Occupied

LEMMA EmptiedStable ==
  ASSUME WorldGrows, NEW a \in Attempt,
         disk[a] # "empty", disk[a] \notin Occupied
  PROVE  disk'[a] \notin Occupied
  BY DEF WorldGrows, Occupied

SameTarget(w) == worker'[w].attempt = worker[w].attempt

\* What the client said stays true, for a worker still at the same row.
LEMMA SeenStable ==
  ASSUME WorldGrows, TypeOK, NEW w \in Worker, SeenInv(w), SameTarget(w),
         worker'[w].seen = worker[w].seen, worker'[w].found = worker[w].found
  PROVE  SeenInv(w)'
  <1>1. Target(w) \in Attempt /\ Target(w)' = Target(w)
    BY DEF TypeOK, Target, WorkerType, SameTarget
  <1> DEFINE a == Target(w)
  <1> HIDE DEF a
  <1>2. worker[w].seen = "completed" => client'[a] \in {"completed", "forgotten"}
    BY <1>1 DEF SeenInv, WorldGrows, a
  <1>3. worker[w].seen = "failed" => client'[a] \in {"failed", "forgotten"}
    BY <1>1 DEF SeenInv, WorldGrows, a
  <1>4. worker[w].seen = "failed" /\ a \in Usenet => disk'[a] = "empty"
    BY <1>1 DEF SeenInv, WorldGrows, a
  <1>5. worker[w].found => disk'[a] # "empty"
    BY <1>1 DEF SeenInv, WorldGrows, a
  <1> QED
    BY <1>1, <1>2, <1>3, <1>4, <1>5 DEF SeenInv, a, Target

LEMMA CopyStable ==
  ASSUME WorldGrows, TypeOK, NEW w \in Worker, CopyInv(w), SameTarget(w),
         worker'[w].phase \in HandsOn => worker[w].phase \in HandsOn,
         worker'[w].row = worker[w].row
  PROVE  CopyInv(w)'
  <1>1. Target(w) \in Attempt /\ Target(w)' = Target(w)
    BY DEF TypeOK, Target, WorkerType, SameTarget
  <1> SUFFICES ASSUME worker'[w].phase \in HandsOn
               PROVE  /\ worker[w].row.state = "workspace_removed"
                            => GoneForGood(Target(w))'
                      /\ worker[w].row.located => disk'[Target(w)] # "empty"
    BY <1>1 DEF CopyInv
  <1>2. worker[w].row.state = "workspace_removed" => GoneForGood(Target(w))'
    <2>1. GoneForGood(Target(w)) => GoneForGood(Target(w))'
      BY <1>1, GoneStable DEF GoneForGood
    <2> QED
      BY <2>1 DEF CopyInv
  <1>3. worker[w].row.located => disk'[Target(w)] # "empty"
    BY <1>1 DEF CopyInv, WorldGrows
  <1> QED
    BY <1>2, <1>3

LEMMA PhaseStable ==
  ASSUME WorldGrows, TypeOK, NEW w \in Worker, PhaseInv(w), CopyInv(w), SameTarget(w),
         \A a \in Attempt : WorldInv(a),
         worker'[w].phase = worker[w].phase, worker'[w].row = worker[w].row,
         worker'[w].seen = worker[w].seen, worker'[w].found = worker[w].found
  PROVE  PhaseInv(w)'
  <1>1. Target(w) \in Attempt /\ Target(w)' = Target(w)
    BY DEF TypeOK, Target, WorkerType, SameTarget
  <1>2. worker[w].row.bundles \subseteq Bundle
    BY DEF TypeOK, WorkerType, SnapshotType
  <1>3. AllSettled(worker[w].row.bundles) => AllSettled(worker[w].row.bundles)'
    BY <1>2 DEF AllSettled, WorldGrows
  <1>4. worker[w].phase \in Cleared => AllSettled(worker[w].row.bundles)'
    BY <1>3 DEF PhaseInv
  <1>5. worker[w].phase = "record_removal" => GoneForGood(Target(w))'
    <2>1. GoneForGood(Target(w)) => GoneForGood(Target(w))'
      BY <1>1, GoneStable DEF GoneForGood
    <2> QED
      BY <2>1 DEF PhaseInv
  <1>6. /\ "mount" \notin Mishaps
        /\ worker[w].phase \in {"discard", "finish", "recheck_discard"}
        /\ worker[w].row.located
        => disk'[Target(w)] \notin Occupied
    BY <1>1, EmptiedStable DEF PhaseInv, CopyInv, HandsOn, Handling, Phase
  <1> QED
    BY <1>1, <1>4, <1>5, <1>6 DEF PhaseInv, AllSettled

LEMMA WorkerStable ==
  ASSUME WorldGrows, TypeOK, \A a \in Attempt : WorldInv(a),
         NEW w \in Worker, WorkerInv(w), SameTarget(w),
         worker'[w].phase = worker[w].phase, worker'[w].row = worker[w].row,
         worker'[w].seen = worker[w].seen, worker'[w].found = worker[w].found
  PROVE  WorkerInv(w)'
  BY SeenStable, CopyStable, PhaseStable DEF WorkerInv

\* A worker that is idle, or unwinding with nothing but the attempt's id.
LEMMA WorkerLetGo ==
  ASSUME NEW w \in Worker, worker'[w].phase \notin HandsOn,
         worker'[w].seen = "unseen", worker'[w].found = FALSE
  PROVE  WorkerInv(w)'
  BY DEF WorkerInv, SeenInv, CopyInv, PhaseInv, Cleared, HandsOn, Handling, Phase

-----------------------------------------------------------------------------
(* The worker that takes the step.                                            *)

LEMMA UnwindInv ==
  ASSUME TypeOK, NEW w \in Worker,
         \/ Retryable(w) \/ Lost(w) \/ Return(w)
         \/ \E code \in ErrorCode : Unsafe(w, code)
         \/ \E row \in Row : SwapAndReturn(w, row)
  PROVE  WorkerInv(w)'
  <1>1. worker \in [Worker -> WorkerType]
    BY DEF TypeOK
  <1>2. ASSUME NEW handler \in Handling, NEW code, Raise(w, handler, code)
        PROVE  WorkerInv(w)'
    <2>1. worker'[w] = [Idle EXCEPT !.phase = handler, !.attempt = Target(w),
                                    !.code = code]
      BY <1>1, <1>2 DEF Raise
    <2>2. /\ worker'[w].phase = handler
          /\ worker'[w].seen = "unseen" /\ worker'[w].found = FALSE
      BY <2>1 DEF Idle
    <2> QED
      BY <1>2, <2>2, WorkerLetGo DEF HandsOn
  <1>3. ASSUME worker'[w] = Idle
        PROVE  WorkerInv(w)'
    <2>1. /\ worker'[w].phase = "idle"
          /\ worker'[w].seen = "unseen" /\ worker'[w].found = FALSE
      BY <1>3 DEF Idle
    <2> QED
      BY <2>1, WorkerLetGo DEF HandsOn
  <1>4. CASE Return(w) \/ \E row \in Row : SwapAndReturn(w, row)
    BY <1>1, <1>3, <1>4 DEF Return, SwapAndReturn, Stale
  <1> QED
    BY <1>2, <1>4 DEF Retryable, Lost, Unsafe, Handling

LEMMA GotoInv ==
  ASSUME WorldGrows, TypeOK, \A a \in Attempt : WorldInv(a),
         NEW w \in Worker, WorkerInv(w),
         NEW next \in HandsOn, next \notin {"evidence", "abort"},
         worker[w].phase \in HandsOn, Goto(w, next),
         next \in Cleared
             => worker[w].phase \in Cleared \/ AllSettled(worker[w].row.bundles),
         next = "record_removal" => GoneForGood(Target(w))',
         /\ "mount" \notin Mishaps
         /\ next \in {"discard", "finish", "recheck_discard"}
         /\ worker[w].row.located
         => disk'[Target(w)] \notin Occupied
  PROVE  WorkerInv(w)'
  <1>1. worker \in [Worker -> WorkerType] /\ worker[w].row.bundles \subseteq Bundle
    BY DEF TypeOK, WorkerType, SnapshotType
  <1>2. /\ worker'[w].phase = next /\ worker'[w].row = worker[w].row
        /\ worker'[w].seen = worker[w].seen /\ worker'[w].found = worker[w].found
        /\ SameTarget(w)
    BY <1>1 DEF Goto, WorkerType, SameTarget
  <1>3. Target(w)' = Target(w)
    BY <1>2 DEF Target, SameTarget
  <1>4. SeenInv(w)' /\ CopyInv(w)'
    BY <1>2, SeenStable, CopyStable DEF WorkerInv
  <1>5. next \in Cleared => AllSettled(worker[w].row.bundles)
    BY DEF WorkerInv, PhaseInv
  <1>6. next \in Cleared => \A b \in worker[w].row.bundles : barrier'[b] \in Settled
    BY <1>1, <1>5 DEF AllSettled, WorldGrows
  <1>7. PhaseInv(w)'
    BY <1>2, <1>3, <1>6 DEF PhaseInv, AllSettled
  <1> QED
    BY <1>4, <1>7 DEF WorkerInv

\* A compare-and-swap that leaves everything but the state, the place and the
\* error of the row alone.
LEMMA SwapInv ==
  ASSUME WorldGrows, IndInv,
         NEW w \in Worker, WorkerInv(w), NEW row \in Row,
         NEW next \in {"abort", "remove", "discard"},
         worker[w].phase \in {"evidence", "record_removal"}, Swap(w, row, next),
         row.bundles = Current(w).bundles,
         row.state = "workspace_removed"
             => worker[w].row.state = "workspace_removed" \/ GoneForGood(Target(w)),
         row.located => worker[w].row.located \/ worker[w].found,
         next = "abort" => worker[w].seen = "active" /\ worker[w].phase = "evidence",
         next = "discard" => disk'[Target(w)] \notin Occupied
  PROVE  WorkerInv(w)'
  <1>1. /\ TypeOK /\ worker \in [Worker -> WorkerType] /\ WorldGrows
        /\ Target(w) \in Attempt /\ worker[w].row.bundles \subseteq Bundle
    BY DEF IndInv, LeaseInv, TypeOK, Target, WorkerType, SnapshotType
  <1>2. worker'[w] = [worker[w] EXCEPT !.phase = next, !.row = Snapshot(row)]
    BY <1>1 DEF Swap, Stale
  <1>3. /\ worker'[w].phase = next /\ worker'[w].row = Snapshot(row)
        /\ worker'[w].seen = worker[w].seen /\ worker'[w].found = worker[w].found
        /\ SameTarget(w)
    BY <1>1, <1>2 DEF WorkerType, SameTarget
  <1>4. Target(w)' = Target(w)
    BY <1>3 DEF Target, SameTarget
  <1>5. /\ worker'[w].row.state = row.state /\ worker'[w].row.located = row.located
        /\ worker'[w].row.bundles = row.bundles
    BY <1>3 DEF Snapshot
  <1>6. worker[w].phase \in HandsOn /\ worker[w].phase \in Cleared
    BY DEF HandsOn, Handling, Phase, Cleared
  <1>7. row.bundles = worker[w].row.bundles
    <2>1. worker[w].row = Snapshot(Current(w))
      BY <1>6 DEF IndInv, LeaseInv, FreshIsCurrent, Busy, Swap, Current, HandsOn
    <2> QED
      BY <2>1 DEF Snapshot
  <1>8. SeenInv(w)'
    BY <1>1, <1>3, SeenStable DEF WorkerInv
  <1>9. CopyInv(w)'
    <2>1. row.state = "workspace_removed" => GoneForGood(Target(w))
      BY <1>6 DEF WorkerInv, CopyInv
    <2>2. row.located => disk[Target(w)] # "empty"
      BY <1>6 DEF WorkerInv, CopyInv, SeenInv
    <2>3. row.state = "workspace_removed" => GoneForGood(Target(w))'
      <3>1. GoneForGood(Target(w)) => GoneForGood(Target(w))'
        BY <1>1, <1>4, GoneStable DEF GoneForGood
      <3> QED
        BY <2>1, <3>1
    <2>4. row.located => disk'[Target(w)] # "empty"
      BY <1>1, <2>2 DEF WorldGrows
    <2> QED
      BY <1>4, <1>5, <2>3, <2>4 DEF CopyInv
  <1>10. PhaseInv(w)'
    <2>1. \A b \in row.bundles : barrier'[b] \in Settled
      BY <1>1, <1>6, <1>7 DEF WorkerInv, PhaseInv, AllSettled, WorldGrows
    <2>2. next = "abort" /\ Target(w) \in Usenet => ~row.located
      BY DEF WorkerInv, PhaseInv
    <2> QED
      BY <1>3, <1>4, <1>5, <2>1, <2>2 DEF PhaseInv, AllSettled
  <1> QED
    BY <1>8, <1>9, <1>10 DEF WorkerInv

\* What the client answers is true of the attempt, whatever comes next.
LEMMA InspectedInv ==
  ASSUME IndInv, NEW w \in Worker, WorkerInv(w),
         \A a \in Attempt : WorldInv(a),
         NEW next \in {"evidence", "recheck_absent", "defer"},
         worker[w].phase \in HandsOn, worker[w].phase \in Cleared,
         Inspected(w, next), UNCHANGED <<disk, client, barrier>>
  PROVE  WorkerInv(w)'
  <1> DEFINE m == ("mount" \notin down)
             f == Further(Target(w))
             a == Target(w)
  <1>1. worker \in [Worker -> WorkerType] /\ a \in Attempt
    BY DEF IndInv, LeaseInv, TypeOK, WorkerType, Target
  <1>2. PICK found \in Found(a) :
           worker'[w] = [worker[w] EXCEPT !.phase = next, !.seen = Seen(a),
                                           !.found = found, !.further = f,
                                           !.mounted = m]
    BY <1>1 DEF Inspected
  <1> HIDE DEF m, f
  <1>3. /\ worker'[w].phase = next /\ worker'[w].attempt = worker[w].attempt
        /\ worker'[w].row = worker[w].row /\ worker'[w].found = found
        /\ worker'[w].seen = Seen(a)
    BY <1>1, <1>2 DEF WorkerType
  <1>4. Target(w)' = a
    BY <1>3 DEF Target
  <1> HIDE DEF a
  <1>5. WorldInv(a) /\ CopyInv(w) /\ PhaseInv(w)
    BY <1>1 DEF WorkerInv
  <1>6. found => disk[a] # "empty"
    BY <1>2, <1>5 DEF Found, WorldInv, Occupied, Exceeded
  <1>7. SeenInv(w)'
    BY <1>3, <1>4, <1>5, <1>6 DEF SeenInv, Seen, WorldInv
  <1>8. CopyInv(w)'
    BY <1>3, <1>4, <1>5 DEF CopyInv, GoneForGood, a
  <1>9. a \in Usenet /\ Seen(a) = "active" => ~worker[w].row.located /\ ~found
    BY <1>1, <1>5, <1>6 DEF Seen, WorldInv, CopyInv, a
  <1>10. PhaseInv(w)'
    BY <1>3, <1>4, <1>5, <1>9 DEF PhaseInv, AllSettled
  <1> QED
    BY <1>7, <1>8, <1>10 DEF WorkerInv

LEMMA ActorInv ==
  ASSUME WorldGrows, IndInv, NEW w \in Worker, Work(w)
  PROVE  WorkerInv(w)'
  <1>1. /\ TypeOK /\ RowsTyped /\ WorkerInv(w) /\ MountInv
        /\ \A a \in Attempt : WorldInv(a) /\ RowInv(a)
    BY IndInvSplit DEF IndParts, LeaseInv, TypeOK, RowsTyped
  <1>2. /\ worker \in [Worker -> WorkerType] /\ disk \in [Attempt -> DiskState]
        /\ client \in [Attempt -> ClientState]
        /\ Target(w) \in Attempt /\ Current(w) \in Row
    BY <1>1, WorkRows DEF TypeOK, IndInv
  <1>3. ASSUME NEW next \in HandsOn, next \notin {"evidence", "abort"},
               worker[w].phase \in HandsOn, Goto(w, next),
               next \in Cleared
                   => worker[w].phase \in Cleared \/ AllSettled(worker[w].row.bundles),
               next = "record_removal" => GoneForGood(Target(w))',
               /\ "mount" \notin Mishaps
               /\ next \in {"discard", "finish", "recheck_discard"}
               /\ worker[w].row.located
               => disk'[Target(w)] \notin Occupied
        PROVE  WorkerInv(w)'
    BY <1>1, <1>3, GotoInv
  <1>4. CASE \/ Retryable(w) \/ Lost(w) \/ Return(w)
             \/ \E code \in ErrorCode : Unsafe(w, code)
             \/ \E row \in Row : SwapAndReturn(w, row)
    BY <1>1, <1>4, UnwindInv
  <1>5. CASE CheckPublisherBarriers(w)
    <2>1. CASE Goto(w, "source") /\ AllSettled(worker[w].row.bundles)
      BY <1>3, <1>5, <2>1 DEF CheckPublisherBarriers, At, HandsOn, Handling, Phase
    <2>2. CASE SwapAndReturn(w, Waiting(Current(w)))
      BY <1>2, <1>4, <2>2, RowUpdatesType
    <2>3. CASE Unsafe(w, "publisher") \/ Lost(w)
      BY <1>4, <2>3 DEF ErrorCode
    <2> QED
      BY <1>5, <2>1, <2>2, <2>3 DEF CheckPublisherBarriers
  <1>6. CASE InspectSource(w)
    <2>1. CASE worker[w].row.state = "workspace_removed" /\ Goto(w, "discard")
      <3>1. worker[w].phase \in HandsOn /\ worker[w].phase \in Cleared
        BY <1>6 DEF InspectSource, At, HandsOn, Handling, Phase, Cleared
      <3>2. disk'[Target(w)] \notin Occupied
        BY <1>1, <1>6, <2>1, <3>1 DEF WorkerInv, CopyInv, GoneForGood, InspectSource
      <3> QED
        BY <1>3, <2>1, <3>1, <3>2 DEF HandsOn, Handling, Phase
    <2>2. CASE Inspected(w, "evidence") /\ UNCHANGED <<disk, client, barrier>>
      BY <1>1, <1>6, <2>2, InspectedInv
         DEF InspectSource, At, HandsOn, Handling, Phase, Cleared
    <2> QED
      BY <1>4, <1>6, <2>1, <2>2 DEF InspectSource
  <1>7. CASE RecordEvidence(w)
    <2> DEFINE found == worker[w].found
               known == worker[w].seen # "unseen"
               next == IF worker[w].seen = "active" THEN "abort" ELSE "remove"
               row == Evidenced(Current(w), found, known)
    <2>1. CASE Swap(w, row, next)
      <3>1. found \in BOOLEAN /\ known \in BOOLEAN
        BY <1>2 DEF WorkerType
      <3>2. row \in Row
        BY <1>2, <3>1, RowUpdatesType
      <3>3. /\ row.state = Current(w).state /\ row.bundles = Current(w).bundles
            /\ row.located = (Current(w).located \/ found)
        BY <1>2 DEF Evidenced, Row
      <3>4. worker[w].row = Snapshot(Current(w))
        BY <1>7, <2>1 DEF IndInv, LeaseInv, FreshIsCurrent, Busy, Swap, Current,
           RecordEvidence, At
      <3>5. /\ worker[w].row.state = Current(w).state
            /\ worker[w].row.located = Current(w).located
        BY <3>4 DEF Snapshot
      <3>6. next \in {"abort", "remove", "discard"} /\ next # "discard"
            /\ (next = "abort" => worker[w].seen = "active")
        OBVIOUS
      <3>7. worker[w].phase = "evidence"
        BY <1>7 DEF RecordEvidence, At
      <3> HIDE DEF row, next, known
      <3>8. row.located => worker[w].row.located \/ worker[w].found
        BY <3>3, <3>5
      <3> QED
        BY <1>1, <2>1, <3>2, <3>3, <3>5, <3>6, <3>7, <3>8, SwapInv
    <2> QED
      BY <1>4, <1>7, <2>1 DEF RecordEvidence, ErrorCode
  <1>8. CASE AbortActive(w)
    <2>1. worker[w].phase \in HandsOn /\ worker[w].phase \in Cleared
      BY <1>8 DEF AbortActive, At, HandsOn, Handling, Phase, Cleared
    <2>2. Target(w) \in Usenet => ~worker[w].row.located
      BY <1>1, <1>8 DEF WorkerInv, PhaseInv, AbortActive, At
    <2>3. ASSUME NEW next \in {"finish", "remove"}, Goto(w, next),
                 next = "finish" => Target(w) \in Usenet
          PROVE  WorkerInv(w)'
      BY <1>3, <2>1, <2>2, <2>3 DEF HandsOn, Handling, Phase
    <2> QED
      BY <1>4, <1>8, <2>3 DEF AbortActive
  <1>9. ASSUME NEW next \in {"record_removal", "discard"}, At(w, "remove"),
               RemoveSafely(w, next), UNCHANGED client,
               next = "record_removal" => worker[w].seen = "completed"
        PROVE  WorkerInv(w)'
    <2>1. CASE disk' = Unlinked(Target(w)) /\ Goto(w, next)
      <3>1. disk'[Target(w)] \notin Occupied
        BY <1>2, <2>1 DEF Unlinked, Occupied, Exceeded
      <3>2. next = "record_removal" => GoneForGood(Target(w))'
        <4>1. Target(w)' = Target(w)
          BY <1>2, <2>1 DEF Goto, Target, WorkerType
        <4> QED
          BY <1>1, <1>9, <3>1, <4>1 DEF GoneForGood, WorkerInv, SeenInv
      <3> QED
        BY <1>3, <1>9, <2>1, <3>1, <3>2 DEF At, HandsOn, Handling, Phase, Cleared
    <2> QED
      BY <1>4, <1>9, <2>1 DEF RemoveSafely, ErrorCode
  <1>10. CASE CleanupUsenetWorkspace(w)
    <2>1. ASSUME NEW next \in {"discard", "finish"}, Goto(w, next), UNCHANGED disk,
                 "mount" \notin Mishaps /\ worker[w].row.located
                     => disk[Target(w)] \notin Occupied
          PROVE  WorkerInv(w)'
      BY <1>3, <1>10, <2>1
         DEF CleanupUsenetWorkspace, At, HandsOn, Handling, Phase, Cleared
    <2>2. CASE worker[w].seen = "failed" /\ Goto(w, "discard") /\ UNCHANGED disk
      <3>1. disk[Target(w)] = "empty"
        BY <1>1, <1>10, <2>2 DEF CleanupUsenetWorkspace, WorkerInv, SeenInv
      <3> QED
        BY <2>1, <2>2, <3>1 DEF Occupied
    <2>3. CASE SettleMissingJob(w) /\ UNCHANGED disk
      <3>1. CASE Retryable(w) \/ Unsafe(w, "other")
        BY <1>4, <3>1 DEF ErrorCode
      <3>2. CASE /\ Goto(w, "finish")
                 /\ worker[w].row.located
                       => ~(disk[Target(w)] \in Occupied /\ "mount" \notin down)
        BY <1>1, <2>1, <2>3, <3>2 DEF MountInv
      <3> QED
        BY <2>3, <3>1, <3>2 DEF SettleMissingJob
    <2>4. CASE RemoveSafely(w, "record_removal") /\ worker[w].seen = "completed"
      BY <1>9, <1>10, <2>4 DEF CleanupUsenetWorkspace
    <2>5. CASE Retryable(w) \/ Unsafe(w, "other")
      BY <1>4, <2>5 DEF ErrorCode
    <2> QED
      BY <1>10, <2>2, <2>3, <2>4, <2>5 DEF CleanupUsenetWorkspace
  <1>11. CASE CleanupSlskdFiles(w)
    <2>1. CASE ~worker[w].row.located /\ Goto(w, "discard")
      BY <1>3, <1>11, <2>1 DEF CleanupSlskdFiles, At, HandsOn, Handling, Phase, Cleared
    <2>2. CASE RemoveSafely(w, "discard")
      BY <1>9, <1>11, <2>2 DEF CleanupSlskdFiles
    <2> QED
      BY <1>4, <1>11, <2>1, <2>2 DEF CleanupSlskdFiles
  <1>12. CASE RecordRemoval(w)
    <2> DEFINE row == WorkspaceRemoved(Current(w))
    <2>1. CASE Swap(w, row, "discard")
      <3>1. row \in Row
        BY <1>2, RowUpdatesType
      <3>2. row.bundles = Current(w).bundles /\ row.located = Current(w).located
        BY <1>2 DEF WorkspaceRemoved, Row
      <3>3. worker[w].row = Snapshot(Current(w))
        BY <1>12, <2>1 DEF IndInv, LeaseInv, FreshIsCurrent, Busy, Swap, Current,
           RecordRemoval, At
      <3>4. worker[w].row.located = Current(w).located
        BY <3>3 DEF Snapshot
      <3>5. worker[w].phase = "record_removal" /\ UNCHANGED <<disk, client, barrier>>
        BY <1>12 DEF RecordRemoval, At
      <3>6. GoneForGood(Target(w)) /\ disk'[Target(w)] \notin Occupied
        BY <1>1, <3>5 DEF WorkerInv, PhaseInv, GoneForGood
      <3> HIDE DEF row
      <3> QED
        BY <1>1, <2>1, <3>1, <3>2, <3>4, <3>5, <3>6, SwapInv
    <2> QED
      BY <1>4, <1>12, <2>1 DEF RecordRemoval
  <1>13. CASE DiscardClientArtifacts(w) \/ RecheckDiscard(w)
    <2>1. /\ worker[w].phase \in {"discard", "recheck_discard"}
          /\ worker[w].phase \in HandsOn /\ worker[w].phase \in Cleared
          /\ UNCHANGED disk
      BY <1>13 DEF DiscardClientArtifacts, RecheckDiscard, At, HandsOn, Handling,
         Phase, Cleared
    <2>2. ASSUME NEW next \in {"finish", "reopen", "defer"}, Goto(w, next)
          PROVE  WorkerInv(w)'
      <3>1. "mount" \notin Mishaps /\ worker[w].row.located
               => disk'[Target(w)] \notin Occupied
        BY <1>1, <2>1 DEF WorkerInv, PhaseInv
      <3> QED
        BY <1>3, <2>1, <2>2, <3>1 DEF HandsOn, Handling, Phase
    <2> QED
      BY <1>4, <1>13, <2>2 DEF DiscardClientArtifacts, RecheckDiscard, NotAbsent
  <1>14. CASE MarkComplete(w) \/ Reopen(w) \/ DeferAttention(w) \/ RecordFailure(w)
    BY <1>2, <1>4, <1>14, RowUpdatesType
       DEF MarkComplete, Reopen, DeferAttention, RecordFailure
  <1>15. CASE RecheckAttention(w)
    BY <1>3, <1>15 DEF RecheckAttention, At, HandsOn, Handling, Phase, Cleared
  <1>18. CASE RecheckSource(w)
    <2>1. worker[w].phase \in HandsOn /\ worker[w].phase \in Cleared
      BY <1>18 DEF RecheckSource, At, HandsOn, Handling, Phase, Cleared
    <2>2. CASE Goto(w, "defer")
      BY <1>3, <2>1, <2>2 DEF HandsOn, Handling, Phase
    <2>3. ASSUME NEW next \in {"defer", "recheck_absent"}, Inspected(w, next)
          PROVE  WorkerInv(w)'
      BY <1>1, <1>18, <2>1, <2>3, InspectedInv DEF RecheckSource
    <2> QED
      BY <1>18, <2>2, <2>3 DEF RecheckSource
  <1>19. CASE RecheckAbsent(w)
    <2>1. /\ worker[w].phase \in HandsOn /\ worker[w].phase \in Cleared
          /\ UNCHANGED disk
      BY <1>19 DEF RecheckAbsent, At, HandsOn, Handling, Phase, Cleared
    <2>2. ASSUME NEW next \in {"reopen", "defer"}, Goto(w, next)
          PROVE  WorkerInv(w)'
      BY <1>3, <2>1, <2>2 DEF HandsOn, Handling, Phase
    <2>3. CASE Goto(w, "recheck_discard") /\ SourceAbsent(w)
      <3>1. worker[w].row.located => disk'[Target(w)] \notin Occupied
        BY <2>1, <2>3 DEF SourceAbsent
      <3> QED
        BY <1>3, <2>1, <2>3, <3>1 DEF HandsOn, Handling, Phase
    <2> QED
      BY <1>19, <2>2, <2>3 DEF RecheckAbsent, NotAbsent
  <1>16. ASSUME NEW from \in Handling, NEW to \in Handling, Reread(w, from, to)
         PROVE  WorkerInv(w)'
    <2>1. /\ worker'[w].phase = to /\ SameTarget(w)
          /\ worker'[w].seen = worker[w].seen /\ worker'[w].found = worker[w].found
      BY <1>2, <1>16 DEF Reread, WorkerType, SameTarget
    <2>2. SeenInv(w)'
      BY <1>1, <2>1, SeenStable DEF WorkerInv
    <2> QED
      BY <1>16, <2>1, <2>2
         DEF WorkerInv, CopyInv, PhaseInv, Handling, HandsOn, Cleared
  <1>17. CASE RecordUnsafe(w)
    <2>1. worker[w].code \in ErrorCode
      BY <1>2 DEF WorkerType
    <2> QED
      BY <1>2, <1>4, <1>17, <2>1, RowUpdatesType DEF RecordUnsafe
  <1> QED
    BY <1>5, <1>6, <1>7, <1>8, <1>10, <1>11, <1>12, <1>13, <1>14, <1>15, <1>16,
       <1>17, <1>18, <1>19 DEF Work, Handling

-----------------------------------------------------------------------------
(* All workers and all rows through one step.                                 *)

\* Nothing of x changes, except that its copy may turn stale.
Rests(x) ==
    /\ SameTarget(x)
    /\ worker'[x].phase = worker[x].phase /\ worker'[x].row = worker[x].row
    /\ worker'[x].seen = worker[x].seen /\ worker'[x].found = worker[x].found

LEMMA StaleRests ==
  ASSUME TypeOK, NEW x \in Worker, NEW rows,
         worker'[x] = Stale(rows)[x] \/ worker'[x] = worker[x]
  PROVE  Rests(x)
  <1>1. worker[x] \in WorkerType
    BY DEF TypeOK
  <1> QED
    BY <1>1 DEF Stale, Rests, SameTarget, WorkerType

LEMMA OthersRest ==
  ASSUME TypeOK, NEW w \in Worker, Work(w), NEW x \in Worker, x # w
  PROVE  Rests(x)
  <1>1. worker \in [Worker -> WorkerType]
    BY DEF TypeOK
  <1>2. ASSUME NEW row, NEW next, Swap(w, row, next)
        PROVE  Rests(x)
    <2>1. worker'[x] = Stale({Target(w)})[x]
      BY <1>1, <1>2 DEF Swap, Stale
    <2> QED
      BY <2>1, StaleRests
  <1>3. ASSUME NEW row, SwapAndReturn(w, row)
        PROVE  Rests(x)
    <2>1. worker'[x] = Stale({Target(w)})[x]
      BY <1>1, <1>3 DEF SwapAndReturn, Stale
    <2> QED
      BY <2>1, StaleRests
  <1>4. ASSUME worker'[x] = worker[x]
        PROVE  Rests(x)
    BY <1>4, StaleRests
  <1>5. CASE \/ Retryable(w) \/ Lost(w) \/ Return(w)
             \/ \E code : Unsafe(w, code)
             \/ \E next : Goto(w, next)
    BY <1>1, <1>4, <1>5 DEF Retryable, Lost, Return, Unsafe, Raise, Goto
  <1>6. CASE InspectSource(w) \/ RecheckSource(w)
    BY <1>1, <1>4, <1>5, <1>6 DEF InspectSource, RecheckSource, Inspected
  <1>7. CASE \/ \E from, to : Reread(w, from, to)
    BY <1>1, <1>4, <1>7 DEF Reread
  <1>8. CASE CheckPublisherBarriers(w) \/ RecordEvidence(w) \/ AbortActive(w)
    BY <1>2, <1>3, <1>5, <1>8 DEF CheckPublisherBarriers, RecordEvidence, AbortActive
  <1>9. CASE CleanupUsenetWorkspace(w) \/ CleanupSlskdFiles(w)
    BY <1>5, <1>9
       DEF CleanupUsenetWorkspace, SettleMissingJob, CleanupSlskdFiles, RemoveSafely
  <1>10. CASE RecordRemoval(w) \/ DiscardClientArtifacts(w) \/ MarkComplete(w)
    BY <1>2, <1>3, <1>5, <1>10 DEF RecordRemoval, DiscardClientArtifacts, MarkComplete
  <1>11. CASE \/ RecheckAttention(w) \/ RecheckAbsent(w) \/ RecheckDiscard(w)
              \/ Reopen(w) \/ DeferAttention(w)
    BY <1>3, <1>5, <1>11 DEF RecheckAttention, RecheckAbsent, RecheckDiscard, Reopen,
       DeferAttention
  <1>12. CASE RecordFailure(w) \/ RecordUnsafe(w)
    BY <1>3, <1>5, <1>12 DEF RecordFailure, RecordUnsafe
  <1> QED
    BY <1>6, <1>7, <1>8, <1>9, <1>10, <1>11, <1>12 DEF Work

LEMMA ClaimInv ==
  ASSUME WorldGrows, IndInv, NEW w \in Worker, NEW a \in Attempt, Claim(w, a)
  PROVE  WorkerInv(w)'
  <1>1. /\ worker \in [Worker -> WorkerType] /\ journal \in [Attempt -> Row]
        /\ RowInv(a)
    BY IndInvSplit DEF IndParts, LeaseInv, TypeOK
  <1> DEFINE row == Claimed(journal[a], w)
             v == [Idle EXCEPT
                     !.phase = IF row.state = "needs_attention"
                               THEN "recheck" ELSE "barriers",
                     !.attempt = a, !.row = Snapshot(row), !.fresh = TRUE]
  <1>2. row.state = journal[a].state /\ row.located = journal[a].located
    BY <1>1 DEF Claimed, Row
  <1>3. worker' = [Stale({a}) EXCEPT ![w] = v] /\ UNCHANGED <<disk, client>>
    BY DEF Claim
  <1> HIDE DEF row
  <1>4. /\ v.phase \in {"recheck", "barriers"} /\ v.attempt = a
        /\ v.row.state = row.state /\ v.row.located = row.located
        /\ v.seen = "unseen" /\ v.found = FALSE
    BY DEF Idle, Snapshot
  <1> HIDE DEF v
  <1>5. worker'[w] = v
    BY <1>1, <1>3 DEF Stale
  <1>6. Target(w)' = a
    BY <1>4, <1>5 DEF Target
  <1>7. SeenInv(w)' /\ PhaseInv(w)'
    BY <1>4, <1>5 DEF SeenInv, PhaseInv, Cleared
  <1>8. CopyInv(w)'
    BY <1>1, <1>2, <1>3, <1>4, <1>5, <1>6 DEF CopyInv, RowInv, GoneForGood
  <1> QED
    BY <1>7, <1>8 DEF WorkerInv

LEMMA WorkersStep ==
  ASSUME IndInv, WorldGrows, Next
  PROVE  \A x \in Worker : WorkerInv(x)'
  <1> SUFFICES ASSUME NEW x \in Worker PROVE WorkerInv(x)'
    OBVIOUS
  <1>1. /\ TypeOK /\ worker \in [Worker -> WorkerType] /\ WorkerInv(x)
        /\ \A a \in Attempt : WorldInv(a)
    BY IndInvSplit DEF IndParts, LeaseInv, TypeOK
  <1>2. CASE Rests(x)
    BY <1>1, <1>2, WorkerStable DEF Rests
  <1>3. ASSUME NEW w \in Worker, Work(w)
        PROVE  WorkerInv(x)'
    BY <1>1, <1>2, <1>3, ActorInv, OthersRest
  <1>4. ASSUME NEW w \in Worker, NEW a \in Attempt, Claim(w, a)
        PROVE  WorkerInv(x)'
    <2>1. CASE x = w
      BY <1>4, <2>1, ClaimInv
    <2>2. CASE x # w
      <3>1. worker'[x] = Stale({a})[x]
        BY <1>1, <1>4, <2>2 DEF Claim, Stale
      <3> QED
        BY <1>1, <1>2, <3>1, StaleRests
    <2> QED
      BY <2>1, <2>2
  <1>5. CASE Owner
    <2>1. \E rows : worker' = Stale(rows)
      BY <1>5 DEF Owner, CreateAttempt, StoreHandle, Schedule, CancelTask,
         AcquireForReimport, OwnerWrites
    <2> QED
      BY <1>1, <1>2, <2>1, StaleRests
  <1>6. CASE Surroundings
    <2>1. CASE Crash
      <3>1. worker'[x] = Idle
        BY <2>1 DEF Crash
      <3>2. /\ worker'[x].phase = "idle"
            /\ worker'[x].seen = "unseen" /\ worker'[x].found = FALSE
        BY <3>1 DEF Idle
      <3> QED
        BY <3>2, WorkerLetGo DEF HandsOn
    <2>2. CASE UNCHANGED worker
      BY <1>1, <1>2, <2>2, StaleRests
    <2> QED
      BY <1>6, <2>1, <2>2 DEF Surroundings, Publisher, BarrierStep, Download,
         ClientStep, Meddle, FallDue, LeaseLapses, Outage
  <1> QED
    BY <1>3, <1>4, <1>5, <1>6 DEF Next

\* What a step may write into a row as far as RowInv is concerned.
Justified(a) ==
    /\ journal'[a].state = "workspace_removed"
          => journal[a].state = "workspace_removed" \/ GoneForGood(a)
    /\ journal'[a].located => journal[a].located \/ disk[a] # "empty"

\* An update that records neither a removal nor a place.
Benign(old, new) ==
    /\ new.state = "workspace_removed" => old.state = "workspace_removed"
    /\ new.located => old.located

LEMMA BenignUpdates ==
  ASSUME NEW row \in Row
  PROVE  /\ Benign(row, Created) /\ Benign(row, HandleUpdated(row))
         /\ Benign(row, Reacquired(row)) /\ Benign(row, Waiting(row))
         /\ Benign(row, FailureRecorded(row)) /\ Benign(row, Completed(row))
         /\ Benign(row, Reopened(row)) /\ Benign(row, Deferred(row))
         /\ \A c \in ErrorCode : Benign(row, Quarantined(row, c))
         /\ \A d \in {"discard", "preserve"}, B \in SUBSET Bundle :
               Benign(row, Scheduled(row, d, B))
         /\ \A w \in Worker : Benign(row, Claimed(row, w))
  <1> USE DEF Row, Released, Benign
  <1>1. Benign(row, Created)
    BY DEF Created, Absent
  <1>2. Benign(row, HandleUpdated(row)) /\ Benign(row, Reacquired(row))
    BY DEF HandleUpdated, Reacquired
  <1>3. Benign(row, Waiting(row)) /\ Benign(row, FailureRecorded(row))
    BY DEF Waiting, FailureRecorded
  <1>4. Benign(row, Completed(row)) /\ Benign(row, Reopened(row))
    BY DEF Completed, Reopened
  <1>5. Benign(row, Deferred(row)) /\ \A c \in ErrorCode : Benign(row, Quarantined(row, c))
    BY DEF Deferred, Quarantined
  <1>6. \A d \in {"discard", "preserve"}, B \in SUBSET Bundle :
           Benign(row, Scheduled(row, d, B))
    BY DEF Scheduled
  <1>7. \A w \in Worker : Benign(row, Claimed(row, w))
    BY DEF Claimed
  <1> HIDE DEF Benign
  <1> QED
    BY <1>1, <1>2, <1>3, <1>4, <1>5, <1>6, <1>7

LEMMA BenignJustified ==
  ASSUME journal \in [Attempt -> Row], NEW a \in Attempt, NEW new,
         journal' = [journal EXCEPT ![a] = new], Benign(journal[a], new)
  PROVE  \A b \in Attempt : Justified(b)
  BY DEF Justified, Benign

LEMMA WorkJustified ==
  ASSUME IndInv, NEW w \in Worker, Work(w)
  PROVE  \A a \in Attempt : Justified(a)
  <1>1. /\ TypeOK /\ WorkerInv(w) /\ worker \in [Worker -> WorkerType]
        /\ journal \in [Attempt -> Row] /\ Target(w) \in Attempt /\ Current(w) \in Row
    BY IndInvSplit, WorkRows DEF IndParts, IndInv, LeaseInv, TypeOK
  <1>2. ASSUME UNCHANGED journal
        PROVE  \A a \in Attempt : Justified(a)
    BY <1>2 DEF Justified
  <1>3. ASSUME NEW new, SwapAndReturn(w, new), Benign(Current(w), new)
        PROVE  \A a \in Attempt : Justified(a)
    BY <1>1, <1>3, BenignJustified DEF SwapAndReturn, Current
  <1>4. CASE RecordEvidence(w)
    <2> DEFINE found == worker[w].found
               known == worker[w].seen # "unseen"
               row == Evidenced(Current(w), found, known)
    <2>1. CASE journal' = [journal EXCEPT ![Target(w)] = row]
      <3>1. /\ row.state = Current(w).state
            /\ row.located = (Current(w).located \/ found)
        BY <1>1 DEF Evidenced, Row
      <3>2. found => disk[Target(w)] # "empty"
        BY <1>1 DEF WorkerInv, SeenInv
      <3> HIDE DEF row
      <3> QED
        BY <1>1, <2>1, <3>1, <3>2 DEF Justified, Current
    <2> QED
      BY <1>2, <1>4, <2>1 DEF RecordEvidence, Swap, Unsafe, Lost, Retryable, Raise
  <1>5. CASE RecordRemoval(w)
    <2> DEFINE row == WorkspaceRemoved(Current(w))
    <2>1. CASE journal' = [journal EXCEPT ![Target(w)] = row]
      <3>1. GoneForGood(Target(w))
        BY <1>1, <1>5 DEF RecordRemoval, At, WorkerInv, PhaseInv
      <3>2. row.located = Current(w).located
        BY <1>1 DEF WorkspaceRemoved, Row
      <3> HIDE DEF row
      <3> QED
        BY <1>1, <2>1, <3>1, <3>2 DEF Justified, Current
    <2> QED
      BY <1>2, <1>5, <2>1 DEF RecordRemoval, Swap, Lost, Retryable, Raise
  <1>6. CASE CheckPublisherBarriers(w)
    BY <1>1, <1>2, <1>3, <1>6, BenignUpdates
       DEF CheckPublisherBarriers, Goto, Unsafe, Lost, Retryable, Raise
  <1>7. CASE MarkComplete(w) \/ Reopen(w) \/ DeferAttention(w) \/ RecordFailure(w)
    BY <1>1, <1>2, <1>3, <1>7, BenignUpdates
       DEF MarkComplete, Reopen, DeferAttention, RecordFailure,
           Lost, Retryable, Raise, Return
  <1>8. CASE RecordUnsafe(w)
    <2>1. worker[w].code \in ErrorCode
      BY <1>1 DEF WorkerType
    <2> QED
      BY <1>1, <1>2, <1>3, <1>8, <2>1, BenignUpdates DEF RecordUnsafe, Return
  <1>9. CASE UNCHANGED journal
    BY <1>2, <1>9
  <1> QED
    BY <1>4, <1>5, <1>6, <1>7, <1>8, <1>9 DEF Work, InspectSource, AbortActive,
       CleanupUsenetWorkspace, SettleMissingJob, RemoveSafely, CleanupSlskdFiles,
       DiscardClientArtifacts, RecheckAttention, RecheckSource, RecheckAbsent,
       RecheckDiscard, Inspected, Reread, Goto, Unsafe, Retryable, Raise

LEMMA RowsStep ==
  ASSUME IndInv, WorldGrows, Next
  PROVE  \A a \in Attempt : RowInv(a)'
  <1>1. /\ TypeOK /\ journal \in [Attempt -> Row]
        /\ \A a \in Attempt : RowInv(a)
    BY IndInvSplit DEF IndParts, LeaseInv, TypeOK
  <1>2. ASSUME NEW w \in Worker, NEW a \in Attempt, Claim(w, a)
        PROVE  \A b \in Attempt : Justified(b)
    BY <1>1, <1>2, BenignUpdates, BenignJustified DEF Claim
  <1>3. ASSUME Owner
        PROVE  \A b \in Attempt : Justified(b)
    <2>1. ASSUME NEW a \in Attempt,
                 CreateAttempt(a) \/ StoreHandle(a) \/ AcquireForReimport(a)
          PROVE  \A b \in Attempt : Justified(b)
      BY <1>1, <2>1, BenignUpdates, BenignJustified
         DEF CreateAttempt, StoreHandle, AcquireForReimport, OwnerWrites
    <2>2. ASSUME NEW a \in Attempt, NEW d \in {"discard", "preserve"},
                 NEW B \in SUBSET Bundle, Schedule(a, d, B)
          PROVE  \A b \in Attempt : Justified(b)
      BY <1>1, <2>2, BenignUpdates, BenignJustified DEF Schedule, OwnerWrites
    <2>3. ASSUME NEW d \in {"discard", "preserve"}, NEW B \in SUBSET Bundle,
                 CancelTask(d, B), NEW b \in Attempt
          PROVE  Justified(b)
      <3>1. Benign(journal[b], Scheduled(journal[b], d, B))
        BY <1>1, BenignUpdates
      <3>2. journal'[b] \in {journal[b], Scheduled(journal[b], d, B)}
        BY <1>1, <2>3 DEF CancelTask
      <3> QED
        BY <3>1, <3>2 DEF Benign, Justified
    <2> QED
      BY <1>3, <2>1, <2>2, <2>3 DEF Owner, Known
  <1>4. ASSUME Surroundings
        PROVE  \A b \in Attempt : Justified(b)
    <2>1. ASSUME NEW a \in Attempt, FallDue(a) \/ LeaseLapses(a)
          PROVE  \A b \in Attempt : Justified(b)
      <3>1. /\ Benign(journal[a], [journal[a] EXCEPT !.due = TRUE])
            /\ Benign(journal[a], [journal[a] EXCEPT !.lease = "lapsed"])
        BY <1>1 DEF Benign, Row
      <3> QED
        BY <1>1, <2>1, <3>1, BenignJustified DEF FallDue, LeaseLapses
    <2>2. CASE UNCHANGED journal
      BY <2>2 DEF Justified
    <2> QED
      BY <1>4, <2>1, <2>2 DEF Surroundings, Publisher, BarrierStep, Download,
         ClientStep, Meddle, Outage, Crash
  <1>5. \A a \in Attempt : Justified(a)
    BY <1>2, <1>3, <1>4, WorkJustified DEF Next
  <1> SUFFICES ASSUME NEW a \in Attempt PROVE RowInv(a)'
    OBVIOUS
  <1>6. RowInv(a) /\ Justified(a)
    BY <1>1, <1>5
  <1>7. journal'[a].state = "workspace_removed" => GoneForGood(a)'
    <2>1. GoneForGood(a) => GoneForGood(a)'
      BY GoneStable
    <2> QED
      BY <1>6, <2>1 DEF RowInv, Justified
  <1>8. journal'[a].located => disk'[a] # "empty"
    BY <1>6 DEF RowInv, Justified, WorldGrows
  <1> QED
    BY <1>7, <1>8 DEF RowInv

LEMMA InitIndInv == Init => IndInv
  <1> SUFFICES ASSUME Init PROVE IndInv
    OBVIOUS
  <1>1. /\ LeaseInv /\ worker = [w \in Worker |-> Idle] /\ down = {}
        /\ disk = [a \in Attempt |-> "empty"] /\ client = [a \in Attempt |-> "unseen"]
        /\ journal = [a \in Attempt |-> Absent]
    BY InitLease DEF Init
  <1>2. ASSUME NEW a \in Attempt
        PROVE  WorldInv(a) /\ RowInv(a)
    <2>1. Absent.state = "absent" /\ Absent.located = FALSE
      BY DEF Absent
    <2> QED
      BY <1>1, <2>1 DEF WorldInv, RowInv
  <1>3. ASSUME NEW w \in Worker
        PROVE  WorkerInv(w)
    <2>1. Idle.phase = "idle" /\ Idle.seen = "unseen" /\ Idle.found = FALSE
      BY DEF Idle
    <2> QED
      BY <1>1, <2>1 DEF WorkerInv, SeenInv, CopyInv, PhaseInv, Cleared, HandsOn
  <1>4. MountInv
    BY <1>1 DEF MountInv
  <1> QED
    BY <1>1, <1>2, <1>3, <1>4, IndInvSplit DEF IndParts

LEMMA MountStep == ASSUME MountInv, Next PROVE MountInv'
  <1>1. CASE \E w \in Worker : Work(w)
    BY <1>1 DEF MountInv, Work, CheckPublisherBarriers, InspectSource, RecordEvidence,
       AbortActive, CleanupUsenetWorkspace, CleanupSlskdFiles, RecordRemoval,
       DiscardClientArtifacts, MarkComplete, RecheckAttention, RecheckSource,
       RecheckAbsent, RecheckDiscard, Inspected,
       Reopen, DeferAttention, Reread, RecordFailure, RecordUnsafe
  <1>2. CASE Owner \/ \E w \in Worker, a \in Attempt : Claim(w, a)
    BY <1>2 DEF MountInv, Claim, Owner, CreateAttempt, StoreHandle, Schedule,
       CancelTask, AcquireForReimport, OwnerWrites
  <1>3. CASE Surroundings
    BY <1>3 DEF MountInv, Surroundings, Publisher, BarrierStep, Download, ClientStep,
       Meddle, FallDue, LeaseLapses, Outage, Crash
  <1> QED
    BY <1>1, <1>2, <1>3 DEF Next

LEMMA StepKeepsIndInv == IndInv /\ [Next]_vars => IndInv'
  <1> SUFFICES ASSUME IndInv, [Next]_vars PROVE IndInv'
    OBVIOUS
  <1>1. /\ LeaseInv /\ TypeOK /\ MountInv
        /\ \A a \in Attempt : WorldInv(a) /\ RowInv(a)
        /\ \A w \in Worker : WorkerInv(w)
    BY IndInvSplit DEF IndParts, LeaseInv
  <1>2. LeaseInv' /\ WorldGrows
    BY <1>1, StepKeepsLease, StepGrowsWorld
  <1>3. \A a \in Attempt : WorldInv(a)'
    BY <1>1, <1>2, WorldInvStable
  <1>4. CASE Next
    <2>1. \A a \in Attempt : RowInv(a)'
      BY <1>2, <1>4, RowsStep
    <2>2. \A w \in Worker : WorkerInv(w)'
      BY <1>2, <1>4, WorkersStep
    <2>3. MountInv'
      BY <1>1, <1>4, MountStep
    <2>4. IndParts'
      BY <1>2, <1>3, <2>1, <2>2, <2>3 DEF IndParts
    <2>5. (IndParts => IndInv)'
      BY IndInvSplit, PTL
    <2> QED
      BY <2>4, <2>5
  <1>5. CASE UNCHANGED vars
    BY <1>5 DEF vars, IndInv, LeaseInv, TypeOK, WorksOnDebt, FreshIsCurrent,
       FreshOwns, LeaseProtectsRow, ClearedBySettledBundles, RemovalInv, SourceInv,
       BytesMeanSeen, LocatedMeansBytes, NothingLeft, GoneForGood, AllSettled,
       Busy, Target, Snapshot
  <1> QED
    BY <1>4, <1>5

\* The inductive invariant itself: what every worker knows of the row it holds, of
\* the bundles it has seen settled and of the bytes and client records it is about
\* to act on stays true across its awaits, whoever writes the row meanwhile
\* (_process_claimed against the store's schedule, cancel and re-import).
THEOREM Invariance == Spec => []IndInv
  BY InitIndInv, StepKeepsIndInv, PTL DEF Spec

\* Whoever deletes bytes, drops client records or closes an attempt does so past
\* a barrier check that is still true, however long ago it was made: settled
\* bundles stay settled and the copy of the row names the bundles of the row it
\* was checked for (_check_publisher_barriers, _recheck_attention).
THEOREM BarrierSafety == Spec => []ClearedBySettledBundles
  <1>1. IndInv => ClearedBySettledBundles
    BY DEF IndInv
  <1> QED
    BY <1>1, Invariance, PTL

\* workspace_removed is never a lie, whatever the mishaps and however many
\* workers share the row (_cleanup_usenet_workspace, _cleanup_source).
THEOREM RemovalSafety == Spec => []RemovedMeansGone
  <1>1. IndInv => RemovedMeansGone
    BY DEF IndInv, RemovalInv, GoneForGood, RemovedMeansGone
  <1> QED
    BY <1>1, Invariance, PTL

-----------------------------------------------------------------------------
(* Closing an attempt.                                                        *)

\* An update that closes no attempt; all but mark-complete are of this kind.
StaysOpen(old, new) == new.state = "complete" => old.state = "complete"

LEMMA OpenUpdates ==
  ASSUME NEW row \in Row
  PROVE  /\ StaysOpen(row, Created) /\ StaysOpen(row, HandleUpdated(row))
         /\ StaysOpen(row, Reacquired(row)) /\ StaysOpen(row, Waiting(row))
         /\ StaysOpen(row, FailureRecorded(row)) /\ StaysOpen(row, WorkspaceRemoved(row))
         /\ StaysOpen(row, Reopened(row)) /\ StaysOpen(row, Deferred(row))
         /\ \A c \in ErrorCode : StaysOpen(row, Quarantined(row, c))
         /\ \A d \in {"discard", "preserve"}, B \in SUBSET Bundle :
               StaysOpen(row, Scheduled(row, d, B))
         /\ \A w \in Worker : StaysOpen(row, Claimed(row, w))
         /\ \A l, i \in BOOLEAN : StaysOpen(row, Evidenced(row, l, i))
  <1> USE DEF Row, Released, StaysOpen
  <1>1. StaysOpen(row, Created)
    BY DEF Created, Absent
  <1>2. StaysOpen(row, HandleUpdated(row)) /\ StaysOpen(row, Reacquired(row))
    BY DEF HandleUpdated, Reacquired
  <1>3. StaysOpen(row, Waiting(row)) /\ StaysOpen(row, FailureRecorded(row))
    BY DEF Waiting, FailureRecorded
  <1>4. StaysOpen(row, WorkspaceRemoved(row)) /\ StaysOpen(row, Reopened(row))
    BY DEF WorkspaceRemoved, Reopened
  <1>5. StaysOpen(row, Deferred(row))
        /\ \A c \in ErrorCode : StaysOpen(row, Quarantined(row, c))
    BY DEF Deferred, Quarantined
  <1>6. \A d \in {"discard", "preserve"}, B \in SUBSET Bundle :
           StaysOpen(row, Scheduled(row, d, B))
    BY DEF Scheduled
  <1>7. \A w \in Worker : StaysOpen(row, Claimed(row, w))
    BY DEF Claimed
  <1>8. \A l, i \in BOOLEAN : StaysOpen(row, Evidenced(row, l, i))
    BY DEF Evidenced
  <1> HIDE DEF StaysOpen
  <1> QED
    BY <1>1, <1>2, <1>3, <1>4, <1>5, <1>6, <1>7, <1>8

\* Every row, except the one a worker closes from its finish phase.
OpenUnlessClosed ==
    \A a \in Attempt :
        \/ StaysOpen(journal[a], journal'[a])
        \/ \E w \in Worker : /\ worker[w].phase = "finish" /\ worker[w].fresh
                             /\ Target(w) = a /\ UNCHANGED disk
                             /\ ~Busy(w)'

LEMMA WritesOpen ==
  ASSUME journal \in [Attempt -> Row], NEW a \in Attempt, NEW new,
         journal' = [journal EXCEPT ![a] = new], StaysOpen(journal[a], new)
  PROVE  OpenUnlessClosed
  BY DEF OpenUnlessClosed, StaysOpen

LEMMA WorkCloses ==
  ASSUME TypeOK, NEW w \in Worker, Work(w)
  PROVE  OpenUnlessClosed
  <1>1. /\ worker \in [Worker -> WorkerType] /\ journal \in [Attempt -> Row]
        /\ Target(w) \in Attempt /\ Current(w) \in Row
        /\ Current(w) = journal[Target(w)]
    BY CurrentType DEF TypeOK, RowsTyped, Current
  <1>2. ASSUME UNCHANGED journal
        PROVE  OpenUnlessClosed
    BY <1>2 DEF OpenUnlessClosed, StaysOpen
  <1>3. ASSUME NEW new, SwapAndReturn(w, new), StaysOpen(Current(w), new)
        PROVE  OpenUnlessClosed
    BY <1>1, <1>3, WritesOpen DEF SwapAndReturn
  <1>4. ASSUME NEW new, NEW next, Swap(w, new, next), StaysOpen(Current(w), new)
        PROVE  OpenUnlessClosed
    BY <1>1, <1>4, WritesOpen DEF Swap
  <1>5. CASE MarkComplete(w)
    <2>1. CASE SwapAndReturn(w, Completed(Current(w)))
      <3>1. \A a \in Attempt \ {Target(w)} : journal'[a] = journal[a]
        BY <1>1, <2>1 DEF SwapAndReturn
      <3>2. /\ worker[w].phase = "finish" /\ worker[w].fresh /\ UNCHANGED disk
            /\ worker'[w] = Idle
        BY <1>1, <1>5, <2>1 DEF MarkComplete, At, SwapAndReturn, Stale
      <3>3. ~Busy(w)'
        BY <3>2 DEF Busy, Idle
      <3> QED
        BY <3>1, <3>2, <3>3 DEF OpenUnlessClosed, StaysOpen
    <2> QED
      BY <1>2, <1>5, <2>1 DEF MarkComplete, Lost, Retryable, Raise
  <1>6. CASE RecordEvidence(w)
    <2> DEFINE found == worker[w].found
               known == worker[w].seen # "unseen"
               next == IF worker[w].seen = "active" THEN "abort" ELSE "remove"
    <2>1. CASE Swap(w, Evidenced(Current(w), found, known), next)
      <3>1. found \in BOOLEAN /\ known \in BOOLEAN
        BY <1>1 DEF WorkerType
      <3> HIDE DEF found, known, next
      <3>2. StaysOpen(Current(w), Evidenced(Current(w), found, known))
        BY <1>1, <3>1, OpenUpdates
      <3> QED
        BY <1>4, <2>1, <3>2
    <2> QED
      BY <1>2, <1>6, <2>1 DEF RecordEvidence, Unsafe, Lost, Retryable, Raise
  <1>7. CASE RecordRemoval(w)
    BY <1>1, <1>2, <1>4, <1>7, OpenUpdates DEF RecordRemoval, Lost, Retryable, Raise
  <1>8. CASE CheckPublisherBarriers(w)
    BY <1>1, <1>2, <1>3, <1>8, OpenUpdates
       DEF CheckPublisherBarriers, Goto, Unsafe, Lost, Retryable, Raise
  <1>9. CASE Reopen(w) \/ DeferAttention(w) \/ RecordFailure(w)
    BY <1>1, <1>2, <1>3, <1>9, OpenUpdates
       DEF Reopen, DeferAttention, RecordFailure, Lost, Retryable, Raise, Return
  <1>10. CASE RecordUnsafe(w)
    <2>1. worker[w].code \in ErrorCode
      BY <1>1 DEF WorkerType
    <2> QED
      BY <1>1, <1>2, <1>3, <1>10, <2>1, OpenUpdates DEF RecordUnsafe, Return
  <1>11. CASE UNCHANGED journal
    BY <1>2, <1>11
  <1> QED
    BY <1>5, <1>6, <1>7, <1>8, <1>9, <1>10, <1>11 DEF Work, InspectSource,
       AbortActive, CleanupUsenetWorkspace, SettleMissingJob, RemoveSafely,
       CleanupSlskdFiles, DiscardClientArtifacts, RecheckAttention, RecheckSource,
       RecheckAbsent, RecheckDiscard, Inspected,
       Reread, Goto, Unsafe, Retryable, Raise

LEMMA StepCloses ==
  ASSUME TypeOK, Next
  PROVE  OpenUnlessClosed
  <1>1. journal \in [Attempt -> Row]
    BY DEF TypeOK
  <1>2. ASSUME NEW w \in Worker, NEW a \in Attempt, Claim(w, a)
        PROVE  OpenUnlessClosed
    BY <1>1, <1>2, OpenUpdates, WritesOpen DEF Claim
  <1>3. CASE Owner
    <2>1. ASSUME NEW a \in Attempt,
                 CreateAttempt(a) \/ StoreHandle(a) \/ AcquireForReimport(a)
          PROVE  OpenUnlessClosed
      BY <1>1, <2>1, OpenUpdates, WritesOpen
         DEF CreateAttempt, StoreHandle, AcquireForReimport, OwnerWrites
    <2>2. ASSUME NEW a \in Attempt, NEW d \in {"discard", "preserve"},
                 NEW B \in SUBSET Bundle, Schedule(a, d, B)
          PROVE  OpenUnlessClosed
      BY <1>1, <2>2, OpenUpdates, WritesOpen DEF Schedule, OwnerWrites
    <2>3. ASSUME NEW d \in {"discard", "preserve"}, NEW B \in SUBSET Bundle,
                 CancelTask(d, B)
          PROVE  OpenUnlessClosed
      <3>1. \A b \in Attempt : StaysOpen(journal[b], Scheduled(journal[b], d, B))
        BY <1>1, OpenUpdates
      <3>2. \A b \in Attempt : journal'[b] \in {journal[b], Scheduled(journal[b], d, B)}
        BY <1>1, <2>3 DEF CancelTask
      <3> QED
        BY <3>1, <3>2 DEF OpenUnlessClosed, StaysOpen
    <2> QED
      BY <1>3, <2>1, <2>2, <2>3 DEF Owner, Known
  <1>4. CASE Surroundings
    <2>1. ASSUME NEW a \in Attempt, FallDue(a) \/ LeaseLapses(a)
          PROVE  OpenUnlessClosed
      <3>1. /\ StaysOpen(journal[a], [journal[a] EXCEPT !.due = TRUE])
            /\ StaysOpen(journal[a], [journal[a] EXCEPT !.lease = "lapsed"])
        BY <1>1 DEF StaysOpen, Row
      <3> QED
        BY <1>1, <2>1, <3>1, WritesOpen DEF FallDue, LeaseLapses
    <2>2. CASE UNCHANGED journal
      BY <2>2 DEF OpenUnlessClosed, StaysOpen
    <2> QED
      BY <1>4, <2>1, <2>2 DEF Surroundings, Publisher, BarrierStep, Download,
         ClientStep, Meddle, Outage, Crash
  <1> QED
    BY <1>2, <1>3, <1>4, WorkCloses DEF Next

\* With the mount in place, no attempt whose files were ever located is closed
\* over files that are still there: not after an abort, a purged history, a crash
\* or a lapsed lease (_cleanup_usenet_workspace, _cleanup_slskd_files,
\* _mark_complete).
THEOREM CompletionSafety ==
  ASSUME "mount" \notin Mishaps
  PROVE  Spec => CompletionLeavesNoSource
  <1>1. IndInv /\ [Next]_vars =>
           [\A a \in Attempt :
               Completes(a) /\ journal[a].located => disk[a] \notin Occupied]_vars
    <2> SUFFICES ASSUME IndInv, Next, NEW a \in Attempt,
                        Completes(a), journal[a].located
                 PROVE  disk[a] \notin Occupied
      OBVIOUS
    <2>1. TypeOK
      BY DEF IndInv, LeaseInv
    <2>2. PICK w \in Worker : /\ worker[w].phase = "finish" /\ worker[w].fresh
                              /\ Target(w) = a
      BY <2>1, StepCloses DEF OpenUnlessClosed, StaysOpen, Completes
    <2>3. worker[w].row = Snapshot(journal[a])
      BY <2>2 DEF IndInv, LeaseInv, FreshIsCurrent, Busy
    <2>4. worker[w].row.located
      BY <2>3 DEF Snapshot
    <2> QED
      BY <2>2, <2>4 DEF IndInv, SourceInv, NothingLeft
  <1> QED
    BY <1>1, Invariance, PTL DEF Spec, CompletionLeavesNoSource

-----------------------------------------------------------------------------
(* Reopening an attempt.                                                      *)

\* The row a worker writes is the one it holds, and only while nobody else has.
LEMMA WorkWrites ==
  ASSUME TypeOK, NEW w \in Worker, Work(w)
  PROVE  \/ UNCHANGED journal
         \/ /\ worker[w].fresh
            /\ \A a \in Attempt \ {Target(w)} : journal'[a] = journal[a]
  <1>1. journal \in [Attempt -> Row]
    BY DEF TypeOK
  <1>2. ASSUME NEW row,
               SwapAndReturn(w, row) \/ \E next : Swap(w, row, next)
        PROVE  /\ worker[w].fresh
               /\ \A a \in Attempt \ {Target(w)} : journal'[a] = journal[a]
    BY <1>1, <1>2 DEF Swap, SwapAndReturn
  <1>3. \/ UNCHANGED journal
        \/ \E row : SwapAndReturn(w, row) \/ \E next : Swap(w, row, next)
    <2>1. CASE RecordFailure(w) \/ RecordUnsafe(w)
      BY <2>1 DEF RecordFailure, RecordUnsafe, Return
    <2>2. CASE CheckPublisherBarriers(w) \/ RecordEvidence(w)
      BY <2>2 DEF CheckPublisherBarriers, RecordEvidence, Goto, Unsafe, Lost,
         Retryable, Raise
    <2>3. CASE \/ RecordRemoval(w) \/ MarkComplete(w) \/ Reopen(w)
               \/ DeferAttention(w)
      BY <2>3 DEF RecordRemoval, MarkComplete, Reopen, DeferAttention, Lost,
         Retryable, Raise
    <2>4. CASE UNCHANGED journal
      BY <2>4
    <2> QED
      BY <2>1, <2>2, <2>3, <2>4 DEF Work, InspectSource,
         AbortActive, CleanupUsenetWorkspace, SettleMissingJob, RemoveSafely,
         CleanupSlskdFiles, DiscardClientArtifacts, RecheckAttention, RecheckSource,
         RecheckAbsent, RecheckDiscard, Inspected, Reread, Goto, Unsafe, Retryable,
         Raise
  <1> QED
    BY <1>2, <1>3

\* Only the handler of _UnsafeCleanup writes without having asked what the row is.
Reopens(a) == journal[a].state = "complete" /\ journal'[a].state # "complete"

LEMMA WorkReopens ==
  ASSUME IndInv, NEW w \in Worker, Work(w), NEW a \in Attempt, Reopens(a)
  PROVE  worker[w].phase = "unsafe" /\ Target(w) = a
  <1>1. /\ TypeOK /\ journal \in [Attempt -> Row] /\ Current(w) \in Row
        /\ worker[w].phase \in Phase /\ Current(w) = journal[Target(w)]
    BY WorkRows DEF IndInv, LeaseInv, TypeOK, WorkerType, Current
  <1>2. worker[w].fresh /\ Target(w) = a
    BY <1>1, WorkWrites DEF Reopens
  <1>3. worker[w].phase \notin HandsOn
    <2> SUFFICES ASSUME worker[w].phase \in HandsOn PROVE FALSE
      OBVIOUS
    <2>1. worker[w].row = Snapshot(journal[a]) /\ worker[w].row.state \in CleanupStates
      BY <1>2 DEF IndInv, LeaseInv, FreshIsCurrent, WorksOnDebt, Busy, HandsOn
    <2> QED
      BY <2>1 DEF Snapshot, CleanupStates, Reopens
  <1>4. CASE worker[w].phase = "retry"
    <2>1. RecordFailure(w)
      BY <1>4 DEF Work, At, CheckPublisherBarriers, InspectSource, RecordEvidence,
         AbortActive, CleanupUsenetWorkspace, CleanupSlskdFiles, RecordRemoval,
         DiscardClientArtifacts, MarkComplete, RecheckAttention, RecheckSource,
         RecheckAbsent, RecheckDiscard, Reopen, DeferAttention, Reread, RecordUnsafe
    <2>2. FailureRecorded(Current(w)).state = Current(w).state
      BY <1>1 DEF Row, FailureRecorded, Released
    <2>3. journal'[a].state = journal[a].state
      BY <1>1, <1>2, <2>1, <2>2 DEF RecordFailure, SwapAndReturn, Return
    <2> QED
      BY <2>3 DEF Reopens
  <1>5. CASE worker[w].phase \in {"on_retry", "on_unsafe", "idle"}
    BY <1>5 DEF Reopens, Work, At, CheckPublisherBarriers, InspectSource,
       RecordEvidence, AbortActive, CleanupUsenetWorkspace, CleanupSlskdFiles,
       RecordRemoval, DiscardClientArtifacts, MarkComplete, RecheckAttention,
       RecheckSource, RecheckAbsent, RecheckDiscard, Reopen, DeferAttention, Reread,
       RecordFailure, RecordUnsafe
  <1> QED
    BY <1>1, <1>2, <1>3, <1>4, <1>5 DEF HandsOn, Handling

LEMMA StepReopens ==
  ASSUME IndInv, Next, NEW a \in Attempt, Reopens(a)
  PROVE  \E w \in Worker : /\ Work(w)
                            /\ worker[w].phase = "unsafe" /\ Target(w) = a
  <1>1. journal \in [Attempt -> Row]
    BY DEF IndInv, LeaseInv, TypeOK
  <1>2. ASSUME NEW w \in Worker, NEW b \in Attempt, Claim(w, b)
        PROVE  FALSE
    BY <1>1, <1>2 DEF Claim, Claimable, CleanupStates, Reopens
  <1>3. CASE Owner
    BY <1>1, <1>3 DEF Owner, CreateAttempt, StoreHandle, Schedule, CancelTask,
       AcquireForReimport, OwnerWrites, Open, HandleUpdatable, Schedulable,
       Reimportable, Reopens
  <1>4. CASE Surroundings
    <2>1. ASSUME NEW b \in Attempt, FallDue(b) \/ LeaseLapses(b)
          PROVE  FALSE
      BY <1>1, <2>1 DEF FallDue, LeaseLapses, Row, Reopens
    <2>2. ~UNCHANGED journal
      BY DEF Reopens
    <2> QED
      BY <1>4, <2>1, <2>2 DEF Surroundings, Publisher, BarrierStep, Download,
         ClientStep, Meddle, Outage, Crash
  <1>5. ASSUME NEW w \in Worker, Work(w)
        PROVE  worker[w].phase = "unsafe" /\ Target(w) = a
    BY <1>5, WorkReopens
  <1> QED
    BY <1>2, <1>3, <1>4, <1>5 DEF Next

\* And all that handler can make of the row is attention debt.
LEMMA ReopensForAttention ==
  ASSUME IndInv, Next, NEW a \in Attempt, Reopens(a)
  PROVE  journal'[a].state = "needs_attention"
  <1>1. PICK w \in Worker : Work(w) /\ worker[w].phase = "unsafe" /\ Target(w) = a
    BY StepReopens
  <1>2. /\ journal \in [Attempt -> Row] /\ Current(w) \in Row
        /\ Current(w) = journal[a]
    BY <1>1, WorkRows DEF IndInv, LeaseInv, TypeOK, Current
  <1>3. RecordUnsafe(w)
    BY <1>1 DEF Work, At, CheckPublisherBarriers, InspectSource, RecordEvidence,
       AbortActive, CleanupUsenetWorkspace, CleanupSlskdFiles, RecordRemoval,
       DiscardClientArtifacts, MarkComplete, RecheckAttention, RecheckSource,
       RecheckAbsent, RecheckDiscard, Reopen, DeferAttention, Reread, RecordFailure
  <1>4. Quarantined(Current(w), worker[w].code).state = "needs_attention"
    BY <1>2 DEF Row, Quarantined, Released
  <1> QED
    BY <1>1, <1>2, <1>3, <1>4 DEF RecordUnsafe, SwapAndReturn, Return, Reopens

\* However many workers there are, and whatever they believe of a row they lost
\* long ago, a closed attempt is never debt again and never back in use
\* (_process_claimed, record_download_cleanup_failure, the owner's updates).
THEOREM ClosedIsNoDebt == Spec => ClosedNeverDebt
  <1>1. IndInv /\ [Next]_vars =>
           [\A a \in Attempt :
               journal[a].state = "complete"
                   => journal'[a].state \in {"complete", "needs_attention"}]_vars
    BY ReopensForAttention DEF Reopens
  <1> QED
    BY <1>1, Invariance, PTL DEF Spec, ClosedNeverDebt

-----------------------------------------------------------------------------
(* One worker: nobody closes the row it holds but itself, and then it is idle. *)

Alone == \A v, w \in Worker : v = w

WorkedIsOpen ==
    \A w \in Worker : Busy(w) => journal[Target(w)].state # "complete"

\* Whoever is busy after a step was busy with the same row before it, or has just
\* claimed one.
KeepsAtIt(x) ==
    Busy(x)' => \/ Busy(x) /\ Target(x)' = Target(x)
                \/ \E a \in Attempt : Claim(x, a)

LEMMA RestingKeepsAtIt ==
  ASSUME NEW x \in Worker, Rests(x)
  PROVE  KeepsAtIt(x)
  BY DEF Rests, SameTarget, KeepsAtIt, Busy, Target

LEMMA ActorKeepsAtIt ==
  ASSUME TypeOK, NEW w \in Worker, Work(w)
  PROVE  KeepsAtIt(w)
  <1>1. worker \in [Worker -> WorkerType]
    BY DEF TypeOK
  <1>2. Busy(w)
    BY DEF Busy, Work, At, CheckPublisherBarriers, InspectSource, RecordEvidence,
       AbortActive, CleanupUsenetWorkspace, CleanupSlskdFiles, RecordRemoval,
       DiscardClientArtifacts, MarkComplete, RecheckAttention, RecheckSource,
       RecheckAbsent, RecheckDiscard, Reopen, DeferAttention, Reread,
       RecordFailure, RecordUnsafe
  <1>3. ASSUME worker'[w] = Idle
        PROVE  KeepsAtIt(w)
    BY <1>3 DEF KeepsAtIt, Busy, Idle
  <1>4. ASSUME worker'[w].attempt = worker[w].attempt
        PROVE  KeepsAtIt(w)
    BY <1>2, <1>4 DEF KeepsAtIt, Target
  <1>5. ASSUME NEW row, SwapAndReturn(w, row)
        PROVE  KeepsAtIt(w)
    BY <1>1, <1>3, <1>5 DEF SwapAndReturn, Stale
  <1>6. ASSUME NEW row, NEW next, Swap(w, row, next)
        PROVE  KeepsAtIt(w)
    <2>1. worker'[w] = [worker[w] EXCEPT !.phase = next, !.row = Snapshot(row)]
      BY <1>1, <1>6 DEF Swap, Stale
    <2> QED
      BY <1>1, <1>4, <2>1 DEF WorkerType
  <1>7. ASSUME NEW handler, NEW code, Raise(w, handler, code)
        PROVE  KeepsAtIt(w)
    <2>1. worker'[w].attempt = Target(w)
      BY <1>1, <1>7 DEF Raise, Idle
    <2> QED
      BY <1>4, <2>1 DEF Target
  <1>8. CASE \/ Retryable(w) \/ Lost(w) \/ Return(w)
             \/ \E code : Unsafe(w, code)
             \/ \E next : Goto(w, next)
    <2>1. CASE \E next : Goto(w, next)
      BY <1>1, <1>4, <2>1 DEF Goto, WorkerType
    <2>2. CASE Return(w)
      BY <1>1, <1>3, <2>2 DEF Return
    <2> QED
      BY <1>7, <1>8, <2>1, <2>2 DEF Retryable, Lost, Unsafe
  <1>9. CASE InspectSource(w) \/ RecheckSource(w)
    <2>1. ASSUME NEW next, Inspected(w, next)
          PROVE  worker'[w].attempt = worker[w].attempt
      BY <1>1, <2>1 DEF Inspected, WorkerType
    <2> QED
      BY <1>4, <1>8, <1>9, <2>1 DEF InspectSource, RecheckSource
  <1>10. CASE \E from, to : Reread(w, from, to)
    <2>1. worker'[w].attempt = worker[w].attempt
      BY <1>1, <1>10 DEF Reread, WorkerType
    <2> QED
      BY <1>4, <2>1
  <1>11. CASE CheckPublisherBarriers(w) \/ RecordEvidence(w) \/ AbortActive(w)
    BY <1>5, <1>6, <1>8, <1>11 DEF CheckPublisherBarriers, RecordEvidence, AbortActive
  <1>12. CASE CleanupUsenetWorkspace(w) \/ CleanupSlskdFiles(w)
    BY <1>8, <1>12
       DEF CleanupUsenetWorkspace, SettleMissingJob, CleanupSlskdFiles, RemoveSafely
  <1>13. CASE RecordRemoval(w) \/ DiscardClientArtifacts(w) \/ MarkComplete(w)
    BY <1>5, <1>6, <1>8, <1>13 DEF RecordRemoval, DiscardClientArtifacts, MarkComplete
  <1>14. CASE \/ RecheckAttention(w) \/ RecheckAbsent(w) \/ RecheckDiscard(w)
              \/ Reopen(w) \/ DeferAttention(w)
    BY <1>5, <1>8, <1>14 DEF RecheckAttention, RecheckAbsent, RecheckDiscard, Reopen,
       DeferAttention
  <1>15. CASE RecordFailure(w) \/ RecordUnsafe(w)
    BY <1>5, <1>8, <1>15 DEF RecordFailure, RecordUnsafe
  <1> QED
    BY <1>9, <1>10, <1>11, <1>12, <1>13, <1>14, <1>15 DEF Work

LEMMA StepKeepsAtIt ==
  ASSUME TypeOK, Next, NEW x \in Worker
  PROVE  KeepsAtIt(x)
  <1>1. worker \in [Worker -> WorkerType]
    BY DEF TypeOK
  <1>2. ASSUME NEW rows, worker'[x] = Stale(rows)[x] \/ worker'[x] = worker[x]
        PROVE  KeepsAtIt(x)
    BY <1>2, StaleRests, RestingKeepsAtIt
  <1>3. ASSUME NEW w \in Worker, Work(w)
        PROVE  KeepsAtIt(x)
    BY <1>3, OthersRest, RestingKeepsAtIt, ActorKeepsAtIt
  <1>4. ASSUME NEW w \in Worker, NEW a \in Attempt, Claim(w, a)
        PROVE  KeepsAtIt(x)
    <2>1. CASE x = w
      BY <1>4, <2>1 DEF KeepsAtIt
    <2>2. CASE x # w
      <3>1. worker'[x] = Stale({a})[x]
        BY <1>1, <1>4, <2>2 DEF Claim, Stale
      <3> QED
        BY <1>2, <3>1
    <2> QED
      BY <2>1, <2>2
  <1>5. CASE Owner
    <2>1. \E rows : worker' = Stale(rows)
      BY <1>5 DEF Owner, CreateAttempt, StoreHandle, Schedule, CancelTask,
         AcquireForReimport, OwnerWrites
    <2> QED
      BY <1>2, <2>1
  <1>6. CASE Crash
    <2>1. worker'[x] = Idle
      BY <1>6 DEF Crash
    <2> QED
      BY <2>1 DEF KeepsAtIt, Busy, Idle
  <1>7. CASE UNCHANGED worker
    BY <1>2, <1>7
  <1>8. CASE Surroundings
    BY <1>6, <1>7, <1>8 DEF Surroundings, Publisher, BarrierStep, Download,
       ClientStep, Meddle, FallDue, LeaseLapses, Outage
  <1> QED
    BY <1>3, <1>4, <1>5, <1>8 DEF Next

LEMMA WorkedStaysOpen ==
  ASSUME Alone, TypeOK, WorkedIsOpen, Next
  PROVE  WorkedIsOpen'
  <1> SUFFICES ASSUME NEW x \in Worker, Busy(x)'
               PROVE  journal'[Target(x)'].state # "complete"
    BY DEF WorkedIsOpen
  <1>1. /\ worker \in [Worker -> WorkerType] /\ worker' \in [Worker -> WorkerType]
        /\ journal \in [Attempt -> Row]
    BY StepTyped DEF TypeOK
  <1>2. CASE Busy(x) /\ Target(x)' = Target(x)
    <2>1. Target(x) \in Attempt /\ journal[Target(x)].state # "complete"
      BY <1>1, <1>2 DEF WorkedIsOpen, Target, WorkerType
    <2>2. ASSUME journal'[Target(x)].state = "complete"
          PROVE  FALSE
      <3>1. PICK w \in Worker : ~Busy(w)'
        BY <2>1, <2>2, StepCloses DEF OpenUnlessClosed, StaysOpen
      <3>2. w = x
        BY DEF Alone
      <3> QED
        BY <3>1, <3>2
    <2> QED
      BY <1>2, <2>2
  <1>3. ASSUME NEW a \in Attempt, Claim(x, a)
        PROVE  journal'[Target(x)'].state # "complete"
    <2>1. worker'[x].attempt = a /\ journal'[a] = Claimed(journal[a], x)
      BY <1>1, <1>3 DEF Claim, Idle, Stale
    <2>2. Claimed(journal[a], x).state = journal[a].state
      BY <1>1 DEF Claimed, Row
    <2>3. journal[a].state # "complete"
      BY <1>3 DEF Claim, Claimable, CleanupStates
    <2> QED
      BY <2>1, <2>2, <2>3 DEF Target
  <1> QED
    BY <1>2, <1>3, StepKeepsAtIt DEF KeepsAtIt

-----------------------------------------------------------------------------

\* A closed attempt stays closed for good where a single worker drains the debt.
\* With more, the handler of _UnsafeCleanup can put a row before a human that
\* another worker has closed since its raise (_process_claimed).
THEOREM ClosedForGood ==
  ASSUME Alone
  PROVE  Spec => CompleteIsFinal
  <1>1. Init => WorkedIsOpen
    BY DEF Init, WorkedIsOpen, Busy, Idle
  <1>2. IndInv /\ WorkedIsOpen /\ [Next]_vars => WorkedIsOpen'
    <2>1. ASSUME WorkedIsOpen, UNCHANGED vars PROVE WorkedIsOpen'
      BY <2>1 DEF WorkedIsOpen, Busy, Target, vars
    <2> QED
      BY <2>1, WorkedStaysOpen DEF IndInv, LeaseInv
  <1>3. IndInv /\ WorkedIsOpen /\ [Next]_vars =>
           [\A a \in Attempt : journal[a].state = "complete"
                                  => journal'[a].state = "complete"]_vars
    BY StepReopens DEF WorkedIsOpen, Busy, Reopens
  <1> QED
    BY <1>1, <1>2, <1>3, Invariance, PTL DEF Spec, CompleteIsFinal

=============================================================================
