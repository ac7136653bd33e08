------------------------ MODULE DownloadOrchestrator ------------------------
(***************************************************************************)
(* One download task of services/native/download_orchestrator.py: the      *)
(* coroutine that drives it (search is over, a candidate is linked), the   *)
(* route handlers and the reaper that reach into it from outside, and the  *)
(* rows they write.  An action is the code between two awaits at which     *)
(* another coroutine may see a difference; a store method is one write     *)
(* transaction.                                                            *)
(*                                                                         *)
(* Answers of clients, verification and quality gates are choices.  Left   *)
(* out: searching, the track re-pull, retries (a new task), events, quotas *)
(* and the request history.                                                *)
(***************************************************************************)
EXTENDS AttemptJournal, Sequences, FiniteSetsExt

CONSTANTS
    Source,       \* the task's source, "soulseek" or "usenet"
    Candidates,   \* how many candidates the search job holds
    MaxFailover,  \* _max_failover: attempts after which no other is linked
    Loop,         \* coroutines that may drive the task, one after the other
    NoLoop,       \* no entry in _active_tasks
    Handlers,     \* which of "reimport" and "reap" are called
    MaxCancels,   \* bound: calls of cancel_task
    MaxSwitches,  \* bound: calls of try_next_source
    MaxCrashes,   \* bound: crashes of the process in a behaviour
    MaxOutages,   \* bound: submissions that meet an unreachable client
    MaxRebuilds   \* bound: settings saves, each of which makes a new instance

Candidate == 1 .. Candidates
Instance == 1 .. MaxRebuilds + 1

ASSUME SourceAssumption == Source \in {"soulseek", "usenet"}
ASSUME CandidatesAssumption == Candidates \in Nat \ {0}
ASSUME BundleAssumption == Bundle = Candidate  \* one publication per candidate
ASSUME FailoverAssumption == MaxFailover \in Nat
ASSUME LoopAssumption == NoLoop \notin Loop
ASSUME HandlersAssumption == Handlers \subseteq {"reimport", "reap"}
ASSUME BoundsAssumption ==
    /\ MaxCancels \in Nat /\ MaxSwitches \in Nat /\ MaxCrashes \in Nat
    /\ MaxOutages \in Nat /\ MaxRebuilds \in Nat

VARIABLES
    task,      \* the download_tasks row
    journal,   \* the task's download_attempts rows, in the order they were made
    manifest,  \* staging/<task>/manifest.json
    loops,     \* the coroutines of dispatch and _dispatch_resume
    active,    \* _active_tasks[task] of the current instance
    op,        \* the route handlers and the reaper
    lock,      \* _operation_lock(task) of every instance
    instance,  \* which orchestrator instance get_..._orchestrator returns
    bundle,    \* publications, by the candidate whose files they read
    budget     \* what is left of the five bounds

vars == <<task, journal, manifest, loops, active, op, lock, instance, bundle, budget>>

Running == {"queued", "downloading", "processing"}
Terminal == {"completed", "partial", "failed", "cancelled"}

\* A ProcessResult as far as it outlives the import; disposition "none" is
\* process_result=None.
Result == [disposition : {"none", "discard", "preserve"}, bundles : SUBSET Bundle]
NoResult == [disposition |-> "none", bundles |-> {}]
FreshResult == [disposition |-> "discard", bundles |-> {}]

\* The manifest names the attempt only for Usenet (attempt_id); 0: it does not.
NoManifest == [cand |-> 0, attempt |-> 0]

LoopPc ==
    {"off", "read", "lookup", "prepare", "enqueue", "create", "manifest", "submit",
     "outage", "handle", "open", "poll", "recheck", "keep", "process", "import",
     "publish", "finish", "sweep", "failover", "abort", "schedule", "link", "reset",
     "fail"}

LoopState ==
    [pc      : LoopPc,
     killed  : BOOLEAN,               \* CancelledError held back by the shield
     status  : Running \union Terminal,  \* of the task object it carries
     cand    : Candidate,             \* of the task object it carries
     attempt : Nat,                   \* the row enqueue works on
     handle  : {0} \union Candidate,  \* whose transfer it polls or publishes
     resume  : BOOLEAN,               \* first iteration polls, no enqueue
     whole   : BOOLEAN,               \* outcome completed or terminal, or no enqueue
     pick    : Candidate,             \* entry to link next
     verdict : Terminal,              \* status to finalize with
     result  : Result]

Off ==
    [pc |-> "off", killed |-> FALSE, status |-> "queued", cand |-> 1,
     attempt |-> 0, handle |-> 0, resume |-> FALSE, whole |-> TRUE, pick |-> 1,
     verdict |-> "failed", result |-> NoResult]

Handler == {"cancel", "next", "reimport", "reap"}
OpPc == {"idle", "wait", "lock", "bundles", "write", "asked", "check", "schedule",
         "link", "reset", "status", "import", "publish", "finish", "preserve",
         "sweep", "judged"}
OpState ==
    [pc : OpPc, at : Instance, cand : Candidate, attempt : Nat,
     bundles : SUBSET Bundle, result : Result, verdict : Terminal]
Idle ==
    [pc |-> "idle", at |-> 1, cand |-> 1, attempt |-> 0, bundles |-> {},
     result |-> NoResult, verdict |-> "failed"]

TypeOK ==
    /\ task \in [status : Running \union Terminal, cand : Candidate,
                 polled : BOOLEAN,    \* last_polled_at is recent
                 bytes : BOOLEAN,     \* downloaded_bytes > 0
                 deadline : BOOLEAN]  \* preferred_quality_fallback_at is set
    \* bytes: the candidate whose transfer the row's handle names
    /\ journal \in Seq([cand : Candidate, bytes : Candidate, row : Row])
    /\ manifest \in [cand : {0} \union Candidate, attempt : 0 .. Len(journal)]
    /\ loops \in [Loop -> LoopState]
    /\ active \in Loop \union {NoLoop}
    /\ op \in [Handler -> OpState]
    /\ lock \in [Instance -> Handler \union {"free"}]
    /\ instance \in Instance
    /\ bundle \in [Candidate -> {"none", "publishing", "settled"}]
    /\ budget \in [cancels : 0 .. MaxCancels, switches : 0 .. MaxSwitches,
                   crashes : 0 .. MaxCrashes, outages : 0 .. MaxOutages,
                   rebuilds : 0 .. MaxRebuilds]

-----------------------------------------------------------------------------
(* The store and the lookups every caller shares. *)

StateOf(a) == journal[a].row.state
Live == {a \in DOMAIN journal : StateOf(a) \in {"acquiring", "in_use"}}
OfCandidate(c) == {a \in DOMAIN journal : journal[a].cand = c}
LatestOf(S) == IF S = {} THEN 0 ELSE Max(S)

Inserted(j, c, bytes, row) == Append(j, [cand |-> c, bytes |-> bytes, row |-> row])

\* _attempt_for_manifest: the attempt it names, else the last live one, else a
\* new row for the task's candidate with the manifest's handle.
ManifestAttempt ==
    IF manifest.attempt # 0 THEN manifest.attempt
    ELSE IF Live # {} THEN Max(Live) ELSE Len(journal) + 1
Adopted(c) ==
    IF ManifestAttempt > Len(journal)
    THEN Inserted(journal, c, manifest.cand, HandleUpdated(Created))
    ELSE journal

\* The shared schedule UPDATE; attempt 0 is attempt_id=None.
ScheduledIn(j, a, disposition, bundles) ==
    IF a = 0 \/ disposition = "none" THEN j
    ELSE IF Schedulable(j[a].row)
    THEN [j EXCEPT ![a].row = Scheduled(@, disposition, bundles)]
    ELSE j

\* _schedule_attempt_cleanup for a task object that carries candidate c.
ScheduleCleanup(c, result) ==
    journal' =
        IF manifest # NoManifest
        THEN ScheduledIn(Adopted(c), ManifestAttempt, result.disposition, result.bundles)
        ELSE ScheduledIn(journal,
                         IF OfCandidate(c) # {} THEN Max(OfCandidate(c)) ELSE LatestOf(Live),
                         result.disposition, result.bundles)

\* _finalize: task and attempt in one transaction.
Finalize(c, verdict, result) ==
    /\ task' = [task EXCEPT !.status = verdict]
    /\ journal' =
          IF result.disposition = "none" THEN journal
          ELSE IF manifest # NoManifest
          THEN ScheduledIn(Adopted(c), ManifestAttempt, result.disposition, result.bundles)
          ELSE ScheduledIn(journal, LatestOf(OfCandidate(c)),
                           result.disposition, result.bundles)

\* _fail_task_preserving_attempt.
FailPreserving ==
    /\ task' = [task EXCEPT !.status = "failed"]
    /\ journal' = ScheduledIn(journal, LatestOf(Live), "preserve", {})

-----------------------------------------------------------------------------
(* Coroutines. *)

Alive(l) == loops[l].pc # "off"
At(l, pc) == loops[l].pc = pc /\ ~loops[l].killed
Become(l, state) == loops' = [loops EXCEPT ![l] = state]
Goto(l, pc) == Become(l, [loops[l] EXCEPT !.pc = pc])
Done(l) ==
    /\ Become(l, Off)
    /\ active' = IF active = l THEN NoLoop ELSE active

\* The CancelledError arrives at whatever await the coroutine is in, except in
\* a publication's critical section, which is shielded and finishes first.
Killed(S) ==
    [l \in Loop |->
        IF l \notin S THEN loops[l]
        ELSE IF loops[l].pc = "publish" THEN [loops[l] EXCEPT !.killed = TRUE]
        ELSE Off]

\* dispatch (via "run") and _dispatch_resume (via "resume").
Dispatched(via) ==
    [Off EXCEPT !.pc = IF via = "run" THEN "read" ELSE "lookup"]
Dispatch(via) ==
    \E l \in Loop :
        /\ ~Alive(l)
        /\ Become(l, Dispatched(via))
        /\ active' = l

Init ==
    /\ task = [status |-> "queued", cand |-> 1, polled |-> TRUE, bytes |-> FALSE,
               deadline |-> Source = "soulseek"]
    /\ journal = <<>>
    /\ manifest = NoManifest
    /\ \E l \in Loop :
          /\ loops = [m \in Loop |-> IF m = l THEN Dispatched("run") ELSE Off]
          /\ active = l
    /\ op = [h \in Handler |-> Idle]
    /\ lock = [i \in Instance |-> "free"]
    /\ instance = 1
    /\ bundle = [c \in Candidate |-> "none"]
    /\ budget = [cancels |-> MaxCancels, switches |-> MaxSwitches,
                 crashes |-> MaxCrashes, outages |-> MaxOutages,
                 rebuilds |-> MaxRebuilds]

\* What no coroutine of the download itself ever writes.
Surroundings == UNCHANGED <<op, lock, instance>>

\* process_task: the row is read, whatever its status.
ReadTask(l) ==
    /\ At(l, "read")
    /\ Become(l, [loops[l] EXCEPT !.pc = "prepare", !.resume = FALSE,
                                  !.status = task.status, !.cand = task.cand])
    /\ UNCHANGED <<task, journal, manifest, active, bundle, budget>> /\ Surroundings

\* A manifest left by the previous candidate is not resumed.
\* Mutant: it is.
ResumableAny(j) == TRUE

Resumable(j) == j[ManifestAttempt].cand = task.cand

\* _resume_single_task.
ResumeTask(l) ==
    /\ At(l, "lookup")
    /\ IF manifest = NoManifest
       THEN Goto(l, "read") /\ UNCHANGED journal
       ELSE /\ journal' = Adopted(task.cand)
            /\ Become(l, [loops[l] EXCEPT
                  !.pc = IF Resumable(journal') THEN "prepare" ELSE "read",
                  !.resume = TRUE, !.status = task.status, !.cand = task.cand])
    /\ UNCHANGED <<task, manifest, active, bundle, budget>> /\ Surroundings

\* _prepare_candidate_state writes back the status of the object it was given
\* and returns the row as it is then.
Prepare(l) ==
    /\ At(l, "prepare")
    /\ task' = [task EXCEPT !.status = loops[l].status]
    /\ Become(l, [loops[l] EXCEPT !.pc = IF loops[l].resume THEN "open" ELSE "enqueue",
                                  !.cand = task.cand])
    /\ UNCHANGED <<journal, manifest, active, bundle, budget>> /\ Surroundings

\* An OrchestrationError before or during the hand-over: enqueued = False.
NotEnqueued(l) ==
    Become(l, [loops[l] EXCEPT !.pc = "failover", !.whole = TRUE, !.result = FreshResult])

\* strategy.enqueue finds nothing to ask this candidate for, or starts.
StartEnqueue(l) ==
    /\ At(l, "enqueue")
    /\ \/ NotEnqueued(l) /\ UNCHANGED task
       \/ /\ task' = [task EXCEPT !.status = "downloading"]
          /\ Goto(l, "create")
    /\ UNCHANGED <<journal, manifest, active, bundle, budget>> /\ Surroundings

CreateAttempt(l) ==
    /\ At(l, "create")
    /\ journal' = Inserted(journal, loops[l].cand, loops[l].cand, Created)
    /\ Become(l, [loops[l] EXCEPT !.pc = "manifest", !.attempt = Len(journal')])
    /\ UNCHANGED <<task, manifest, active, bundle, budget>> /\ Surroundings

\* Mutant: the manifest names the row after the one inserted.
WriteManifestAhead(l) ==
    /\ At(l, "manifest")
    /\ manifest' = [cand |-> loops[l].cand,
                    attempt |-> IF Source = "usenet" THEN loops[l].attempt + 1 ELSE 0]
    /\ Goto(l, "submit")
    /\ UNCHANGED <<task, journal, active, bundle, budget>> /\ Surroundings

\* The manifest replaces the previous candidate's only now.
WriteManifest(l) ==
    /\ At(l, "manifest")
    /\ manifest' = [cand |-> loops[l].cand,
                    attempt |-> IF Source = "usenet" THEN loops[l].attempt ELSE 0]
    /\ Goto(l, "submit")
    /\ UNCHANGED <<task, journal, active, bundle, budget>> /\ Surroundings

\* client.enqueue: accepted, refused, or unreachable (and then waited out).
Submit(l) ==
    /\ At(l, "submit")
    /\ \/ Goto(l, "handle") /\ UNCHANGED budget
       \/ NotEnqueued(l) /\ UNCHANGED budget
       \/ /\ budget.outages > 0
          /\ budget' = [budget EXCEPT !.outages = @ - 1]
          /\ Goto(l, "outage")
    /\ UNCHANGED <<task, journal, manifest, active, bundle>> /\ Surroundings

WaitOutage(l) ==
    /\ At(l, "outage")
    /\ IF task.status = "cancelled" THEN Done(l)
       ELSE Goto(l, "enqueue") /\ UNCHANGED active
    /\ UNCHANGED <<task, journal, manifest, bundle, budget>> /\ Surroundings

\* update_download_attempt_handle, then the manifest again; a ValueError or a
\* staging directory that is gone goes to the safe runner.
StoreHandle(l) ==
    LET a == loops[l].attempt IN
    /\ At(l, "handle")
    /\ IF HandleUpdatable(journal[a].row)
       THEN /\ journal' = [journal EXCEPT ![a].row = HandleUpdated(@)]
            /\ Become(l, [loops[l] EXCEPT
                  !.pc = IF manifest = NoManifest THEN "fail" ELSE "open"])
       ELSE Goto(l, "fail") /\ UNCHANGED journal
    /\ UNCHANGED <<task, manifest, active, bundle, budget>> /\ Surroundings

\* _poll_until_done reads the manifest once and polls by its handle.
OpenPoll(l) ==
    /\ At(l, "open")
    /\ Become(l, [loops[l] EXCEPT !.pc = IF manifest = NoManifest THEN "fail" ELSE "poll",
                                  !.handle = manifest.cand])
    /\ UNCHANGED <<task, journal, manifest, active, bundle, budget>> /\ Surroundings

\* update_progress: bytes, once there, are not taken back.
Progressed(t) == {[t EXCEPT !.polled = TRUE, !.bytes = b] : b \in {t.bytes, TRUE}}

\* One round that goes on.
PollProgress(l) ==
    /\ At(l, "poll")
    /\ task.status # "cancelled"
    /\ task' \in Progressed(task)
    /\ UNCHANGED <<journal, manifest, loops, active, bundle, budget>> /\ Surroundings

\* The round that ends it: the task was cancelled, the client raised, or the
\* transfer is over or given up by a watchdog.
PollDone(l) ==
    /\ At(l, "poll")
    /\ IF task.status = "cancelled"
       THEN Done(l) /\ UNCHANGED task
       ELSE /\ UNCHANGED active
            /\ \/ Goto(l, "fail") /\ UNCHANGED task
               \/ /\ task' \in Progressed(task)
                  /\ \E whole \in BOOLEAN :
                        Become(l, [loops[l] EXCEPT !.pc = "recheck", !.whole = whole])
    /\ UNCHANGED <<journal, manifest, bundle, budget>> /\ Surroundings

\* The cancel re-check, then on to the import; or, where a preferred peer only
\* has us queued, to a peer of lower quality, unless there is none or bytes have
\* come meanwhile.
Recheck(l) ==
    /\ At(l, "recheck")
    /\ IF task.status = "cancelled" THEN Done(l)
       ELSE /\ UNCHANGED active
            /\ \/ Goto(l, "process")
               \/ /\ task.deadline /\ ~loops[l].whole /\ ~task.bytes
                  /\ \/ Goto(l, "keep")
                     \/ /\ Len(journal) < MaxFailover
                        /\ \E c \in Candidate :
                              /\ c > loops[l].cand
                              /\ Become(l, [loops[l] EXCEPT !.pc = "abort", !.pick = c,
                                                            !.result = FreshResult])
    /\ UNCHANGED <<task, journal, manifest, bundle, budget>> /\ Surroundings

\* Keep this transfer: no other peer is left, or its bytes are coming in.
KeepTransfer(l) ==
    /\ At(l, "keep")
    /\ \/ task' = [task EXCEPT !.status = "downloading", !.deadline = FALSE]
       \/ task' = [task EXCEPT !.polled = TRUE, !.bytes = TRUE]
    /\ Goto(l, "open")
    /\ UNCHANGED <<journal, manifest, active, bundle, budget>> /\ Surroundings

Process(l) ==
    /\ At(l, "process")
    /\ task' = [task EXCEPT !.status = "processing"]
    /\ Goto(l, "import")
    /\ UNCHANGED <<journal, manifest, active, bundle, budget>> /\ Surroundings

\* What follows an import: a hold, a local fault or a complete download ends
\* the task; anything else fails over.
AfterImport(state, result) ==
    {[state EXCEPT !.pc = "finish", !.verdict = "failed", !.result = result],
     [state EXCEPT !.pc = "finish", !.verdict = "failed",
                   !.result = [result EXCEPT !.disposition = "preserve"]],
     [state EXCEPT !.pc = "finish", !.verdict = "completed", !.result = result],
     [state EXCEPT !.pc = "failover", !.result = result]}

\* _import_files up to the publication, if anything is left to publish.
ImportFiles(l) ==
    /\ At(l, "import")
    /\ \/ /\ manifest # NoManifest
          /\ bundle' = [bundle EXCEPT ![manifest.cand] = "publishing"]
          /\ Become(l, [loops[l] EXCEPT !.pc = "publish", !.handle = manifest.cand])
       \/ /\ manifest # NoManifest
          /\ \E d \in {"discard", "preserve"} :
             \E next \in AfterImport(loops[l], [disposition |-> d, bundles |-> {}]) :
                Become(l, next)
          /\ UNCHANGED bundle
       \/ Goto(l, "fail") /\ UNCHANGED bundle
    /\ UNCHANGED <<task, journal, manifest, active, budget>> /\ Surroundings

\* The publication ends; a failed one preserves the source and is not listed.
Published(c) ==
    {[disposition |-> d, bundles |-> {c}] : d \in {"discard", "preserve"}}
        \union {[disposition |-> "preserve", bundles |-> {}]}
EndPublication(l) ==
    LET c == loops[l].handle IN
    /\ loops[l].pc = "publish"
    /\ bundle' = [bundle EXCEPT ![c] = "settled"]
    /\ IF loops[l].killed THEN Done(l)
       ELSE /\ UNCHANGED active
            /\ \E result \in Published(c) :
               \E next \in AfterImport(loops[l], result) : Become(l, next)
    /\ UNCHANGED <<task, journal, manifest, budget>> /\ Surroundings

Finish(l) ==
    /\ At(l, "finish")
    /\ Finalize(loops[l].cand, loops[l].verdict, loops[l].result)
    /\ Become(l, [Off EXCEPT !.pc = "sweep"])
    /\ UNCHANGED <<manifest, active, bundle, budget>> /\ Surroundings

\* After the inline cleanup the staging directory goes.
RemoveStaging(l) ==
    /\ At(l, "sweep")
    /\ manifest' = NoManifest
    /\ Done(l)
    /\ UNCHANGED <<task, journal, bundle, budget>> /\ Surroundings

\* The library may already hold everything; else the next candidate, while the
\* quality gate finds one and attempts are left; else settle what there is.
Failover(l) ==
    /\ At(l, "failover")
    /\ \/ Become(l, [loops[l] EXCEPT !.pc = "finish", !.verdict = "completed",
                                     !.result = NoResult])
       \/ \E verdict \in {"partial", "failed"} :
             Become(l, [loops[l] EXCEPT !.pc = "finish", !.verdict = verdict])
       \/ /\ Len(journal) < MaxFailover
          /\ \E c \in Candidate :
                /\ c > loops[l].cand
                /\ Become(l, [loops[l] EXCEPT !.pc = "abort", !.pick = c])
    /\ UNCHANGED <<task, journal, manifest, active, bundle, budget>> /\ Surroundings

\* _abort_abandoned_transfer: only for slskd, and only while it may still run;
\* while slskd is unreachable a cancellation ends the wait.
AbortTransfer(l) ==
    /\ At(l, "abort")
    /\ \/ Goto(l, "schedule") /\ UNCHANGED active
       \/ /\ Source = "soulseek" /\ ~loops[l].whole
          /\ \/ Goto(l, "fail") /\ UNCHANGED active
             \/ task.status = "cancelled" /\ Done(l)
    /\ UNCHANGED <<task, journal, manifest, bundle, budget>> /\ Surroundings

\* Mutant: the attempt left behind is forgotten.
ScheduleAttemptNot(l) ==
    /\ At(l, "schedule")
    /\ Goto(l, "link")
    /\ UNCHANGED <<task, journal, manifest, active, bundle, budget>> /\ Surroundings

ScheduleAttempt(l) ==
    /\ At(l, "schedule")
    /\ ScheduleCleanup(loops[l].cand, loops[l].result)
    /\ Goto(l, "link")
    /\ UNCHANGED <<task, manifest, active, bundle, budget>> /\ Surroundings

\* link_picked_candidate.
LinkCandidate(l) ==
    /\ At(l, "link")
    /\ task' = [task EXCEPT !.cand = loops[l].pick]
    /\ Goto(l, "reset")
    /\ UNCHANGED <<journal, manifest, active, bundle, budget>> /\ Surroundings

Requeued(t) ==
    [t EXCEPT !.status = "queued", !.bytes = FALSE, !.deadline = Source = "soulseek"]

\* Mutant: round again without enqueueing.
ResetTransferPolls(l) ==
    /\ At(l, "reset")
    /\ task' = Requeued(task)
    /\ Become(l, [loops[l] EXCEPT !.pc = "open", !.cand = task.cand])
    /\ UNCHANGED <<journal, manifest, active, bundle, budget>> /\ Surroundings

\* _prepare_candidate_state(reset_transfer_state=True), and round again.
ResetTransfer(l) ==
    /\ At(l, "reset")
    /\ task' = Requeued(task)
    /\ Become(l, [loops[l] EXCEPT !.pc = "enqueue", !.cand = task.cand])
    /\ UNCHANGED <<journal, manifest, active, bundle, budget>> /\ Surroundings

Fail(l) ==
    /\ At(l, "fail")
    /\ FailPreserving
    /\ Done(l)
    /\ UNCHANGED <<manifest, bundle, budget>> /\ Surroundings

-----------------------------------------------------------------------------
(* Route handlers.  Each is one call at a time. *)

OpAt(h, pc) == op[h].pc = pc
OpGoto(h, pc) == op' = [op EXCEPT ![h].pc = pc]
OpSweeps(h) == op' = [op EXCEPT ![h] = [Idle EXCEPT !.pc = "sweep", !.at = op[h].at]]
\* Mutant: nobody takes the operation lock seriously.
FreeAlways(i) == TRUE

Free(i) == lock[i] = "free"

Return(h) ==
    /\ op' = [op EXCEPT ![h] = Idle]
    /\ lock' = [lock EXCEPT ![op[h].at] = "free"]
Outside == UNCHANGED <<instance, budget>>

\* Mutant: the handle is looked up and left alone.
OwnNone == {}

\* The coroutine this instance has a handle of.
Own == IF active = NoLoop THEN {} ELSE {active}

\* Those loops are cancelled.
Stop(S) ==
    /\ loops' = Killed(S)
    /\ active' = IF active \in S /\ loops'[active].pc = "off" THEN NoLoop ELSE active

\* cancel_task: the coroutine this instance knows of is stopped and awaited
\* before the operation lock is taken.
CancelTask ==
    /\ budget.cancels > 0
    /\ OpAt("cancel", "idle")
    /\ op' = [op EXCEPT !["cancel"] = [Idle EXCEPT !.pc = "wait", !.at = instance]]
    /\ Stop(Own)
    /\ budget' = [budget EXCEPT !.cancels = @ - 1]
    /\ UNCHANGED <<task, journal, manifest, lock, instance, bundle>>

\* The killed coroutine has ended; take the lock.
CancelLocked ==
    LET i == op["cancel"].at IN
    /\ OpAt("cancel", "wait")
    /\ \A l \in Loop : ~loops[l].killed
    /\ Free(i)
    /\ lock' = [lock EXCEPT ![i] = "cancel"]
    /\ OpGoto("cancel", "bundles")
    /\ UNCHANGED <<task, journal, manifest, loops, active, bundle>> /\ Outside

\* Which publications read this task's bytes.
CancelReadsBundles ==
    /\ OpAt("cancel", "bundles")
    /\ journal' = IF manifest = NoManifest THEN journal ELSE Adopted(task.cand)
    /\ op' = [op EXCEPT !["cancel"] =
                 [@ EXCEPT !.pc = "write",
                           !.bundles = {c \in Candidate : bundle[c] # "none"}]]
    /\ UNCHANGED <<task, manifest, loops, active, lock, bundle>> /\ Outside

\* cancel_task_and_schedule_attempts.
CancelWrites ==
    /\ OpAt("cancel", "write")
    /\ task' = [task EXCEPT !.status = "cancelled"]
    /\ \E d \in {"discard", "preserve"} :  \* preserve: the barriers are unknown
          journal' = [a \in DOMAIN journal |->
                        IF Schedulable(journal[a].row)
                        THEN [journal[a] EXCEPT !.row = Scheduled(@, d,
                                IF d = "discard" THEN op["cancel"].bundles ELSE {})]
                        ELSE journal[a]]
    /\ OpSweeps("cancel")
    /\ UNCHANGED <<manifest, loops, active, lock, bundle>> /\ Outside

\* The end of a cancellation and of a re-import: the staging directory.
HandlerSweeps(h) ==
    /\ OpAt(h, "sweep")
    /\ manifest' = NoManifest
    /\ Return(h)
    /\ UNCHANGED <<task, journal, loops, active, bundle>> /\ Outside

\* try_next_source, up to the client's first answer.
NextSource ==
    /\ Source = "soulseek"
    /\ budget.switches > 0
    /\ OpAt("next", "idle") /\ Free(instance)
    /\ task.status = "downloading" /\ manifest # NoManifest
    /\ lock' = [lock EXCEPT ![instance] = "next"]
    /\ op' = [op EXCEPT !["next"] =
                 [Idle EXCEPT !.pc = "asked", !.at = instance, !.cand = task.cand]]
    /\ budget' = [budget EXCEPT !.switches = @ - 1]
    /\ UNCHANGED <<task, journal, manifest, loops, active, instance, bundle>>

\* Mutant: try_next_source stops nobody.
RunningNone == {}

RunningLoops == IF Own # {} THEN Own ELSE {l \in Loop : Alive(l)}

\* The transfer has started after all (nothing happened yet), or the coroutine
\* is stopped: the one this instance knows, else those of the registry.
NextStopsLoop ==
    /\ OpAt("next", "asked")
    /\ \/ Return("next") /\ UNCHANGED <<loops, active>>
       \/ /\ OpGoto("next", "check")
          /\ Stop(RunningLoops)
          /\ UNCHANGED lock
    /\ UNCHANGED <<task, journal, manifest, bundle>> /\ Outside

\* Mutant: the linked candidate is not compared again.
UnmovedLoosely == ~task.bytes

Unmoved == task.cand = op["next"].cand /\ ~task.bytes

\* The row and the client are asked again.  Where the row has moved on or has
\* bytes, or the client raises, the task is left to the coroutine that has just
\* been stopped; the other refusals, and an abort that fails, dispatch a new one.
NextChecks ==
    /\ OpAt("next", "check")
    /\ \A l \in Loop : ~loops[l].killed
    /\ \/ Return("next") /\ UNCHANGED <<task, loops, active>>
       \/ /\ Unmoved
          /\ \/ /\ task' \in {task} \union Progressed(task)
                /\ Dispatch("resume") /\ Return("next")
             \/ /\ Len(journal) < MaxFailover
                /\ \E c \in Candidate :
                      /\ c > task.cand
                      /\ op' = [op EXCEPT !["next"] =
                                   [@ EXCEPT !.pc = "schedule", !.attempt = c]]
                /\ UNCHANGED <<task, loops, active, lock>>
    /\ UNCHANGED <<journal, manifest, bundle>> /\ Outside

NextSchedules ==
    /\ OpAt("next", "schedule")
    /\ ScheduleCleanup(op["next"].cand, FreshResult)
    /\ OpGoto("next", "link")
    /\ UNCHANGED <<task, manifest, loops, active, lock, bundle>> /\ Outside

NextLinks ==
    /\ OpAt("next", "link")
    /\ task' = [task EXCEPT !.cand = op["next"].attempt]
    /\ OpGoto("next", "reset")
    /\ UNCHANGED <<journal, manifest, loops, active, lock, bundle>> /\ Outside

NextDispatches ==
    /\ OpAt("next", "reset")
    /\ task' = Requeued(task)
    /\ Dispatch("run")
    /\ Return("next")
    /\ UNCHANGED <<journal, manifest, bundle>> /\ Outside

\* Mutant: a cancelled task may be re-imported too.
ReimportAllowedAfterCancel == task.status \in {"failed", "partial", "cancelled"}

ReimportAllowed == task.status \in {"failed", "partial"}

\* reimport_task takes the candidate's attempt back; slskd may create one.
Reimport ==
    LET a == LatestOf(OfCandidate(task.cand)) IN
    /\ "reimport" \in Handlers
    /\ OpAt("reimport", "idle") /\ Free(instance)
    /\ ReimportAllowed
    /\ \/ /\ a # 0
          /\ Reimportable(journal[a].row)
          /\ journal' = [journal EXCEPT ![a].row = Reacquired(@)]
       \/ /\ a = 0 /\ Source = "soulseek"
          /\ journal' = Inserted(journal, task.cand, task.cand, HandleUpdated(Created))
    /\ lock' = [lock EXCEPT ![instance] = "reimport"]
    /\ op' = [op EXCEPT !["reimport"] =
                 [Idle EXCEPT !.pc = "status", !.at = instance, !.cand = task.cand,
                              !.attempt = IF a = 0 THEN Len(journal') ELSE a]]
    /\ UNCHANGED <<task, manifest, loops, active, bundle>> /\ Outside

ReimportProcesses ==
    /\ OpAt("reimport", "status")
    /\ task' = [task EXCEPT !.status = "processing"]
    /\ OpGoto("reimport", "import")
    /\ UNCHANGED <<journal, manifest, loops, active, lock, bundle>> /\ Outside

AfterReimport(state, result) ==
    {[state EXCEPT !.pc = "finish", !.verdict = v, !.result = result] :
        v \in {"completed", "partial", "failed"}}

\* Publish, find nothing to publish, or run into an exception.
ReimportImports ==
    LET c == op["reimport"].cand IN
    /\ OpAt("reimport", "import")
    /\ \/ /\ bundle' = [bundle EXCEPT ![c] = "publishing"]
          /\ OpGoto("reimport", "publish")
       \/ /\ \E d \in {"discard", "preserve"} :
             \E next \in AfterReimport(op["reimport"], [disposition |-> d, bundles |-> {}]) :
                op' = [op EXCEPT !["reimport"] = next]
          /\ UNCHANGED bundle
       \/ OpGoto("reimport", "preserve") /\ UNCHANGED bundle
    /\ UNCHANGED <<task, journal, manifest, loops, active, lock>> /\ Outside

ReimportPublishes ==
    LET c == op["reimport"].cand IN
    /\ OpAt("reimport", "publish")
    /\ bundle' = [bundle EXCEPT ![c] = "settled"]
    /\ \E result \in Published(c) : \E next \in AfterReimport(op["reimport"], result) :
          op' = [op EXCEPT !["reimport"] = next]
    /\ UNCHANGED <<task, journal, manifest, loops, active, lock>> /\ Outside

\* Mutant: the exception handler does not finalize.
ReimportPreservesOnly ==
    /\ OpAt("reimport", "preserve")
    /\ journal' = ScheduledIn(journal, op["reimport"].attempt, "preserve", {})
    /\ OpSweeps("reimport")
    /\ UNCHANGED <<task, manifest, loops, active, lock, bundle>> /\ Outside

\* The exception handler: preserve first, finalize without a result after.
ReimportPreserves ==
    /\ OpAt("reimport", "preserve")
    /\ journal' = ScheduledIn(journal, op["reimport"].attempt, "preserve", {})
    /\ op' = [op EXCEPT !["reimport"] = [@ EXCEPT !.pc = "finish", !.verdict = "failed",
                                                  !.result = NoResult]]
    /\ UNCHANGED <<task, manifest, loops, active, lock, bundle>> /\ Outside

\* _finalize with the manifest built from the row.
ReimportFinishes ==
    LET r == op["reimport"] IN
    /\ OpAt("reimport", "finish")
    /\ task' = [task EXCEPT !.status = r.verdict]
    /\ journal' = ScheduledIn(journal, r.attempt, r.result.disposition, r.result.bundles)
    /\ OpSweeps("reimport")
    /\ UNCHANGED <<manifest, loops, active, lock, bundle>> /\ Outside

Unowned == \A l \in Loop : ~Alive(l)

\* reap_stale_tasks: half an hour without a poll and no coroutine in sight.
ReapJudges ==
    /\ OpAt("reap", "idle")
    /\ task.status \in {"downloading", "processing"}
    /\ ~task.polled
    /\ Unowned
    /\ OpGoto("reap", "judged")
    /\ UNCHANGED <<task, journal, manifest, loops, active, lock, bundle>> /\ Outside

ReapFails ==
    /\ OpAt("reap", "judged")
    /\ FailPreserving
    /\ OpGoto("reap", "idle")
    /\ UNCHANGED <<manifest, loops, active, lock, bundle>> /\ Outside

-----------------------------------------------------------------------------
(* The rest of the world. *)

\* The cleanup service settles a row whose publications are settled.
CleanUp(a) ==
    /\ StateOf(a) = "cleanup_pending"
    /\ \A c \in journal[a].row.bundles : bundle[c] # "publishing"
    /\ journal' = [journal EXCEPT ![a].row = Completed(@)]
    /\ UNCHANGED <<task, manifest, loops, active, op, lock, bundle>> /\ Outside

\* Half an hour passes without a poll.
Idling ==
    /\ "reap" \in Handlers
    /\ task.polled
    /\ task' = [task EXCEPT !.polled = FALSE]
    /\ UNCHANGED <<journal, manifest, loops, active, op, lock, bundle>> /\ Outside

\* A settings save: the next request gets a new orchestrator, with no handles
\* and no locks, while the old coroutines run on.
RebuildOrchestrator ==
    /\ budget.rebuilds > 0
    /\ budget' = [budget EXCEPT !.rebuilds = @ - 1]
    /\ instance' = instance + 1
    /\ active' = NoLoop
    /\ UNCHANGED <<task, journal, manifest, loops, op, lock, bundle>>

\* Mutant: startup_resume forgets the tasks that were being imported.
InterruptedWaiting == {"queued", "downloading"}

Interrupted == Running

\* The process dies and comes back; startup_resume picks the task up again and
\* publications are recovered before that.
Crash ==
    /\ budget.crashes > 0
    /\ budget' = [budget EXCEPT !.crashes = @ - 1]
    /\ op' = [h \in Handler |-> Idle]
    /\ lock' = [i \in Instance |-> "free"]
    /\ bundle' = [c \in Candidate |-> IF bundle[c] = "none" THEN "none" ELSE "settled"]
    /\ IF task.status \in Interrupted
       THEN \E l \in Loop :
               /\ loops' = [[m \in Loop |-> Off] EXCEPT ![l] =
                             Dispatched(IF task.status = "queued" THEN "run" ELSE "resume")]
               /\ active' = l
       ELSE loops' = [l \in Loop |-> Off] /\ active' = NoLoop
    /\ UNCHANGED <<task, journal, manifest, instance>>

LoopStep(l) ==
    \/ ReadTask(l) \/ ResumeTask(l) \/ Prepare(l) \/ StartEnqueue(l)
    \/ CreateAttempt(l) \/ WriteManifest(l) \/ Submit(l) \/ WaitOutage(l)
    \/ StoreHandle(l) \/ OpenPoll(l) \/ PollDone(l) \/ Recheck(l)
    \/ KeepTransfer(l) \/ Process(l) \/ ImportFiles(l) \/ EndPublication(l)
    \/ Finish(l) \/ RemoveStaging(l) \/ Failover(l) \/ AbortTransfer(l)
    \/ ScheduleAttempt(l) \/ LinkCandidate(l) \/ ResetTransfer(l) \/ Fail(l)

HandlerStep ==
    \/ CancelLocked \/ CancelReadsBundles \/ CancelWrites
    \/ NextStopsLoop \/ NextChecks \/ NextSchedules \/ NextLinks \/ NextDispatches
    \/ ReimportProcesses \/ ReimportImports \/ ReimportPublishes
    \/ ReimportPreserves \/ ReimportFinishes \/ ReapFails
    \/ HandlerSweeps("cancel") \/ HandlerSweeps("reimport")

Next ==
    \/ \E l \in Loop : LoopStep(l) \/ PollProgress(l)
    \/ HandlerStep
    \/ CancelTask \/ NextSource \/ Reimport \/ ("reap" \in Handlers /\ ReapJudges)
    \/ \E a \in DOMAIN journal : CleanUp(a)
    \/ Idling \/ RebuildOrchestrator \/ Crash

Spec == Init /\ [][Next]_vars

\* Coroutines and handlers that can take a step take it; a poll ends at the
\* latest at its six hour ceiling.  Nobody has to cancel or re-import.
FairSpec ==
    /\ Spec
    /\ \A l \in Loop : WF_vars(LoopStep(l))
    /\ WF_vars(HandlerStep)

-----------------------------------------------------------------------------
(* Properties. *)

\* A task the user cancelled stays cancelled; the code re-checks for the
\* cancellation at several awaits "so we don't overwrite 'cancelled'".
CancelledIsFinal == [][task.status = "cancelled" => task.status' = "cancelled"]_vars

\* Somebody works on a task that is not over: a coroutine polls it, or a
\* handler that has taken it over will settle it or dispatch a coroutine.
SomebodyDrives ==
    task.status \in Running =>
        \/ \E l \in Loop : Alive(l)
        \/ \E h \in {"cancel", "next", "reimport"} : op[h].pc # "idle"

\* Never two at work on the task: two coroutines, or one and a re-import; one
\* that has finalized it only tidies up.
Drives(l) == Alive(l) /\ loops[l].pc # "sweep"
OneDriver ==
    /\ \A l, m \in Loop : Drives(l) /\ Drives(m) => l = m
    /\ op["reimport"].pc \notin {"idle", "sweep"} => \A l \in Loop : ~Drives(l)

\* A candidate's source is never up for deletion while a publication reads it,
\* unless the row names the publication and so makes the cleanup wait.
DiscardAwaitsPublication ==
    \A a \in DOMAIN journal :
        StateOf(a) \in {"cleanup_pending", "complete"}
            /\ bundle[journal[a].bytes] = "publishing"
        => StateOf(a) = "cleanup_pending" /\ journal[a].bytes \in journal[a].row.bundles

\* At most one attempt holds live work.
OneLiveAttempt == \A a, b \in Live : a = b

\* The transfer a coroutine polls and publishes is the one of the candidate its
\* task is linked to.
PollsOwnCandidate ==
    \A l \in Loop :
        loops[l].pc \in {"poll", "publish"} => loops[l].handle = loops[l].cand

\* Files are imported only while an attempt holds them, never from a source
\* that is already scheduled for deletion.
ImportsHeldBytes ==
    \A l \in Loop :
        loops[l].pc = "publish"
            => \E a \in Live : journal[a].bytes = loops[l].handle

Bytes(c, states) == \E a \in DOMAIN journal : journal[a].bytes = c /\ StateOf(a) \in states

\* Bytes preserved after a local fault are given up by a cancellation, or by a
\* re-import that has taken them back, and by nothing else.
PreservedBytesKept ==
    [][\A c \in Candidate :
          Bytes(c, {"preserved"}) /\ ~Bytes(c, {"cleanup_pending"})
              /\ Bytes(c, {"cleanup_pending"})'
          => task'.status = "cancelled"]_vars

\* A manual switch moves the task on from the peer the user saw, never from one
\* the coroutine has selected since ("a stale command cannot skip the newly
\* selected peer").
NextSkipsNobody == [][NextLinks => task.cand = op["next"].cand]_vars

\* A task is settled in the end, one way or another.
TaskSettles == []<>(task.status \in Terminal)
=============================================================================
