------------------------------ MODULE LibraryScan ------------------------------
(***************************************************************************)
(* The scan of one library root, beside the publisher that adds files to   *)
(* it. A run walks its scopes (discovering), reads the tags of what it     *)
(* found (indexing), and reconciles the catalogue with the inventory       *)
(* (reconciling); requests queue one follow-up run; a user pauses, resumes *)
(* and stops the run while the worker is in the middle of a phase.         *)
(*                                                                         *)
(* The publisher is reduced to what a scan sees of it (ImportPublication   *)
(* has the rest): files placed or undone, catalogue rows committed, and    *)
(* the revision of the root raised when the write lease is released. Fence *)
(* check, tag read and reconciliation batch hold a read lease, so they do  *)
(* not overlap a publication; the walk holds none. Revisions matter by     *)
(* equality only: "changed" says that the root's revision is no longer the *)
(* one read before the walk, "fence" compares it with the recorded one.    *)
(***************************************************************************)
EXTENDS Integers, FiniteSets

CONSTANTS
  NPaths,      \* paths of the root, in the order of relative_path
  NScopes,     \* scopes of a run, in the order they are walked
  MaxCrashes   \* bound on the process restarts

ASSUME ConstantsOK == NPaths \in Nat /\ NScopes \in Nat \ {0} /\ MaxCrashes \in Nat

Paths  == 1..NPaths
Scopes == 1..NScopes
ScopeOf(p)  == (p % NScopes) + 1
PathsOf(s)  == {p \in Paths : ScopeOf(p) = s}
WalkRetries == 3   \* walks of a scope, shared by time-outs and publications

VARIABLES
  shelf, catalog,          \* files of the root; rows of local_tracks by path
  pub,                     \* publisher: the path placed, the path replaced, how far
  fence, changed,          \* recorded scan revision, revision since the walk began
  state, resume_phase,     \* row of the current run
  queued,                  \* the durable follow-up: "no", "current" or "outdated" policy
  outdated,                \* the run's frozen policy revision is no longer current
  scope, inventory,        \* rows of the run: discovery_state, files found
  cursor, reconciled,      \* rows of the run: reconciliation cursor and state
  pc, at, todo, seen, degraded, restarts, tags, bad,   \* the worker's locals
  crashes,
  disturbed   \* history: files changed during the run, or it was resumed while the
              \* worker was still leaving it

files  == <<shelf, catalog, pub>>
run    == <<state, resume_phase, queued, outdated>>
rows   == <<scope, inventory, cursor, reconciled>>
walk   == <<todo, seen, degraded, restarts>>
locals == <<pc, at, walk, tags, bad>>
history == <<crashes, disturbed>>
vars   == <<files, fence, changed, run, rows, locals, history>>

Phases   == {"discovering", "indexing", "reconciling"}
Control  == {"pausing", "stopping"}
Active   == Phases \union Control \union {"paused"}
Terminal == {"completed", "cancelled", "failed", "superseded_policy_changed"}
PCs == {"idle", "discover", "walk", "stalled", "drained", "fence", "discovered",
        "index", "indexed", "reconcile", "reconciled"}

OnWalk == {"walk", "stalled", "drained", "fence"}   \* where "changed" is looked at

Init ==
  /\ shelf \in SUBSET Paths
  /\ catalog \in [Paths -> {"absent", "indexed", "missing"}]
  /\ pub = [step |-> "idle", new |-> {}, old |-> {}]
  /\ fence = "none" /\ changed = FALSE
  /\ state = "cancelled" /\ resume_phase = "none"
  /\ queued = "no" /\ outdated = FALSE
  /\ scope = [s \in Scopes |-> "pending"] /\ inventory = [p \in Paths |-> "none"]
  /\ cursor = [s \in Scopes |-> 0] /\ reconciled = [s \in Scopes |-> FALSE]
  /\ pc = "idle" /\ at = 1 /\ todo = {} /\ seen = {} /\ degraded = FALSE
  /\ restarts = 0 /\ tags = {} /\ bad = {}
  /\ crashes = 0 /\ disturbed = FALSE

--------------------------------------------------------------------------------
(* The publisher and the user's own hands on the files.                     *)

Publishing == pub.step # "idle"

\* Under the write lease the files go to their places, an old one may go away.
Place(p, old) ==
  /\ ~Publishing
  /\ old \subseteq shelf \ {p}
  /\ shelf' = (shelf \ old) \union {p}
  /\ pub' = [step |-> "placed", new |-> {p} \ shelf, old |-> old]
  /\ disturbed' = (state \in Active)
  /\ UNCHANGED <<catalog, fence, changed, run, rows, locals, crashes>>

Record ==
  /\ pub.step = "placed"
  /\ catalog' = [p \in Paths |->
       IF p \in pub.new THEN "indexed" ELSE IF p \in pub.old THEN "absent" ELSE catalog[p]]
  /\ pub' = [pub EXCEPT !.step = "recorded"]
  /\ UNCHANGED <<shelf, fence, changed, run, rows, locals, history>>

Undone == (shelf \ pub.new) \union pub.old

Undo ==
  /\ pub.step = "placed"
  /\ shelf' = Undone
  /\ pub' = [pub EXCEPT !.step = "undone"]
  /\ UNCHANGED <<catalog, fence, changed, run, rows, locals, history>>

\* release_write: the revision of the root is raised.
Release ==
  /\ pub.step \in {"recorded", "undone"}
  /\ pub' = [step |-> "idle", new |-> {}, old |-> {}]
  /\ changed' = (pc \in OnWalk)
  /\ fence' = IF fence = "none" THEN "none" ELSE "stale"
  /\ UNCHANGED <<shelf, catalog, run, rows, locals, history>>

Delete(p) ==
  /\ p \in shelf \ (pub.new \union pub.old)
  /\ shelf' = shelf \ {p}
  /\ disturbed' = (state \in Active)
  /\ UNCHANGED <<catalog, pub, fence, changed, run, rows, locals, crashes>>

--------------------------------------------------------------------------------
(* Requests and controls.                                                   *)

\* A request beside a queued run is coalesced with it, or refused.
request_scan_run ==
  /\ queued = "no"
  /\ queued' = "current"
  /\ UNCHANGED <<files, fence, changed, state, resume_phase, outdated, rows, locals, history>>

\* A new state of the run; the model drops the rows of a terminal run.
Becomes(new) ==
  /\ state' = new
  /\ IF new \in Terminal
     THEN /\ resume_phase' = "none" /\ outdated' = FALSE
          /\ scope' = [s \in Scopes |-> "pending"] /\ inventory' = [p \in Paths |-> "none"]
          /\ cursor' = [s \in Scopes |-> 0] /\ reconciled' = [s \in Scopes |-> FALSE]
          /\ disturbed' = FALSE
     ELSE UNCHANGED <<resume_phase, outdated, rows, disturbed>>

\* A terminal state forgets the fence.
Moves(new) ==
  /\ Becomes(new)
  /\ fence' = IF new \in Terminal THEN "none" ELSE fence

\* _settle_pending_control
Settled == CASE state = "pausing" -> "paused" [] state = "stopping" -> "cancelled"
             [] OTHER -> state

Pause ==
  /\ state \in Phases
  /\ state' = "pausing" /\ resume_phase' = state
  /\ UNCHANGED <<files, fence, changed, queued, outdated, rows, locals, history>>

Resume ==
  /\ state = "paused"
  /\ state' = resume_phase /\ resume_phase' = "none"
  /\ disturbed' = (disturbed \/ pc # "idle")
  /\ UNCHANGED <<files, fence, changed, queued, outdated, rows, locals, crashes>>

Stop ==
  /\ state \in Phases \union {"pausing", "paused"}
  /\ Moves(IF state = "paused" THEN "cancelled" ELSE "stopping")
  /\ UNCHANGED <<files, changed, queued, locals, crashes>>

StopQueued ==
  /\ queued # "no"
  /\ queued' = "no"
  /\ UNCHANGED <<files, fence, changed, state, resume_phase, outdated, rows, locals, history>>

\* The library policy is saved: runs carry the revision they were requested with.
ChangePolicy ==
  /\ outdated' = (outdated \/ state \in Active)
  /\ queued' = IF queued = "no" THEN "no" ELSE "outdated"
  /\ UNCHANGED <<files, fence, changed, state, resume_phase, rows, locals, history>>

--------------------------------------------------------------------------------
(* The worker: run_once, phase by phase.                                    *)

Goto(next) == pc' = next /\ at' = 1 /\ tags' = {} /\ bad' = {}
OffWalk == todo' = {} /\ seen' = {} /\ degraded' = FALSE /\ restarts' = 0 /\ changed' = FALSE

\* Mutant: a control that ends the phase is not settled.
ReturnUnsettled == /\ Goto("idle") /\ OffWalk
                   /\ UNCHANGED <<files, fence, run, rows, history>>

\* The worker leaves the run, in the state it finds or settles.
Return == /\ Moves(Settled)
          /\ Goto("idle") /\ OffWalk
          /\ UNCHANGED <<files, queued, crashes>>

\* Any other error of the worker ends the run, unless a control came first.
WorkerFails ==
  /\ pc # "idle"
  /\ Moves(IF state \in Phases THEN "failed" ELSE Settled)
  /\ Goto("idle") /\ OffWalk
  /\ UNCHANGED <<files, queued, crashes>>

\* transition_scan_run to "failed": refused when a control came first, which the
\* handler of run_once then settles.
Fails == /\ Moves("failed")
         /\ Goto("discovered") /\ OffWalk
         /\ UNCHANGED <<files, queued, crashes>>

FailRun == IF state = "discovering" THEN Fails ELSE Return

\* Mutant: a run that failed or was superseded blocks the next one.
claim_next_scan_runAfterSuccess ==
  /\ pc = "idle" /\ state \in {"completed", "cancelled"} /\ queued # "no"
  /\ state' = "discovering"
  /\ outdated' = (queued = "outdated") /\ queued' = "no"
  /\ Goto("discover")
  /\ disturbed' = Publishing
  /\ UNCHANGED <<files, fence, changed, resume_phase, rows, walk, crashes>>

claim_next_scan_run ==
  /\ pc = "idle" /\ state \in Terminal /\ queued # "no"
  /\ state' = "discovering"
  /\ outdated' = (queued = "outdated") /\ queued' = "no"
  /\ Goto("discover")
  /\ disturbed' = Publishing
  /\ UNCHANGED <<files, fence, changed, resume_phase, rows, walk, crashes>>

\* A new generation for the scopes in S: what they found before is out of sight.
NewGeneration(S) ==
  /\ scope' = [s \in Scopes |-> IF s \in S THEN "pending" ELSE scope[s]]
  /\ inventory' = [p \in Paths |-> IF ScopeOf(p) \in S THEN "none" ELSE inventory[p]]
  /\ UNCHANGED <<cursor, reconciled>>

\* get_resumable_scan_run, prepare_scan_discovery_resume
ResumeRun ==
  /\ pc = "idle" /\ state \in Phases
  /\ Goto(CASE state = "discovering" -> "discover" [] state = "indexing" -> "index"
            [] state = "reconciling" -> "reconcile")
  /\ IF state = "discovering" THEN NewGeneration({s \in Scopes : scope[s] # "completed"})
     ELSE UNCHANGED rows
  /\ UNCHANGED <<files, fence, changed, run, walk, history>>

\* checkpoint() says no and has settled the run by itself, or superseded it; the
\* phase unwinds and reads the run's state again later.
Interrupted(here, next) ==
  /\ pc = here
  /\ outdated \/ state \in Control
  /\ Moves(IF outdated /\ state \in Phases \union {"pausing", "paused"}
           THEN "superseded_policy_changed" ELSE Settled)
  /\ pc' = next
  /\ tags' = {} /\ bad' = {}
  /\ UNCHANGED <<files, changed, queued, at, walk, crashes>>

Checkpoint ==
  \/ Interrupted("discover", "discovered")
  \/ Interrupted("walk", "drained")
  \/ Interrupted("stalled", "drained")
  \/ Interrupted("index", "indexed")
  \/ Interrupted("indexed", "idle")
  \/ Interrupted("reconcile", "reconciled")
  \/ Interrupted("reconciled", "idle")

--------------------------------------------------------------------------------
(* Discovery.                                                               *)

ToWalk == pc = "discover" /\ at \in Scopes /\ scope[at] # "completed"

NextScope ==
  /\ pc = "discover" /\ at \in Scopes /\ scope[at] = "completed"
  /\ at' = at + 1
  /\ UNCHANGED <<files, fence, changed, run, rows, pc, walk, tags, bad, history>>

RootUnavailable ==
  /\ ToWalk
  /\ scope' = [scope EXCEPT ![at] = "unavailable"]
  /\ at' = at + 1
  /\ UNCHANGED <<files, fence, changed, run, inventory, cursor, reconciled, pc, walk,
                 tags, bad, history>>

ProbeTimesOut == ToWalk /\ FailRun

StartWalk(n) ==
  /\ pc' = "walk" /\ restarts' = n
  /\ todo' = PathsOf(at) /\ seen' = {} /\ degraded' = FALSE
  /\ changed' = FALSE
  /\ UNCHANGED <<at, tags, bad>>

BeginWalk ==
  /\ ToWalk
  /\ StartWalk(0)
  /\ UNCHANGED <<files, fence, run, rows, history>>

\* The directories are read one after the other while files come and go.
WalkFile(p) ==
  /\ pc = "walk" /\ p \in todo
  /\ todo' = todo \ {p}
  /\ seen' = IF p \in shelf THEN seen \union {p} ELSE seen
  /\ UNCHANGED <<files, fence, changed, run, rows, pc, at, degraded, restarts, tags, bad,
                 history>>

WalkDegrades(p) ==
  /\ pc = "walk" /\ p \in todo
  /\ todo' = todo \ {p}
  /\ degraded' = TRUE
  /\ UNCHANGED <<files, fence, changed, run, rows, pc, at, seen, restarts, tags, bad, history>>

WalkTimesOut ==
  /\ pc = "walk" /\ todo # {}
  /\ scope' = [scope EXCEPT ![at] = "partially_read"]
  /\ pc' = "stalled" /\ todo' = {} /\ seen' = {} /\ degraded' = FALSE
  /\ UNCHANGED <<files, fence, changed, run, inventory, cursor, reconciled, at, restarts,
                 tags, bad, history>>

\* Mutant: the walk is retried without a bound.
RetryWalkForEver ==
  /\ pc = "stalled" /\ state = "discovering"
  /\ StartWalk(restarts + 1)
  /\ NewGeneration({at})
  /\ UNCHANGED <<files, fence, run, history>>

RetryWalk ==
  /\ pc = "stalled" /\ restarts < WalkRetries - 1 /\ state = "discovering"
  /\ StartWalk(restarts + 1)
  /\ NewGeneration({at})
  /\ UNCHANGED <<files, fence, run, history>>

GiveUpWalk == pc = "stalled" /\ restarts >= WalkRetries - 1 /\ FailRun

\* The walk was interrupted. A run that is "discovering" all the same has failed.
Drain ==
  /\ pc = "drained"
  /\ IF state = "discovering" THEN Fails
     ELSE /\ scope' = IF state \in Terminal THEN scope
                      ELSE [scope EXCEPT ![at] = "partially_read"]
          /\ Goto("discovered") /\ OffWalk
          /\ UNCHANGED <<files, fence, run, inventory, cursor, reconciled, history>>

\* add_scan_inventory_batch: an inventory row per file, classified against the
\* catalogue; refused when a control changed the run. Batches written earlier in
\* the walk are out of sight unless the walk ends, so the model writes one.
PersistInventory ==
  /\ pc = "walk" /\ todo = {}
  /\ IF state = "discovering" \/ seen = {}
     THEN /\ \E new \in [seen -> {"read", "unchanged"}] :
               /\ \A p \in seen : catalog[p] = "absent" => new[p] = "read"
               /\ inventory' = [p \in Paths |-> IF p \in seen THEN new[p] ELSE inventory[p]]
          /\ pc' = "fence" /\ seen' = {}
          /\ UNCHANGED <<files, fence, changed, run, scope, cursor, reconciled, at, todo,
                         degraded, restarts, tags, bad, history>>
     ELSE Return

\* Mutant: the revision is read after the walk.
CheckFenceLate ==
  /\ pc = "fence" /\ ~Publishing
  /\ scope' = [scope EXCEPT ![at] = IF degraded THEN "partially_read" ELSE "completed"]
  /\ fence' = IF degraded THEN fence ELSE "current"
  /\ pc' = "discover" /\ at' = at + 1 /\ OffWalk
  /\ UNCHANGED <<inventory, cursor, reconciled, tags, bad, files, run, history>>

\* Under a read lease: did a publication end since the walk began?
CheckFence ==
  /\ pc = "fence" /\ ~Publishing
  /\ IF changed /\ restarts + 1 < WalkRetries
     THEN /\ StartWalk(restarts + 1)
          /\ NewGeneration({at})
          /\ UNCHANGED fence
     ELSE /\ scope' = [scope EXCEPT ![at] =
                         IF changed \/ degraded THEN "partially_read" ELSE "completed"]
          /\ fence' = IF changed \/ degraded THEN fence ELSE "current"
          /\ pc' = "discover" /\ at' = at + 1 /\ OffWalk
          /\ UNCHANGED <<inventory, cursor, reconciled, tags, bad>>
  /\ UNCHANGED <<files, run, history>>

EndScopes ==
  /\ pc = "discover" /\ at \notin Scopes
  /\ IF \A s \in Scopes : scope[s] = "unavailable"
     THEN FailRun
     ELSE Goto("discovered") /\ UNCHANGED <<files, fence, changed, run, rows, walk, history>>

\* Mutant: the phase ends without a look at the state of the run.
EndPhaseBlindly(here, phase, next, nextpc) ==
  /\ pc = here
  /\ Moves(next)
  /\ Goto(nextpc)
  /\ UNCHANGED <<files, changed, queued, walk, crashes>>

\* A phase is over, or was interrupted: the state of the run decides.
EndPhase(here, phase, next, nextpc) ==
  /\ pc = here
  /\ IF state = phase
     THEN /\ Moves(next)
          /\ Goto(nextpc)
          /\ UNCHANGED <<files, changed, queued, walk, crashes>>
     ELSE Return

EndDiscovery   == EndPhase("discovered", "discovering", "indexing", "index")
EndIndexing    == EndPhase("indexed", "indexing", "reconciling", "reconcile")
EndReconciling == EndPhase("reconciled", "reconciling", "completed", "idle")

--------------------------------------------------------------------------------
(* Indexing: a batch of files is read, each under a read lease, then written.*)

Pending == {p \in Paths : inventory[p] \in {"read", "unchanged"}}

ReadTags(p) ==
  /\ pc = "index" /\ inventory[p] = "read" /\ p \notin tags \union bad
  /\ ~Publishing
  /\ \/ p \in shelf /\ tags' = tags \union {p} /\ UNCHANGED bad
     \/ bad' = bad \union {p} /\ UNCHANGED tags
  /\ UNCHANGED <<files, fence, changed, run, rows, pc, at, walk, history>>

\* The end of a batch is the end of the inventory or a matter of its size.
commit_scan_index_batch ==
  /\ pc = "index"
  /\ \E p \in Pending : inventory[p] = "unchanged" \/ p \in tags \union bad
  /\ inventory' = [p \in Paths |->
       IF p \in tags \/ inventory[p] = "unchanged" THEN "done"
       ELSE IF p \in bad THEN "failed" ELSE inventory[p]]
  /\ catalog' = [p \in Paths |-> IF p \in tags THEN "indexed" ELSE catalog[p]]
  /\ tags' = {} /\ bad' = {}
  /\ UNCHANGED <<shelf, pub, fence, changed, run, scope, cursor, reconciled, pc, at, walk,
                 history>>

EndInventory ==
  /\ pc = "index" /\ Pending = {}
  /\ Goto("indexed")
  /\ UNCHANGED <<files, fence, changed, run, rows, walk, history>>

--------------------------------------------------------------------------------
(* Reconciliation, one row of the catalogue at a time, under a read lease.  *)

\* Mutant: tracks are marked missing under a recorded fence only.
allow_missingRecorded == fence = "current"

\* scan_revision(): a fence nobody recorded is taken to be the current revision.
allow_missing == fence # "stale"

Ahead(s) == {p \in PathsOf(s) : p > cursor[s] /\ catalog[p] # "absent"}

EndScope ==
  /\ pc = "reconcile" /\ at \in Scopes /\ ~Publishing
  /\ scope[at] # "completed" \/ Ahead(at) = {}
  /\ reconciled' = [reconciled EXCEPT ![at] = @ \/ scope[at] = "completed"]
  /\ at' = at + 1
  /\ UNCHANGED <<files, fence, changed, run, scope, inventory, cursor, pc, walk, tags, bad,
                 history>>

reconcile_scan_scope_batch(p) ==
  /\ pc = "reconcile" /\ at \in Scopes /\ ~Publishing
  /\ scope[at] = "completed"
  /\ p \in Ahead(at) /\ \A q \in Ahead(at) : p <= q
  /\ catalog' = [catalog EXCEPT ![p] =
       IF inventory[p] # "none" THEN "indexed" ELSE IF allow_missing THEN "missing" ELSE @]
  /\ cursor' = [cursor EXCEPT ![at] = p]
  /\ UNCHANGED <<shelf, pub, fence, changed, run, scope, inventory, reconciled, pc, at, walk,
                 tags, bad, history>>

EndReconcile ==
  /\ pc = "reconcile" /\ at \notin Scopes
  /\ Goto("reconciled")
  /\ UNCHANGED <<files, fence, changed, run, rows, walk, history>>

--------------------------------------------------------------------------------
\* The process dies. Recovery undoes an uncommitted publication, settles the
\* controls and leaves the run to the worker; the fence was only in memory.
Restart ==
  /\ crashes < MaxCrashes
  /\ crashes' = crashes + 1
  /\ IF pub.step = "placed" THEN shelf' = Undone ELSE UNCHANGED shelf
  /\ pub' = [step |-> "idle", new |-> {}, old |-> {}]
  /\ fence' = "none"
  /\ Becomes(Settled)
  /\ Goto("idle") /\ OffWalk
  /\ UNCHANGED <<catalog, queued>>

Work ==
  \/ claim_next_scan_run \/ ResumeRun \/ Checkpoint \/ WorkerFails
  \/ NextScope \/ RootUnavailable \/ ProbeTimesOut \/ BeginWalk
  \/ (\E p \in Paths : WalkFile(p) \/ WalkDegrades(p))
  \/ WalkTimesOut \/ RetryWalk \/ GiveUpWalk \/ Drain \/ PersistInventory \/ CheckFence
  \/ EndScopes \/ EndDiscovery
  \/ (\E p \in Paths : ReadTags(p)) \/ commit_scan_index_batch \/ EndInventory \/ EndIndexing
  \/ (\E p \in Paths : reconcile_scan_scope_batch(p))
  \/ EndScope \/ EndReconcile \/ EndReconciling

Publisher ==
  \/ Record \/ Undo \/ Release
  \/ \E p \in Paths, old \in SUBSET Paths : Place(p, old)

User ==
  \/ request_scan_run \/ Pause \/ Resume \/ Stop \/ StopQueued \/ ChangePolicy
  \/ \E p \in Paths : Delete(p)

Next == Work \/ Publisher \/ User \/ Restart

Spec == Init /\ [][Next]_vars

\* The worker goes on unless publications keep its leases from it for ever, and a
\* publication that has begun ends.
FairSpec == Spec /\ SF_vars(Work) /\ WF_vars(Record \/ Undo) /\ WF_vars(Release)

--------------------------------------------------------------------------------
\* The rows, the fence and the worker's locals keep their types; a scope is walked at
\* most three times, however time-outs and publications share the retries.
TypeOK ==
  /\ shelf \in SUBSET Paths
  /\ catalog \in [Paths -> {"absent", "indexed", "missing"}]
  /\ pub \in [step: {"idle", "placed", "recorded", "undone"},
              new: SUBSET Paths, old: SUBSET Paths]
  /\ fence \in {"none", "current", "stale"} /\ changed \in BOOLEAN
  /\ state \in Active \union Terminal /\ resume_phase \in Phases \union {"none"}
  /\ queued \in {"no", "current", "outdated"} /\ outdated \in BOOLEAN
  /\ scope \in [Scopes -> {"pending", "completed", "partially_read", "unavailable"}]
  /\ inventory \in [Paths -> {"none", "read", "unchanged", "done", "failed"}]
  /\ cursor \in [Scopes -> 0..NPaths] /\ reconciled \in [Scopes -> BOOLEAN]
  /\ pc \in PCs /\ at \in 1..NScopes + 1
  /\ todo \subseteq Paths /\ seen \subseteq Paths /\ degraded \in BOOLEAN
  /\ restarts \in 0..WalkRetries - 1
  /\ tags \subseteq Paths /\ bad \subseteq Paths
  /\ crashes \in 0..MaxCrashes /\ disturbed \in BOOLEAN

Lost(p) == catalog[p] # "missing" /\ catalog'[p] = "missing"

\* A track is marked missing only when its file is gone, however publications run
\* beside the scan.
MissingIsGone == [][\A p \in Paths : Lost(p) => p \notin shelf]_vars

\* The same, as far as the fence goes: with a revision on record, no publication
\* between the walk and the reconciliation makes a scan miss its files.
FencedMissingIsGone ==
  [][\A p \in Paths : Lost(p) /\ fence # "none" => p \notin shelf]_vars

\* A run that completes over whole scopes, with nobody else at the files, leaves the
\* catalogue equal to the shelf, whatever it went through: time-outs, pauses, restarts.
CompletedAgrees ==
  [][state # "completed" /\ state' = "completed" /\ ~disturbed
     /\ (\A s \in Scopes : scope[s] = "completed") /\ (\A p \in Paths : inventory[p] # "failed")
     => \A p \in Paths : catalog[p] = "indexed" <=> p \in shelf]_vars

\* A stop is obeyed: no step of the worker overtakes it with another end.
StopWins == [][state = "stopping" => state' \in {"stopping", "cancelled"}]_vars

\* A run that is paused or stopped while the worker has it comes to rest.
ControlObeyed == pc # "idle" /\ state \in Control ~> state \notin Control

\* A request made during a run gets a run of its own, unless a user keeps the active
\* run paused (or stops the request).
RequestServed == queued # "no" ~> queued = "no" \/ state \in Control \union {"paused"}
================================================================================
