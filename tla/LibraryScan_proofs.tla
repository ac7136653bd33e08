--------------------------- MODULE LibraryScan_proofs ---------------------------
(* Theorems about LibraryScan, for every number of paths and restarts.      *)
EXTENDS LibraryScan, TLAPS

--------------------------------------------------------------------------------
(* Types, in the pieces that the actions change together.                   *)

FilesType ==
  /\ shelf \in SUBSET Paths
  /\ catalog \in [Paths -> {"absent", "indexed", "missing"}]
  /\ pub \in [step: {"idle", "placed", "recorded", "undone"},
              new: SUBSET Paths, old: SUBSET Paths]

FenceType == fence \in {"none", "current", "stale"}

RunType ==
  /\ state \in Active \union Terminal /\ resume_phase \in Phases \union {"none"}
  /\ queued \in {"no", "current", "outdated"} /\ outdated \in BOOLEAN
  /\ state \in {"pausing", "paused"} => resume_phase \in Phases

RowsType ==
  /\ scope \in [Scopes -> {"pending", "completed", "partially_read", "unavailable"}]
  /\ inventory \in [Paths -> {"none", "read", "unchanged", "done", "failed"}]
  /\ cursor \in [Scopes -> 0..NPaths] /\ reconciled \in [Scopes -> BOOLEAN]

WalkType ==
  /\ todo \subseteq Paths /\ seen \subseteq Paths /\ degraded \in BOOLEAN
  /\ restarts \in 0..WalkRetries - 1 /\ changed \in BOOLEAN

WorkerType ==
  /\ pc \in PCs /\ at \in 1..NScopes + 1
  /\ tags \subseteq Paths /\ bad \subseteq Paths
  /\ pc \in OnWalk => at \in Scopes

HistoryType == crashes \in 0..MaxCrashes /\ disturbed \in BOOLEAN

TypeInv == FilesType /\ FenceType /\ RunType /\ RowsType /\ WalkType /\ WorkerType /\ HistoryType

LEMMA TypeInvTypes == TypeInv => TypeOK
  BY DEF TypeInv, FilesType, FenceType, RunType, RowsType, WalkType, WorkerType,
     HistoryType, TypeOK

\* The first member of each range.
LEMMA Zeroes ==
  /\ 0 \in 0..WalkRetries - 1 /\ 0 \in 0..MaxCrashes /\ 0 \in 0..NPaths
  /\ 1 \in Scopes /\ 1 \in 1..NScopes + 1
  BY ConstantsOK DEF WalkRetries, Scopes

LEMMA InitTypes == Init => TypeInv
  <1> SUFFICES ASSUME Init PROVE TypeInv
    OBVIOUS
  <1> USE Zeroes DEF Init
  <1>1. FilesType /\ FenceType
    BY DEF FilesType, FenceType
  <1>2. RunType /\ HistoryType
    BY DEF RunType, HistoryType, Active, Terminal, Phases, Control
  <1>3. RowsType
    BY DEF RowsType
  <1>4. WalkType
    BY DEF WalkType
  <1>5. WorkerType
    BY DEF WorkerType, PCs, OnWalk
  <1> QED
    BY <1>1, <1>2, <1>3, <1>4, <1>5 DEF TypeInv

\* What a step leaves alone keeps its type.
LEMMA Frames ==
  ASSUME TypeInv
  PROVE  /\ UNCHANGED files => FilesType'
         /\ UNCHANGED fence => FenceType'
         /\ UNCHANGED run => RunType'
         /\ UNCHANGED rows => RowsType'
         /\ UNCHANGED <<walk, changed>> => WalkType'
         /\ UNCHANGED <<pc, at, tags, bad>> => WorkerType'
         /\ UNCHANGED history => HistoryType'
  <1>1. UNCHANGED files => FilesType'
    BY DEF TypeInv, FilesType, files
  <1>2. UNCHANGED fence => FenceType'
    BY DEF TypeInv, FenceType
  <1>3. UNCHANGED run => RunType'
    BY DEF TypeInv, RunType, run
  <1>4. UNCHANGED rows => RowsType'
    BY DEF TypeInv, RowsType, rows
  <1>5. UNCHANGED <<walk, changed>> => WalkType'
    BY DEF TypeInv, WalkType, walk
  <1>6. UNCHANGED <<pc, at, tags, bad>> => WorkerType'
    BY DEF TypeInv, WorkerType
  <1>7. UNCHANGED history => HistoryType'
    BY DEF TypeInv, HistoryType, history
  <1> QED
    BY <1>1, <1>2, <1>3, <1>4, <1>5, <1>6, <1>7

\* A new state of the run.
LEMMA BecomesTypes ==
  ASSUME TypeInv, NEW new \in Active \union Terminal, Becomes(new), UNCHANGED queued,
         new \in {"pausing", "paused"} => state \in {"pausing", "paused"}
  PROVE  RunType' /\ RowsType' /\ disturbed' \in BOOLEAN
  <1>1. RunType'
    BY DEF TypeInv, RunType, Becomes, Active, Terminal, Phases, Control
  <1>2. RowsType'
    <2>1. CASE new \in Terminal
      BY <2>1, Zeroes DEF Becomes, RowsType
    <2>2. CASE new \notin Terminal
      BY <2>2 DEF Becomes, TypeInv, RowsType, rows
    <2> QED
      BY <2>1, <2>2
  <1> QED
    BY <1>1, <1>2 DEF Becomes, TypeInv, HistoryType

LEMMA MovesTypes ==
  ASSUME TypeInv, NEW new \in Active \union Terminal, Moves(new), UNCHANGED <<queued, crashes>>,
         new \in {"pausing", "paused"} => state \in {"pausing", "paused"}
  PROVE  RunType' /\ RowsType' /\ HistoryType' /\ FenceType'
  BY BecomesTypes DEF Moves, TypeInv, HistoryType, FenceType

LEMMA SettledTypes ==
  ASSUME TypeInv
  PROVE  /\ Settled \in Active \union Terminal
         /\ Settled \in {"pausing", "paused"} => state \in {"pausing", "paused"}
  BY DEF Settled, TypeInv, RunType, Active, Terminal, Phases, Control

LEMMA GotoTypes ==
  ASSUME NEW next \in PCs \ OnWalk, Goto(next)
  PROVE  WorkerType'
  BY Zeroes DEF Goto, WorkerType

LEMMA OffWalkTypes == OffWalk => WalkType'
  BY Zeroes DEF OffWalk, WalkType

LEMMA StartWalkTypes ==
  ASSUME TypeInv, at \in Scopes, NEW n \in 0..WalkRetries - 1, StartWalk(n)
  PROVE  WalkType' /\ WorkerType'
  BY DEF TypeInv, StartWalk, WalkType, WorkerType, PCs, PathsOf

LEMMA NewGenerationTypes ==
  ASSUME TypeInv, NEW S, NewGeneration(S)
  PROVE  RowsType'
  BY DEF TypeInv, NewGeneration, RowsType

LEMMA ReturnTypes ==
  ASSUME TypeInv, Return
  PROVE  TypeInv'
  <1>1. RunType' /\ RowsType' /\ HistoryType' /\ FenceType'
    BY SettledTypes, MovesTypes DEF Return
  <1>2. WorkerType'
    BY GotoTypes DEF Return, PCs, OnWalk
  <1> QED
    BY <1>1, <1>2, OffWalkTypes, Frames DEF Return, TypeInv

LEMMA FailsTypes ==
  ASSUME TypeInv, Fails
  PROVE  TypeInv'
  <1>1. RunType' /\ RowsType' /\ HistoryType' /\ FenceType'
    BY MovesTypes DEF Fails, Terminal
  <1>2. WorkerType'
    BY GotoTypes DEF Fails, PCs, OnWalk
  <1> QED
    BY <1>1, <1>2, OffWalkTypes, Frames DEF Fails, TypeInv

LEMMA FailRunTypes ==
  ASSUME TypeInv, FailRun
  PROVE  TypeInv'
  BY ReturnTypes, FailsTypes DEF FailRun

--------------------------------------------------------------------------------
(* Every action keeps the types.                                            *)

LEMMA PublisherTypes ==
  ASSUME TypeInv, Publisher
  PROVE  TypeInv'
  <1>1. ASSUME NEW p \in Paths, NEW old \in SUBSET Paths, Place(p, old)
        PROVE  TypeInv'
    <2>1. FilesType' /\ HistoryType'
      BY <1>1 DEF Place, TypeInv, FilesType, HistoryType
    <2> QED
      BY <1>1, <2>1, Frames DEF Place, locals, TypeInv
  <1>2. ASSUME Record \/ Undo
        PROVE  TypeInv'
    <2>1. FilesType'
      BY <1>2 DEF Record, Undo, Undone, TypeInv, FilesType
    <2> QED
      BY <1>2, <2>1, Frames DEF Record, Undo, locals, TypeInv
  <1>3. ASSUME Release
        PROVE  TypeInv'
    <2>1. FilesType' /\ FenceType' /\ WalkType'
      BY <1>3 DEF Release, TypeInv, FilesType, FenceType, WalkType, locals, walk
    <2> QED
      BY <1>3, <2>1, Frames DEF Release, locals, TypeInv
  <1> QED
    BY <1>1, <1>2, <1>3 DEF Publisher

LEMMA UserTypes ==
  ASSUME TypeInv, User
  PROVE  TypeInv'
  <1>1. ASSUME request_scan_run \/ StopQueued \/ ChangePolicy \/ Pause
        PROVE  TypeInv'
    <2>1. RunType'
      BY <1>1 DEF request_scan_run, StopQueued, ChangePolicy, Pause, TypeInv, RunType,
         Active, Terminal, Phases, Control
    <2> QED
      BY <1>1, <2>1, Frames DEF request_scan_run, StopQueued, ChangePolicy, Pause, locals,
         TypeInv
  <1>2. ASSUME Resume
        PROVE  TypeInv'
    <2>1. RunType' /\ HistoryType'
      BY <1>2 DEF Resume, TypeInv, RunType, HistoryType, Active, Phases
    <2> QED
      BY <1>2, <2>1, Frames DEF Resume, locals, TypeInv
  <1>3. ASSUME Stop
        PROVE  TypeInv'
    <2>1. RunType' /\ RowsType' /\ HistoryType' /\ FenceType'
      BY <1>3, MovesTypes DEF Stop, Active, Terminal, Control
    <2> QED
      BY <1>3, <2>1, Frames DEF Stop, locals, TypeInv
  <1>4. ASSUME NEW p \in Paths, Delete(p)
        PROVE  TypeInv'
    <2>1. FilesType' /\ HistoryType'
      BY <1>4 DEF Delete, TypeInv, FilesType, HistoryType
    <2> QED
      BY <1>4, <2>1, Frames DEF Delete, locals, TypeInv
  <1> QED
    BY <1>1, <1>2, <1>3, <1>4 DEF User

LEMMA RunOnceTypes ==
  ASSUME TypeInv, claim_next_scan_run \/ ResumeRun \/ Checkpoint \/ WorkerFails
  PROVE  TypeInv'
  <1>1. ASSUME claim_next_scan_run
        PROVE  TypeInv'
    <2>0. (queued = "outdated") \in BOOLEAN /\ Publishing \in BOOLEAN
      BY DEF Publishing
    <2>1. RunType' /\ HistoryType'
      BY <1>1, <2>0 DEF claim_next_scan_run, TypeInv, RunType, HistoryType, Active, Terminal,
         Phases, Control
    <2>2. WorkerType'
      BY <1>1, GotoTypes DEF claim_next_scan_run, PCs, OnWalk
    <2> QED
      BY <1>1, <2>1, <2>2, Frames DEF claim_next_scan_run, TypeInv
  <1>2. ASSUME ResumeRun
        PROVE  TypeInv'
    <2>1. WorkerType'
      BY <1>2, GotoTypes DEF ResumeRun, PCs, OnWalk, Phases
    <2>2. RowsType'
      BY <1>2, NewGenerationTypes, Frames DEF ResumeRun
    <2> QED
      BY <1>2, <2>1, <2>2, Frames DEF ResumeRun, TypeInv
  <1>3. ASSUME NEW here \in PCs, NEW next \in PCs, Interrupted(here, next),
               next \notin OnWalk \/ here \in OnWalk
        PROVE  TypeInv'
    <2> DEFINE new == IF outdated /\ state \in Phases \union {"pausing", "paused"}
                      THEN "superseded_policy_changed" ELSE Settled
    <2>1. new \in Active \union Terminal
          /\ (new \in {"pausing", "paused"} => state \in {"pausing", "paused"})
      BY SettledTypes DEF Terminal
    <2>2. Moves(new) /\ UNCHANGED <<queued, crashes>>
      BY <1>3 DEF Interrupted
    <2>3. RunType' /\ RowsType' /\ HistoryType' /\ FenceType'
      BY <2>1, <2>2, MovesTypes
    <2>4. WorkerType'
      BY <1>3 DEF Interrupted, TypeInv, WorkerType
    <2> QED
      BY <1>3, <2>3, <2>4, Frames DEF Interrupted, TypeInv
  <1>4. ASSUME WorkerFails
        PROVE  TypeInv'
    <2>1. RunType' /\ RowsType' /\ HistoryType' /\ FenceType'
      BY <1>4, SettledTypes, MovesTypes DEF WorkerFails, Terminal
    <2>2. WorkerType'
      BY <1>4, GotoTypes DEF WorkerFails, PCs, OnWalk
    <2> QED
      BY <1>4, <2>1, <2>2, OffWalkTypes, Frames DEF WorkerFails, TypeInv
  <1> QED
    BY <1>1, <1>2, <1>3, <1>4 DEF Checkpoint, PCs, OnWalk

LEMMA WalkTypes ==
  ASSUME TypeInv,
         \/ NextScope \/ RootUnavailable \/ ProbeTimesOut \/ BeginWalk
         \/ \E p \in Paths : WalkFile(p) \/ WalkDegrades(p)
         \/ WalkTimesOut \/ RetryWalk \/ GiveUpWalk \/ Drain
  PROVE  TypeInv'
  <1>1. ASSUME NextScope
        PROVE  TypeInv'
    <2>1. WorkerType'
      BY <1>1, ConstantsOK DEF NextScope, TypeInv, WorkerType, Scopes, OnWalk
    <2> QED
      BY <1>1, <2>1, Frames DEF NextScope, TypeInv
  <1>2. ASSUME RootUnavailable
        PROVE  TypeInv'
    <2>1. WorkerType'
      BY <1>2, ConstantsOK DEF RootUnavailable, ToWalk, TypeInv, WorkerType, Scopes, OnWalk
    <2>2. RowsType'
      BY <1>2 DEF RootUnavailable, ToWalk, TypeInv, RowsType
    <2> QED
      BY <1>2, <2>1, <2>2, Frames DEF RootUnavailable, TypeInv
  <1>3. ASSUME ProbeTimesOut \/ GiveUpWalk
        PROVE  TypeInv'
    BY <1>3, FailRunTypes DEF ProbeTimesOut, GiveUpWalk
  <1>4. ASSUME BeginWalk
        PROVE  TypeInv'
    <2>1. WalkType' /\ WorkerType'
      BY <1>4, Zeroes, StartWalkTypes DEF BeginWalk, ToWalk
    <2> QED
      BY <1>4, <2>1, Frames DEF BeginWalk, TypeInv
  <1>5. ASSUME NEW p \in Paths, WalkFile(p) \/ WalkDegrades(p)
        PROVE  TypeInv'
    <2>1. WalkType'
      BY <1>5 DEF WalkFile, WalkDegrades, TypeInv, WalkType
    <2> QED
      BY <1>5, <2>1, Frames DEF WalkFile, WalkDegrades, TypeInv
  <1>6. ASSUME WalkTimesOut
        PROVE  TypeInv'
    <2>1. WorkerType'
      BY <1>6 DEF WalkTimesOut, TypeInv, WorkerType, PCs, OnWalk
    <2>2. RowsType'
      BY <1>6 DEF WalkTimesOut, TypeInv, RowsType, WorkerType, OnWalk
    <2>3. WalkType'
      BY <1>6 DEF WalkTimesOut, TypeInv, WalkType
    <2> QED
      BY <1>6, <2>1, <2>2, <2>3, Frames DEF WalkTimesOut, TypeInv
  <1>7. ASSUME RetryWalk
        PROVE  TypeInv'
    <2>1. restarts + 1 \in 0..WalkRetries - 1 /\ at \in Scopes
      BY <1>7 DEF RetryWalk, TypeInv, WalkType, WalkRetries, WorkerType, OnWalk
    <2>2. WalkType' /\ WorkerType'
      BY <1>7, <2>1, StartWalkTypes DEF RetryWalk
    <2>3. RowsType'
      BY <1>7, NewGenerationTypes DEF RetryWalk
    <2> QED
      BY <1>7, <2>2, <2>3, Frames DEF RetryWalk, TypeInv
  <1>8. ASSUME Drain
        PROVE  TypeInv'
    <2>1. CASE state = "discovering"
      BY <1>8, <2>1, FailsTypes DEF Drain
    <2>2. CASE state # "discovering"
      <3>1. WorkerType'
        BY <1>8, <2>2, GotoTypes DEF Drain, PCs, OnWalk
      <3>2. RowsType'
        BY <1>8, <2>2 DEF Drain, TypeInv, RowsType, WorkerType, OnWalk
      <3> QED
        BY <1>8, <2>2, <3>1, <3>2, OffWalkTypes, Frames DEF Drain, TypeInv
    <2> QED
      BY <2>1, <2>2
  <1> QED
    BY <1>1, <1>2, <1>3, <1>4, <1>5, <1>6, <1>7, <1>8

LEMMA EndPhaseTypes ==
  ASSUME TypeInv, NEW here, NEW phase \in Phases, NEW next \in Phases \union Terminal,
         NEW nextpc \in PCs \ OnWalk, EndPhase(here, phase, next, nextpc)
  PROVE  TypeInv'
  <1>1. CASE state = phase
    <2>1. RunType' /\ RowsType' /\ HistoryType' /\ FenceType'
      BY <1>1, MovesTypes DEF EndPhase, Active, Phases, Terminal
    <2>2. WorkerType'
      BY <1>1, GotoTypes DEF EndPhase
    <2> QED
      BY <1>1, <2>1, <2>2, Frames DEF EndPhase, TypeInv
  <1>2. CASE state # phase
    BY <1>2, ReturnTypes DEF EndPhase
  <1> QED
    BY <1>1, <1>2

LEMMA InventoryTypes ==
  ASSUME TypeInv, PersistInventory \/ CheckFence \/ EndScopes \/ EndDiscovery
  PROVE  TypeInv'
  <1>1. ASSUME PersistInventory
        PROVE  TypeInv'
    <2>1. CASE state = "discovering" \/ seen = {}
      <3>1. WorkerType' /\ WalkType'
        BY <1>1, <2>1 DEF PersistInventory, TypeInv, WorkerType, WalkType, PCs, OnWalk
      <3>2. RowsType'
        BY <1>1, <2>1 DEF PersistInventory, TypeInv, RowsType
      <3> QED
        BY <1>1, <2>1, <3>1, <3>2, Frames DEF PersistInventory, TypeInv
    <2>2. CASE ~(state = "discovering" \/ seen = {})
      BY <1>1, <2>2, ReturnTypes DEF PersistInventory
    <2> QED
      BY <2>1, <2>2
  <1>2. ASSUME CheckFence
        PROVE  TypeInv'
    <2>1. at \in Scopes
      BY <1>2 DEF CheckFence, TypeInv, WorkerType, OnWalk
    <2>2. CASE changed /\ restarts + 1 < WalkRetries
      <3>1. restarts + 1 \in 0..WalkRetries - 1
        BY <2>2 DEF TypeInv, WalkType, WalkRetries
      <3>2. WalkType' /\ WorkerType'
        BY <1>2, <2>1, <2>2, <3>1, StartWalkTypes DEF CheckFence
      <3>3. RowsType'
        BY <1>2, <2>2, NewGenerationTypes DEF CheckFence
      <3> QED
        BY <1>2, <2>2, <3>2, <3>3, Frames DEF CheckFence, TypeInv
    <2>3. CASE ~(changed /\ restarts + 1 < WalkRetries)
      <3>1. RowsType' /\ FenceType'
        BY <1>2, <2>1, <2>3 DEF CheckFence, TypeInv, RowsType, FenceType
      <3>2. at' \in 1..NScopes + 1
        BY <1>2, <2>1, <2>3, ConstantsOK DEF CheckFence, Scopes
      <3>3. WorkerType'
        BY <1>2, <2>3, <3>2 DEF CheckFence, TypeInv, WorkerType, PCs, OnWalk
      <3> QED
        BY <1>2, <2>3, <3>1, <3>3, OffWalkTypes, Frames DEF CheckFence, TypeInv
    <2> QED
      BY <2>2, <2>3
  <1>3. ASSUME EndScopes
        PROVE  TypeInv'
    <2>1. CASE FailRun
      BY <2>1, FailRunTypes
    <2>2. CASE Goto("discovered")
               /\ UNCHANGED <<files, fence, changed, run, rows, walk, history>>
      <3>1. WorkerType'
        BY <2>2, GotoTypes DEF PCs, OnWalk
      <3> QED
        BY <2>2, <3>1, Frames DEF TypeInv
    <2> QED
      BY <1>3, <2>1, <2>2 DEF EndScopes
  <1>4. ASSUME EndDiscovery
        PROVE  TypeInv'
    BY <1>4, EndPhaseTypes DEF EndDiscovery, Phases, PCs, OnWalk
  <1> QED
    BY <1>1, <1>2, <1>3, <1>4

LEMMA IndexTypes ==
  ASSUME TypeInv,
         \/ \E p \in Paths : ReadTags(p)
         \/ commit_scan_index_batch \/ EndInventory \/ EndIndexing
  PROVE  TypeInv'
  <1>1. ASSUME NEW p \in Paths, ReadTags(p)
        PROVE  TypeInv'
    <2>1. WorkerType'
      BY <1>1 DEF ReadTags, TypeInv, WorkerType
    <2> QED
      BY <1>1, <2>1, Frames DEF ReadTags, TypeInv
  <1>2. ASSUME commit_scan_index_batch
        PROVE  TypeInv'
    <2>1. FilesType' /\ RowsType' /\ WorkerType'
      BY <1>2 DEF commit_scan_index_batch, TypeInv, FilesType, RowsType, WorkerType
    <2> QED
      BY <1>2, <2>1, Frames DEF commit_scan_index_batch, TypeInv
  <1>3. ASSUME EndInventory
        PROVE  TypeInv'
    <2>1. WorkerType'
      BY <1>3, GotoTypes DEF EndInventory, PCs, OnWalk
    <2> QED
      BY <1>3, <2>1, Frames DEF EndInventory, TypeInv
  <1>4. ASSUME EndIndexing
        PROVE  TypeInv'
    BY <1>4, EndPhaseTypes DEF EndIndexing, Phases, PCs, OnWalk
  <1> QED
    BY <1>1, <1>2, <1>3, <1>4

LEMMA ReconcileTypes ==
  ASSUME TypeInv,
         \/ \E p \in Paths : reconcile_scan_scope_batch(p)
         \/ EndScope \/ EndReconcile \/ EndReconciling
  PROVE  TypeInv'
  <1>1. ASSUME NEW p \in Paths, reconcile_scan_scope_batch(p)
        PROVE  TypeInv'
    <2>1. FilesType'
      BY <1>1 DEF reconcile_scan_scope_batch, TypeInv, FilesType
    <2>2. p \in 0..NPaths
      BY ConstantsOK DEF Paths
    <2>3. RowsType'
      BY <1>1, <2>2 DEF reconcile_scan_scope_batch, TypeInv, RowsType
    <2> QED
      BY <1>1, <2>1, <2>3, Frames DEF reconcile_scan_scope_batch, TypeInv
  <1>2. ASSUME EndScope
        PROVE  TypeInv'
    <2>1. at' \in 1..NScopes + 1
      BY <1>2, ConstantsOK DEF EndScope, Scopes
    <2>2. WorkerType'
      BY <1>2, <2>1 DEF EndScope, TypeInv, WorkerType, OnWalk
    <2>3. (reconciled[at] \/ scope[at] = "completed") \in BOOLEAN
      OBVIOUS
    <2>4. RowsType'
      BY <1>2, <2>3 DEF EndScope, TypeInv, RowsType
    <2> QED
      BY <1>2, <2>2, <2>4, Frames DEF EndScope, TypeInv
  <1>3. ASSUME EndReconcile
        PROVE  TypeInv'
    <2>1. WorkerType'
      BY <1>3, GotoTypes DEF EndReconcile, PCs, OnWalk
    <2> QED
      BY <1>3, <2>1, Frames DEF EndReconcile, TypeInv
  <1>4. ASSUME EndReconciling
        PROVE  TypeInv'
    BY <1>4, EndPhaseTypes DEF EndReconciling, Phases, Terminal, PCs, OnWalk
  <1> QED
    BY <1>1, <1>2, <1>3, <1>4

LEMMA RestartTypes ==
  ASSUME TypeInv, Restart
  PROVE  TypeInv'
  <1>1. RunType' /\ RowsType' /\ disturbed' \in BOOLEAN
    BY SettledTypes, BecomesTypes DEF Restart
  <1>2. crashes' \in 0..MaxCrashes
    BY ConstantsOK DEF Restart, TypeInv, HistoryType
  <1>3. FilesType' /\ FenceType'
    BY DEF Restart, Undone, TypeInv, FilesType, FenceType
  <1>4. WorkerType'
    BY GotoTypes DEF Restart, PCs, OnWalk
  <1> QED
    BY <1>1, <1>2, <1>3, <1>4, OffWalkTypes DEF Restart, TypeInv, HistoryType

LEMMA NextTypes == TypeInv /\ [Next]_vars => TypeInv'
  <1> SUFFICES ASSUME TypeInv, [Next]_vars PROVE TypeInv'
    OBVIOUS
  <1>1. CASE UNCHANGED vars
    BY <1>1, Frames DEF vars, locals, TypeInv
  <1>2. CASE Work
    BY <1>2, RunOnceTypes, WalkTypes, InventoryTypes, IndexTypes, ReconcileTypes DEF Work
  <1> QED
    BY <1>1, <1>2, PublisherTypes, UserTypes, RestartTypes DEF Next

\* A scan, its rows, the worker's locals and the fence keep their types: in
\* particular a scope is walked at most three times (library_inventory_scanner.py).
THEOREM TypeCorrectness == Spec => []TypeOK
  BY InitTypes, NextTypes, TypeInvTypes, PTL DEF Spec

--------------------------------------------------------------------------------
(* A stop is obeyed.                                                        *)

\* Once a user has stopped the run, only its cancellation follows: no end of a phase,
\* no failure, no policy change and no restart gives it another state
\* (transition_scan_run, _settle_pending_control).
THEOREM StopIsObeyed == Spec => StopWins
  <1>1. [Next]_vars => [state = "stopping" => state' \in {"stopping", "cancelled"}]_vars
    <2> SUFFICES ASSUME Next, state = "stopping"
                 PROVE  state' \in {"stopping", "cancelled"}
      OBVIOUS
    <2>1. Settled = "cancelled"
      BY DEF Settled
    <2>2. (Return => state' = "cancelled") /\ (FailRun => state' = "cancelled")
      BY <2>1 DEF Return, FailRun, Moves, Becomes
    <2>3. CASE Publisher \/ User
      BY <2>3 DEF Publisher, User, Place, Record, Undo, Release, request_scan_run, Pause, Resume,
         Stop, StopQueued, ChangePolicy, Delete, run, Phases, Moves, Becomes
    <2>4. CASE Restart
      BY <2>1, <2>4 DEF Restart, Becomes
    <2>5. CASE Work
      <3>1. ASSUME claim_next_scan_run \/ ResumeRun \/ WorkerFails
            PROVE  state' = "cancelled"
        BY <2>1, <3>1 DEF claim_next_scan_run, ResumeRun, WorkerFails, Terminal, Phases,
           Moves, Becomes
      <3>2. ASSUME NEW here, NEW next, Interrupted(here, next)
            PROVE  state' = "cancelled"
        BY <2>1, <3>2 DEF Interrupted, Phases, Moves, Becomes
      <3>3. ASSUME \/ NextScope \/ RootUnavailable \/ BeginWalk
                   \/ \E p \in Paths : WalkFile(p) \/ WalkDegrades(p) \/ ReadTags(p)
                                       \/ reconcile_scan_scope_batch(p)
                   \/ WalkTimesOut \/ RetryWalk \/ CheckFence \/ commit_scan_index_batch
                   \/ EndInventory \/ EndScope \/ EndReconcile
            PROVE  state' = state
        BY <3>3 DEF NextScope, RootUnavailable, BeginWalk, WalkFile, WalkDegrades, ReadTags,
           reconcile_scan_scope_batch, WalkTimesOut, RetryWalk, CheckFence,
           commit_scan_index_batch, EndInventory, EndScope, EndReconcile, run
      <3>4. ASSUME ProbeTimesOut \/ GiveUpWalk \/ Drain \/ PersistInventory \/ EndScopes
            PROVE  state' \in {state, "cancelled"}
        BY <2>2, <3>4 DEF ProbeTimesOut, GiveUpWalk, Drain, PersistInventory, EndScopes, run
      <3>5. ASSUME EndDiscovery \/ EndIndexing \/ EndReconciling
            PROVE  state' = "cancelled"
        BY <2>2, <3>5 DEF EndDiscovery, EndIndexing, EndReconciling, EndPhase
      <3> QED
        BY <2>5, <3>1, <3>2, <3>3, <3>4, <3>5 DEF Work, Checkpoint
    <2> QED
      BY <2>3, <2>4, <2>5 DEF Next
  <1> QED
    BY <1>1, PTL DEF Spec, StopWins

--------------------------------------------------------------------------------
(* The fence of a run with one scope. What the publication in progress would *)
(* leave on the shelf if it were undone is what the walk has to know.       *)

OffFiles == {"idle", "index", "indexed", "reconcile", "reconciled"}

PublisherIdle == pub.step = "idle" => pub.new = {} /\ pub.old = {}

WalkEnded == pc = "fence" => todo = {} /\ seen = {}

RowsDropped == state \in Terminal /\ pc \in OffFiles => \A s \in Scopes : scope[s] = "pending"

WalkSeesAll ==
  state \notin Terminal /\ pc \in {"walk", "fence"} /\ ~changed /\ ~Publishing /\ ~degraded =>
    \A p \in shelf : p \in todo \union seen \/ inventory[p] # "none"

FenceHolds ==
  state \notin Terminal /\ fence = "current" /\ scope[1] = "completed" =>
    \A p \in Undone : inventory[p] # "none"

FenceInv == PublisherIdle /\ WalkEnded /\ RowsDropped /\ WalkSeesAll /\ FenceHolds

LEMMA OneScope ==
  ASSUME NScopes = 1
  PROVE  Scopes = {1} /\ PathsOf(1) = Paths /\ \A p \in Paths : ScopeOf(p) = 1
  BY ConstantsOK DEF Scopes, PathsOf, ScopeOf, Paths

LEMMA StatesDiffer ==
  /\ Active \intersect Terminal = {}
  /\ Phases \subseteq Active /\ Control \subseteq Active /\ "paused" \in Active
  /\ Settled \in Terminal \/ Settled \in Active \/ Settled = state
  /\ state \in Terminal => Settled = state
  BY DEF Active, Terminal, Phases, Control, Settled

LEMMA InitFence == Init => FenceInv
  BY DEF Init, FenceInv, PublisherIdle, WalkEnded, RowsDropped, WalkSeesAll, FenceHolds,
     Terminal, OffFiles

\* The run takes a state and the worker is not in the walk after it.
LEMMA MovesKeepFence ==
  ASSUME FenceInv, NEW new, Moves(new), UNCHANGED files,
         new \in Terminal \/ state \notin Terminal,
         pc' \notin {"walk", "fence"}
  PROVE  FenceInv'
  <1>1. CASE new \in Terminal
    BY <1>1 DEF FenceInv, PublisherIdle, WalkEnded, RowsDropped, WalkSeesAll, FenceHolds,
       Moves, Becomes, files
  <1>2. CASE new \notin Terminal
    BY <1>2 DEF FenceInv, PublisherIdle, WalkEnded, RowsDropped, WalkSeesAll, FenceHolds,
       Moves, Becomes, files, rows, Undone
  <1> QED
    BY <1>1, <1>2

LEMMA ReturnKeepsFence ==
  ASSUME FenceInv, Return
  PROVE  FenceInv'
  BY MovesKeepFence, StatesDiffer DEF Return, Goto

LEMMA FailsKeepsFence ==
  ASSUME FenceInv, Fails
  PROVE  FenceInv'
  <1>1. "failed" \in Terminal
    BY DEF Terminal
  <1> QED
    BY <1>1, MovesKeepFence DEF Fails, Goto

LEMMA FailRunKeepsFence ==
  ASSUME FenceInv, FailRun
  PROVE  FenceInv'
  BY ReturnKeepsFence, FailsKeepsFence DEF FailRun

\* A step that changes nothing the fence depends on, and does not enter the walk.
LEMMA QuietKeepsFence ==
  ASSUME FenceInv, UNCHANGED <<shelf, pub, fence, scope>>,
         \A p \in Undone : inventory[p] # "none" => inventory'[p] # "none",
         state' \in Terminal => state \in Terminal, state \in Terminal => state' \in Terminal,
         \/ pc' \notin {"walk", "fence"} /\ (pc' \in OffFiles /\ state' \in Terminal => pc \in OffFiles)
         \/ UNCHANGED <<pc, todo, seen, degraded, changed, inventory>>
  PROVE  FenceInv'
  BY DEF FenceInv, PublisherIdle, WalkEnded, RowsDropped, WalkSeesAll, FenceHolds, Undone,
     Publishing

LEMMA PublisherKeepsFence ==
  ASSUME TypeInv, FenceInv, Publisher
  PROVE  FenceInv'
  <1> USE DEF FenceInv
  <1>1. ASSUME NEW p \in Paths, NEW old \in SUBSET Paths, Place(p, old)
        PROVE  FenceInv'
    <2>1. PublisherIdle' /\ WalkEnded' /\ RowsDropped'
      BY <1>1 DEF Place, PublisherIdle, WalkEnded, RowsDropped, run, rows, locals, walk
    <2>2. pub'.step = "placed" /\ pub'.new = {p} \ shelf /\ pub'.old = old
      BY <1>1 DEF Place
    <2>3. WalkSeesAll'
      BY <2>2 DEF WalkSeesAll, Publishing
    <2>4. Undone' \subseteq Undone
      BY <1>1, <2>2 DEF Place, Undone, Publishing, PublisherIdle
    <2>5. FenceHolds'
      BY <1>1, <2>4 DEF Place, FenceHolds, run, rows
    <2> QED
      BY <2>1, <2>3, <2>5
  <1>2. ASSUME Record \/ Undo
        PROVE  FenceInv'
    <2>1. pub'.step # "idle" /\ pub'.new = pub.new /\ pub'.old = pub.old
      BY <1>2 DEF Record, Undo, TypeInv, FilesType
    <2>2. PublisherIdle' /\ WalkEnded' /\ RowsDropped' /\ WalkSeesAll'
      BY <1>2, <2>1 DEF Record, Undo, PublisherIdle, WalkEnded, RowsDropped, WalkSeesAll,
         Publishing, run, rows, locals, walk
    <2>3. Undone' \subseteq Undone
      BY <1>2, <2>1 DEF Record, Undo, Undone
    <2> QED
      BY <1>2, <2>2, <2>3 DEF Record, Undo, FenceHolds, run, rows
  <1>3. ASSUME Release
        PROVE  FenceInv'
    <2>1. pub'.new = {} /\ pub'.old = {} /\ fence' # "current"
      BY <1>3 DEF Release
    <2>2. pc \in {"walk", "fence"} => changed'
      BY <1>3 DEF Release, OnWalk
    <2> QED
      BY <1>3, <2>1, <2>2 DEF Release, PublisherIdle, WalkEnded, RowsDropped, WalkSeesAll,
         FenceHolds, run, rows, locals, walk
  <1> QED
    BY <1>1, <1>2, <1>3 DEF Publisher

LEMMA UserKeepsFence ==
  ASSUME TypeInv, FenceInv, User
  PROVE  FenceInv'
  <1>1. ASSUME request_scan_run \/ StopQueued \/ ChangePolicy
        PROVE  FenceInv'
    BY <1>1, QuietKeepsFence DEF request_scan_run, StopQueued, ChangePolicy, files, rows,
       locals, walk
  <1>2. ASSUME Pause \/ Resume
        PROVE  FenceInv'
    <2>1. state \notin Terminal /\ state' \notin Terminal
      BY <1>2, StatesDiffer DEF Pause, Resume, TypeInv, RunType, Control
    <2> QED
      BY <1>2, <2>1, QuietKeepsFence DEF Pause, Resume, files, rows, locals, walk
  <1>3. ASSUME Stop
        PROVE  FenceInv'
    <2> DEFINE new == IF state = "paused" THEN "cancelled" ELSE "stopping"
    <2>1. Moves(new) /\ UNCHANGED <<files, changed, locals>> /\ state \notin Terminal
      BY <1>3, StatesDiffer DEF Stop, Control
    <2>2. CASE new \in Terminal
      BY <2>1, <2>2 DEF FenceInv, PublisherIdle, WalkEnded, RowsDropped, WalkSeesAll,
         FenceHolds, Moves, Becomes, files, locals, walk
    <2>3. CASE new \notin Terminal
      BY <2>1, <2>3 DEF FenceInv, PublisherIdle, WalkEnded, RowsDropped, WalkSeesAll,
         FenceHolds, Moves, Becomes, files, locals, walk, rows, Undone, Publishing
    <2> QED
      BY <2>2, <2>3
  <1>4. ASSUME NEW p \in Paths, Delete(p)
        PROVE  FenceInv'
    BY <1>4 DEF Delete, FenceInv, PublisherIdle, WalkEnded, RowsDropped, WalkSeesAll,
       FenceHolds, Undone, Publishing, run, rows, locals, walk
  <1> QED
    BY <1>1, <1>2, <1>3, <1>4 DEF User

LEMMA RunOnceKeepsFence ==
  ASSUME NScopes = 1, TypeInv, FenceInv, claim_next_scan_run \/ ResumeRun \/ Checkpoint \/ WorkerFails
  PROVE  FenceInv'
  <1>1. ASSUME claim_next_scan_run
        PROVE  FenceInv'
    <2>1. \A s \in Scopes : scope[s] = "pending"
      BY <1>1 DEF claim_next_scan_run, FenceInv, RowsDropped, OffFiles
    <2>2. scope[1] = "pending"
      BY <2>1, Zeroes
    <2>3. state' \notin Terminal /\ pc' = "discover"
      BY <1>1 DEF claim_next_scan_run, Goto, Terminal
    <2> QED
      BY <1>1, <2>2, <2>3 DEF claim_next_scan_run, FenceInv, PublisherIdle, WalkEnded,
         RowsDropped, WalkSeesAll, FenceHolds, files, rows
  <1>2. ASSUME ResumeRun
        PROVE  FenceInv'
    <2>1. state \notin Terminal /\ state' = state /\ pc' \notin {"walk", "fence"}
      BY <1>2, StatesDiffer DEF ResumeRun, Goto, Phases, run
    <2>2. CASE state = "discovering"
      <3>1. scope'[1] = "completed" =>
              /\ scope[1] = "completed"
              /\ \A p \in Paths : inventory'[p] = inventory[p]
        BY <1>2, <2>2, OneScope DEF ResumeRun, NewGeneration
      <3>2. Undone' = Undone /\ Undone \subseteq Paths
        BY <1>2 DEF ResumeRun, files, Undone, TypeInv, FilesType
      <3> QED
        BY <1>2, <2>1, <3>1, <3>2 DEF ResumeRun, FenceInv, PublisherIdle, WalkEnded,
           RowsDropped, WalkSeesAll, FenceHolds, files, run
    <2>3. CASE state # "discovering"
      BY <1>2, <2>1, <2>3, QuietKeepsFence DEF ResumeRun, files, rows
    <2> QED
      BY <2>2, <2>3
  <1>3. ASSUME NEW here, NEW next, next \notin {"walk", "fence"}, Interrupted(here, next)
        PROVE  FenceInv'
    <2> DEFINE new == IF outdated /\ state \in Phases \union {"pausing", "paused"}
                      THEN "superseded_policy_changed" ELSE Settled
    <2>1. Moves(new) /\ UNCHANGED files /\ pc' = next
      BY <1>3 DEF Interrupted
    <2>2. new \in Terminal \/ state \notin Terminal
      BY StatesDiffer DEF Terminal
    <2> QED
      BY <1>3, <2>1, <2>2, MovesKeepFence
  <1>4. ASSUME WorkerFails
        PROVE  FenceInv'
    <2> DEFINE new == IF state \in Phases THEN "failed" ELSE Settled
    <2>1. Moves(new) /\ UNCHANGED files /\ pc' = "idle"
      BY <1>4 DEF WorkerFails, Goto
    <2>2. new \in Terminal \/ state \notin Terminal
      BY StatesDiffer DEF Terminal
    <2> QED
      BY <2>1, <2>2, MovesKeepFence
  <1> QED
    BY <1>1, <1>2, <1>3, <1>4 DEF Checkpoint

LEMMA WalkKeepsFence ==
  ASSUME NScopes = 1, TypeInv, FenceInv,
         \/ NextScope \/ RootUnavailable \/ ProbeTimesOut \/ BeginWalk
         \/ \E p \in Paths : WalkFile(p) \/ WalkDegrades(p)
         \/ WalkTimesOut \/ RetryWalk \/ GiveUpWalk \/ Drain
  PROVE  FenceInv'
  <1> USE DEF FenceInv
  <1>1. ASSUME NextScope
        PROVE  FenceInv'
    BY <1>1, QuietKeepsFence DEF NextScope, files, rows, run, OffFiles
  <1>2. ASSUME RootUnavailable
        PROVE  FenceInv'
    <2>1. at = 1 /\ scope'[1] = "unavailable"
      BY <1>2, OneScope DEF RootUnavailable, ToWalk, TypeInv, RowsType
    <2> QED
      BY <1>2, <2>1 DEF RootUnavailable, ToWalk, PublisherIdle, WalkEnded, RowsDropped,
         WalkSeesAll, FenceHolds, files, run, OffFiles
  <1>3. ASSUME ProbeTimesOut \/ GiveUpWalk
        PROVE  FenceInv'
    BY <1>3, FailRunKeepsFence DEF ProbeTimesOut, GiveUpWalk
  <1>4. ASSUME BeginWalk
        PROVE  FenceInv'
    <2>1. pc' = "walk" /\ todo' = Paths
      BY <1>4, OneScope DEF BeginWalk, ToWalk, StartWalk
    <2>2. Undone' = Undone /\ shelf' \subseteq Paths
      BY <1>4 DEF BeginWalk, files, Undone, TypeInv, FilesType
    <2> QED
      BY <1>4, <2>1, <2>2 DEF BeginWalk, PublisherIdle, WalkEnded, RowsDropped, WalkSeesAll,
         FenceHolds, files, rows, run, OffFiles
  <1>5. ASSUME NEW p \in Paths, WalkFile(p) \/ WalkDegrades(p)
        PROVE  FenceInv'
    <2>1. WalkSeesAll'
      BY <1>5 DEF WalkFile, WalkDegrades, WalkSeesAll, files, rows, run, Publishing
    <2> QED
      BY <1>5, <2>1 DEF WalkFile, WalkDegrades, PublisherIdle, WalkEnded, RowsDropped,
         FenceHolds, Undone, files, rows, run
  <1>6. ASSUME WalkTimesOut
        PROVE  FenceInv'
    <2>1. at = 1 /\ scope'[1] = "partially_read"
      BY <1>6, OneScope DEF WalkTimesOut, TypeInv, RowsType, WorkerType, OnWalk
    <2> QED
      BY <1>6, <2>1 DEF WalkTimesOut, PublisherIdle, WalkEnded, RowsDropped,
         WalkSeesAll, FenceHolds, files, run, OffFiles
  <1>7. ASSUME RetryWalk
        PROVE  FenceInv'
    <2>1. at = 1
      BY <1>7, OneScope DEF RetryWalk, TypeInv, WorkerType, OnWalk
    <2>2. scope'[1] = "pending" /\ pc' = "walk" /\ todo' = Paths
      BY <1>7, <2>1, OneScope DEF RetryWalk, StartWalk, NewGeneration
    <2>3. shelf' \subseteq Paths
      BY <1>7 DEF RetryWalk, files, TypeInv, FilesType
    <2> QED
      BY <1>7, <2>2, <2>3 DEF RetryWalk, PublisherIdle, WalkEnded, RowsDropped,
         WalkSeesAll, FenceHolds, files, run, OffFiles
  <1>8. ASSUME Drain
        PROVE  FenceInv'
    <2>1. CASE state = "discovering"
      BY <1>8, <2>1, FailsKeepsFence DEF Drain
    <2>2. CASE state # "discovering"
      <3>1. at = 1
        BY <1>8, OneScope DEF Drain, TypeInv, WorkerType, OnWalk
      <3>2. state \notin Terminal => scope'[1] = "partially_read"
        BY <1>8, <2>2, <3>1, OneScope DEF Drain, TypeInv, RowsType
      <3>3. pc' = "discovered" /\ UNCHANGED <<files, fence, run, inventory>>
        BY <1>8, <2>2 DEF Drain, Goto
      <3> QED
        BY <3>2, <3>3 DEF PublisherIdle, WalkEnded, RowsDropped, WalkSeesAll, FenceHolds,
           files, run, OffFiles
    <2> QED
      BY <2>1, <2>2
  <1> QED
    BY <1>1, <1>2, <1>3, <1>4, <1>5, <1>6, <1>7, <1>8

LEMMA EndPhaseKeepsFence ==
  ASSUME FenceInv, NEW here, NEW phase \in Phases, NEW next \in Phases \union Terminal,
         NEW nextpc \in PCs \ OnWalk, EndPhase(here, phase, next, nextpc)
  PROVE  FenceInv'
  <1>1. CASE state = phase
    BY <1>1, MovesKeepFence, StatesDiffer DEF EndPhase, Goto, OnWalk
  <1>2. CASE state # phase
    BY <1>2, ReturnKeepsFence DEF EndPhase
  <1> QED
    BY <1>1, <1>2

LEMMA InventoryKeepsFence ==
  ASSUME NScopes = 1, TypeInv, FenceInv,
         PersistInventory \/ CheckFence \/ EndScopes \/ EndDiscovery
  PROVE  FenceInv'
  <1>1. ASSUME PersistInventory
        PROVE  FenceInv'
    <2>1. CASE state = "discovering" \/ seen = {}
      <3>1. /\ \A p \in Paths : p \in seen \/ inventory[p] # "none" => inventory'[p] # "none"
            /\ todo = {} /\ pc = "walk" /\ pc' = "fence" /\ seen' = {}
            /\ UNCHANGED <<files, fence, changed, run, scope, todo, degraded>>
        BY <1>1, <2>1 DEF PersistInventory
      <3>2. shelf \subseteq Paths /\ Undone \subseteq Paths /\ Undone' = Undone
        BY <3>1 DEF TypeInv, FilesType, Undone, files
      <3> QED
        BY <3>1, <3>2 DEF FenceInv, PublisherIdle, WalkEnded, RowsDropped, WalkSeesAll,
           FenceHolds, Publishing, OffFiles, files, run
    <2>2. CASE ~(state = "discovering" \/ seen = {})
      BY <1>1, <2>2, ReturnKeepsFence DEF PersistInventory
    <2> QED
      BY <2>1, <2>2
  <1>2. ASSUME CheckFence
        PROVE  FenceInv'
    <2>1. at = 1
      BY <1>2, OneScope DEF CheckFence, TypeInv, WorkerType, OnWalk
    <2>2. CASE changed /\ restarts + 1 < WalkRetries
      <3>1. scope'[1] = "pending" /\ pc' = "walk" /\ todo' = Paths
            /\ UNCHANGED <<files, run, fence>>
        BY <1>2, <2>1, <2>2, OneScope DEF CheckFence, StartWalk, NewGeneration
      <3>2. shelf' \subseteq Paths
        BY <3>1 DEF files, TypeInv, FilesType
      <3> QED
        BY <3>1, <3>2 DEF FenceInv, PublisherIdle, WalkEnded, RowsDropped,
           WalkSeesAll, FenceHolds, files, run, OffFiles
    <2>3. CASE ~(changed /\ restarts + 1 < WalkRetries)
      <3>1. /\ scope'[1] = IF changed \/ degraded THEN "partially_read" ELSE "completed"
            /\ pc' = "discover" /\ UNCHANGED <<files, run, inventory>>
        BY <1>2, <2>1, <2>3, OneScope DEF CheckFence, TypeInv, RowsType
      <3>2. Undone' = shelf
        BY <1>2, <3>1 DEF CheckFence, Publishing, FenceInv, PublisherIdle, files, Undone
      <3>3. state \notin Terminal /\ ~(changed \/ degraded) => \A p \in shelf : inventory[p] # "none"
        BY <1>2 DEF CheckFence, FenceInv, WalkEnded, WalkSeesAll
      <3> QED
        BY <3>1, <3>2, <3>3 DEF FenceInv, PublisherIdle, WalkEnded, RowsDropped,
           WalkSeesAll, FenceHolds, files, run, OffFiles
    <2> QED
      BY <2>2, <2>3
  <1>3. ASSUME EndScopes
        PROVE  FenceInv'
    <2>1. CASE FailRun
      BY <2>1, FailRunKeepsFence
    <2>2. CASE Goto("discovered")
               /\ UNCHANGED <<files, fence, changed, run, rows, walk, history>>
      BY <2>2, QuietKeepsFence DEF Goto, files, rows, run, OffFiles
    <2> QED
      BY <1>3, <2>1, <2>2 DEF EndScopes
  <1>4. ASSUME EndDiscovery
        PROVE  FenceInv'
    BY <1>4, EndPhaseKeepsFence DEF EndDiscovery, Phases, PCs, OnWalk
  <1> QED
    BY <1>1, <1>2, <1>3, <1>4

LEMMA IndexKeepsFence ==
  ASSUME TypeInv, FenceInv,
         \/ \E p \in Paths : ReadTags(p)
         \/ commit_scan_index_batch \/ EndInventory \/ EndIndexing
  PROVE  FenceInv'
  <1>1. ASSUME (\E p \in Paths : ReadTags(p)) \/ EndInventory
        PROVE  FenceInv'
    BY <1>1, QuietKeepsFence DEF ReadTags, EndInventory, Goto, files, rows, run, walk, OffFiles
  <1>2. ASSUME commit_scan_index_batch
        PROVE  FenceInv'
    <2>1. \A p \in Paths : inventory[p] # "none" => inventory'[p] # "none"
      BY <1>2 DEF commit_scan_index_batch
    <2>2. Undone \subseteq Paths
      BY DEF TypeInv, FilesType, Undone
    <2>3. UNCHANGED <<shelf, pub, fence, scope, state, pc>> /\ pc = "index"
      BY <1>2 DEF commit_scan_index_batch, run
    <2> QED
      BY <2>1, <2>2, <2>3, QuietKeepsFence DEF OffFiles
  <1>3. ASSUME EndIndexing
        PROVE  FenceInv'
    BY <1>3, EndPhaseKeepsFence DEF EndIndexing, Phases, PCs, OnWalk
  <1> QED
    BY <1>1, <1>2, <1>3

LEMMA ReconcileKeepsFence ==
  ASSUME TypeInv, FenceInv,
         \/ \E p \in Paths : reconcile_scan_scope_batch(p)
         \/ EndScope \/ EndReconcile \/ EndReconciling
  PROVE  FenceInv'
  <1>1. ASSUME (\E p \in Paths : reconcile_scan_scope_batch(p)) \/ EndScope \/ EndReconcile
        PROVE  FenceInv'
    BY <1>1, QuietKeepsFence DEF reconcile_scan_scope_batch, EndScope, EndReconcile, Goto,
       files, rows, run, OffFiles
  <1>2. ASSUME EndReconciling
        PROVE  FenceInv'
    BY <1>2, EndPhaseKeepsFence DEF EndReconciling, Phases, Terminal, PCs, OnWalk
  <1> QED
    BY <1>1, <1>2

LEMMA RestartKeepsFence ==
  ASSUME FenceInv, Restart
  PROVE  FenceInv'
  <1>1. pub'.new = {} /\ pub'.old = {} /\ fence' = "none" /\ pc' = "idle"
    BY DEF Restart, Goto
  <1>2. state' \in Terminal => \A s \in Scopes : scope'[s] = "pending"
    BY DEF Restart, Becomes
  <1> QED
    BY <1>1, <1>2 DEF FenceInv, PublisherIdle, WalkEnded, RowsDropped, WalkSeesAll, FenceHolds

LEMMA NextKeepsFence ==
  ASSUME NScopes = 1, TypeInv, FenceInv, [Next]_vars
  PROVE  FenceInv'
  <1>1. CASE UNCHANGED vars
    BY <1>1, QuietKeepsFence DEF vars, files, rows, run, locals, walk
  <1>2. CASE Work
    BY <1>2, RunOnceKeepsFence, WalkKeepsFence, InventoryKeepsFence, IndexKeepsFence,
       ReconcileKeepsFence DEF Work
  <1> QED
    BY <1>1, <1>2, PublisherKeepsFence, UserKeepsFence, RestartKeepsFence DEF Next

\* Only a reconciliation marks a row missing.
LEMMA LosesOnlyByReconciling ==
  ASSUME TypeInv, Next, NEW p \in Paths, Lost(p)
  PROVE  reconcile_scan_scope_batch(p)
  <1>1. catalog[p] # "missing" /\ catalog'[p] = "missing" /\ catalog' # catalog
    BY DEF Lost
  <1>2. ~(Publisher \/ User)
    <2>1. ~Record
      BY <1>1 DEF Record
    <2>2. ~(Undo \/ Release \/ \E q \in Paths, old \in SUBSET Paths : Place(q, old))
      BY <1>1 DEF Undo, Release, Place
    <2>3. ~User
      BY <1>1 DEF User, request_scan_run, Pause, Resume, Stop, StopQueued, ChangePolicy, Delete,
         files
    <2> QED
      BY <2>1, <2>2, <2>3 DEF Publisher
  <1>3. ~Restart
    BY <1>1 DEF Restart
  <1>4. ~Return /\ ~Fails /\ ~FailRun
    BY <1>1 DEF Return, Fails, FailRun, files
  <1>5. ~commit_scan_index_batch
    BY <1>1 DEF commit_scan_index_batch
  <1>6. ~(claim_next_scan_run \/ ResumeRun \/ Checkpoint \/ WorkerFails)
    BY <1>1 DEF claim_next_scan_run, ResumeRun, Checkpoint, Interrupted, WorkerFails, files
  <1>7. ~(\/ NextScope \/ RootUnavailable \/ ProbeTimesOut \/ BeginWalk
          \/ \E q \in Paths : WalkFile(q) \/ WalkDegrades(q)
          \/ WalkTimesOut \/ RetryWalk \/ GiveUpWalk \/ Drain)
    BY <1>1, <1>4 DEF NextScope, RootUnavailable, ProbeTimesOut, BeginWalk, WalkFile,
       WalkDegrades, WalkTimesOut, RetryWalk, GiveUpWalk, Drain, files
  <1>8. ~(PersistInventory \/ CheckFence \/ EndScopes)
    BY <1>1, <1>4 DEF PersistInventory, CheckFence, EndScopes, files
  <1>9. ~(\/ EndDiscovery \/ EndIndexing \/ EndReconciling \/ EndInventory \/ EndScope
          \/ EndReconcile \/ \E q \in Paths : ReadTags(q))
    BY <1>1, <1>4 DEF EndDiscovery, EndIndexing, EndReconciling, EndPhase, EndInventory,
       EndScope, EndReconcile, ReadTags, files
  <1>10. PICK q \in Paths : reconcile_scan_scope_batch(q)
    BY <1>2, <1>3, <1>5, <1>6, <1>7, <1>8, <1>9 DEF Next, Work
  <1> QED
    BY <1>1, <1>10 DEF reconcile_scan_scope_batch, TypeInv, FilesType

\* With one scope and a revision on record, a scan marks nothing missing that is on the
\* shelf, for every number of paths and every interleaving of publications, retried
\* walks, pauses and crashes (discover, reconcile, scan_revision).
THEOREM FenceProtects ==
  ASSUME NScopes = 1
  PROVE  Spec => FencedMissingIsGone
  <1>1. Init => TypeInv /\ FenceInv
    BY InitTypes, InitFence
  <1>2. TypeInv /\ FenceInv /\ [Next]_vars => (TypeInv /\ FenceInv)'
    BY NextTypes, NextKeepsFence
  <1>3. TypeInv /\ FenceInv /\ [Next]_vars =>
          [\A p \in Paths : Lost(p) /\ fence # "none" => p \notin shelf]_vars
    <2> SUFFICES ASSUME TypeInv, FenceInv, Next, NEW p \in Paths, Lost(p), fence # "none"
                 PROVE  p \notin shelf
      OBVIOUS
    <2>1. reconcile_scan_scope_batch(p)
      BY LosesOnlyByReconciling
    <2>2. at = 1 /\ scope[1] = "completed" /\ ~Publishing /\ pc = "reconcile"
      BY <2>1, OneScope DEF reconcile_scan_scope_batch
    <2>3. inventory[p] = "none" /\ fence = "current"
      BY <2>1 DEF reconcile_scan_scope_batch, Lost, allow_missing, TypeInv, FilesType, FenceType
    <2>4. state \notin Terminal
      BY <2>2, OneScope DEF FenceInv, RowsDropped, OffFiles
    <2>5. Undone = shelf
      BY <2>2 DEF Publishing, FenceInv, PublisherIdle, Undone
    <2> QED
      BY <2>2, <2>3, <2>4, <2>5 DEF FenceInv, FenceHolds
  <1> QED
    BY <1>1, <1>2, <1>3, PTL DEF Spec, FencedMissingIsGone

--------------------------------------------------------------------------------
(* A completed scan agrees with the shelf. While nobody touches the files   *)
(* and no resume overtakes the worker, the run is calm; what a calm run has *)
(* written so far is right, phase by phase.                                 *)

DiscoveryPCs == OnWalk \union {"discover", "discovered"}

\* The phase a run is in, or will go on with.
Phase == IF state \in Phases THEN state
         ELSE IF state \in {"pausing", "paused"} THEN resume_phase ELSE "none"

RowsClear ==
  state \in Terminal /\ pc = "idle" =>
    /\ fence = "none"
    /\ \A p \in Paths : inventory[p] = "none"
    /\ \A s \in Scopes : scope[s] = "pending" /\ cursor[s] = 0 /\ ~reconciled[s]

LocalsClear ==
  /\ pc \notin OnWalk => seen = {}
  /\ pc = "fence" => todo = {} /\ seen = {}
  /\ pc # "index" => tags = {} /\ bad = {}

PhaseOfPc ==
  /\ pc \in DiscoveryPCs => Phase \in {"discovering", "none"}
  /\ pc \in {"index", "indexed"} => Phase \in {"indexing", "none"}
  /\ pc \in {"reconcile", "reconciled"} => Phase \in {"reconciling", "none"}

Found(p)  == inventory[p] # "none"
Agrees(p) == catalog[p] = "indexed" <=> p \in shelf

FilesStill   == pub.step = "idle" /\ fence # "stale"
FoundIsThere == seen \subseteq shelf /\ \A p \in Paths : Found(p) => p \in shelf
ScopesWhole  == \A s \in Scopes : scope[s] = "completed" =>
                  \A p \in PathsOf(s) \intersect shelf : Found(p)
WalkWhole    == pc \in {"walk", "fence"} /\ ~degraded =>
                  \A p \in PathsOf(at) \intersect shelf : p \in todo \union seen \/ Found(p)
TagsPending  == \A p \in tags \union bad : inventory[p] = "read"
KnownRows    == \A p \in Paths : inventory[p] \in {"unchanged", "done"} => catalog[p] # "absent"
IndexedAll   == (pc = "indexed" /\ state \in Phases) \/ Phase = "reconciling" => Pending = {}
NotReconciled == Phase \in {"discovering", "indexing"} =>
                   \A s \in Scopes : cursor[s] = 0 /\ ~reconciled[s]
ReconciledAgrees ==
  Phase = "reconciling" =>
    \A s \in Scopes : \A p \in PathsOf(s) :
      scope[s] = "completed" /\ (p <= cursor[s] \/ reconciled[s]) /\ inventory[p] # "failed"
        => Agrees(p)
ReconciledSoFar ==
  /\ pc = "reconcile" => \A s \in Scopes : s < at /\ scope[s] = "completed" => reconciled[s]
  /\ pc = "reconciled" /\ state \in Phases =>
       \A s \in Scopes : scope[s] = "completed" => reconciled[s]

Calm == ~disturbed /\ state \notin Terminal

CalmFacts ==
  /\ FilesStill /\ FoundIsThere /\ ScopesWhole /\ WalkWhole /\ TagsPending
  /\ KnownRows /\ IndexedAll /\ NotReconciled /\ ReconciledAgrees /\ ReconciledSoFar

AgreeInv == RowsClear /\ LocalsClear /\ PhaseOfPc /\ (Calm => CalmFacts)

LEMMA InitAgrees == Init => AgreeInv
  BY DEF Init, AgreeInv, RowsClear, LocalsClear, PhaseOfPc, Calm, Terminal, OnWalk, DiscoveryPCs

\* Steps of the control flow: what was written stays, the phase stays or ends, and the
\* worker enters no walk; the end of a phase is entered for a reason.
ControlStep ==
  /\ UNCHANGED <<files, rows>> /\ fence' \in {fence, "none"}
  /\ Calm' => Calm
  /\ Phase' \in {Phase, "none"}
  /\ \/ pc' \notin {"walk", "fence"}
     \/ UNCHANGED <<pc, at, todo, degraded>> /\ seen' = seen
  /\ seen' \subseteq seen /\ tags' \subseteq tags /\ bad' \subseteq bad
  /\ pc' = "indexed" /\ state' \in Phases /\ Calm' =>
       (pc = "indexed" /\ state \in Phases) \/ Pending = {}
  /\ pc' = "reconcile" => (pc = "reconcile" /\ at' = at) \/ at' = 1
  /\ pc' = "reconciled" /\ state' \in Phases /\ Calm' =>
       (pc = "reconciled" /\ state \in Phases) \/ (pc = "reconcile" /\ at \notin Scopes)

LEMMA ControlStepKeepsFacts ==
  ASSUME TypeInv, Calm => CalmFacts, ControlStep
  PROVE  Calm' => CalmFacts'
  <1> SUFFICES ASSUME Calm', Calm, CalmFacts PROVE CalmFacts'
    BY DEF ControlStep
  <1> USE DEF ControlStep, CalmFacts
  <1>1. FilesStill' /\ FoundIsThere' /\ ScopesWhole' /\ TagsPending' /\ KnownRows'
    BY DEF FilesStill, FoundIsThere, ScopesWhole, TagsPending, KnownRows, Found, files, rows
  <1>2. WalkWhole'
    BY DEF WalkWhole, Found, files, rows
  <1>3. Pending' = Pending
    BY DEF Pending, rows
  <1>4. IndexedAll'
    BY <1>3 DEF IndexedAll
  <1>5. NotReconciled' /\ ReconciledAgrees'
    BY DEF NotReconciled, ReconciledAgrees, Agrees, files, rows
  <1>6. ReconciledSoFar'
    <2>1. ASSUME pc' = "reconcile", NEW s \in Scopes, s < at', scope'[s] = "completed"
          PROVE  reconciled'[s]
      BY <2>1, ConstantsOK DEF ReconciledSoFar, rows, Scopes
    <2>2. ASSUME pc' = "reconciled", state' \in Phases, NEW s \in Scopes,
                 scope'[s] = "completed"
          PROVE  reconciled'[s]
      <3>1. CASE pc = "reconciled" /\ state \in Phases
        BY <2>2, <3>1 DEF ReconciledSoFar, rows
      <3>2. CASE pc = "reconcile" /\ at \notin Scopes
        <4>1. at = NScopes + 1 /\ s < at
          BY <3>2, ConstantsOK DEF TypeInv, WorkerType, Scopes
        <4> QED
          BY <2>2, <3>2, <4>1 DEF ReconciledSoFar, rows
      <3> QED
        BY <2>2, <3>1, <3>2
    <2> QED
      BY <2>1, <2>2 DEF ReconciledSoFar
  <1> QED
    BY <1>1, <1>2, <1>4, <1>5, <1>6

\* The run takes a state of its own phase, or ends; the worker leaves the phase.
LEMMA MovesAgree ==
  ASSUME TypeInv, AgreeInv, NEW new, Moves(new), UNCHANGED files,
         new \in Terminal \/ (new \in {state, "paused"} /\ new = Settled),
         pc' \notin {"walk", "fence", "index", "reconcile"},
         pc' = "idle" \/ new \notin Phases,
         seen' \subseteq seen /\ tags' \subseteq tags /\ bad' \subseteq bad
  PROVE  /\ RowsClear' /\ (Calm' => CalmFacts')
         /\ Phase' \in {Phase, "none"}
  <1>1. CASE new \in Terminal
    <2>1. state' \in Terminal /\ ~Calm'
      BY <1>1 DEF Moves, Becomes, Calm
    <2>2. Phase' = "none"
      BY <2>1 DEF Phase, Terminal, Phases
    <2>3. RowsClear'
      BY <1>1 DEF RowsClear, Moves, Becomes
    <2> QED
      BY <2>1, <2>2, <2>3
  <1>2. CASE new \notin Terminal
    <2>1. state' = new /\ UNCHANGED <<rows, resume_phase, disturbed, fence>>
      BY <1>2 DEF Moves, Becomes
    <2>2. state \notin Terminal
      BY <1>2, StatesDiffer
    <2>3. Phase' = Phase
      BY <2>1, <1>2 DEF Phase, Settled, Phases, Control
    <2>4. ControlStep
      BY <1>2, <2>1, <2>2, <2>3 DEF ControlStep, Calm
    <2> QED
      BY <1>2, <2>1, <2>3, <2>4, ControlStepKeepsFacts DEF AgreeInv, RowsClear
  <1> QED
    BY <1>1, <1>2

LEMMA ReturnAgrees ==
  ASSUME TypeInv, AgreeInv, Return
  PROVE  AgreeInv'
  <1>1. /\ pc' = "idle" /\ seen' = {} /\ tags' = {} /\ bad' = {}
        /\ Moves(Settled) /\ UNCHANGED files
    BY DEF Return, Goto, OffWalk
  <1>2. Settled \in Terminal \/ Settled \in {state, "paused"}
    BY DEF Settled, Terminal
  <1>3. RowsClear' /\ (Calm' => CalmFacts')
    BY <1>1, <1>2, MovesAgree
  <1> QED
    BY <1>1, <1>3 DEF AgreeInv, LocalsClear, PhaseOfPc, DiscoveryPCs, OnWalk

LEMMA FailsAgrees ==
  ASSUME TypeInv, AgreeInv, Fails
  PROVE  AgreeInv'
  <1>1. /\ pc' = "discovered" /\ seen' = {} /\ tags' = {} /\ bad' = {}
        /\ Moves("failed") /\ UNCHANGED files
    BY DEF Fails, Goto, OffWalk
  <1>2. "failed" \in Terminal /\ "failed" \notin Phases
    BY DEF Terminal, Phases
  <1>3. RowsClear' /\ (Calm' => CalmFacts')
    <2>1. pc' \notin {"walk", "fence", "index", "reconcile"}
      BY <1>1
    <2> QED
      BY <1>1, <1>2, <2>1, MovesAgree
  <1>4. state' = "failed"
    BY <1>1 DEF Moves, Becomes
  <1>5. Phase' = "none"
    BY <1>4 DEF Phase, Phases
  <1> QED
    BY <1>1, <1>3, <1>5 DEF AgreeInv, LocalsClear, PhaseOfPc, DiscoveryPCs, OnWalk

LEMMA FailRunAgrees ==
  ASSUME TypeInv, AgreeInv, FailRun
  PROVE  AgreeInv'
  BY ReturnAgrees, FailsAgrees DEF FailRun

\* A control step that keeps the invariant's other parts.
LEMMA ControlStepAgrees ==
  ASSUME TypeInv, AgreeInv, ControlStep, RowsClear', LocalsClear', PhaseOfPc'
  PROVE  AgreeInv'
  BY ControlStepKeepsFacts DEF AgreeInv

LEMMA PublisherAgrees ==
  ASSUME TypeInv, AgreeInv, Publisher
  PROVE  AgreeInv'
  <1>1. UNCHANGED <<run, rows, locals>> \/ Release
    BY DEF Publisher, Place, Record, Undo
  <1>2. UNCHANGED <<state, resume_phase, pc, seen, todo, tags, bad, rows>>
    BY <1>1 DEF Release, run, locals, walk
  <1>3. fence' = fence \/ fence # "none"
    BY DEF Publisher, Place, Record, Undo, Release
  <1>4. RowsClear' /\ LocalsClear'
    BY <1>2, <1>3 DEF AgreeInv, RowsClear, LocalsClear, rows
  <1>5. PhaseOfPc'
    BY <1>2 DEF AgreeInv, PhaseOfPc, Phase
  <1>6. ~Calm'
    <2>1. CASE \E p \in Paths, old \in SUBSET Paths : Place(p, old)
      BY <2>1, <1>2 DEF Place, Calm, TypeInv, RunType
    <2>2. CASE Record \/ Undo \/ Release
      BY <1>2, <2>2 DEF Record, Undo, Release, AgreeInv, Calm, CalmFacts, FilesStill, history
    <2> QED
      BY <2>1, <2>2 DEF Publisher
  <1> QED
    BY <1>4, <1>5, <1>6 DEF AgreeInv

LEMMA UserAgrees ==
  ASSUME TypeInv, AgreeInv, User
  PROVE  AgreeInv'
  <1>1. ASSUME request_scan_run \/ StopQueued \/ ChangePolicy \/ Pause \/ Resume
        PROVE  AgreeInv'
    <2>1. UNCHANGED <<files, rows, fence, pc, at, todo, seen, degraded, tags, bad>>
      BY <1>1 DEF request_scan_run, StopQueued, ChangePolicy, Pause, Resume, locals, walk
    <2>2. Phase' = Phase /\ (state \in Terminal <=> state' \in Terminal)
      BY <1>1 DEF request_scan_run, StopQueued, ChangePolicy, Pause, Resume, Phase, Phases,
         Terminal, TypeInv, RunType, run
    <2>3. Calm' => Calm /\ (state' \in Phases => state \in Phases \/ pc = "idle")
      BY <1>1, <2>2 DEF request_scan_run, StopQueued, ChangePolicy, Pause, Resume, Calm,
         history, TypeInv, HistoryType, Phases
    <2>4. ControlStep
      BY <2>1, <2>2, <2>3 DEF ControlStep
    <2>5. RowsClear' /\ LocalsClear' /\ PhaseOfPc'
      BY <2>1, <2>2 DEF AgreeInv, RowsClear, LocalsClear, PhaseOfPc, rows
    <2> QED
      BY <2>4, <2>5, ControlStepAgrees
  <1>2. ASSUME Stop
        PROVE  AgreeInv'
    <2>1. UNCHANGED <<files, pc, at, todo, seen, degraded, tags, bad>>
      BY <1>2 DEF Stop, locals, walk
    <2>2. LocalsClear'
      BY <2>1 DEF AgreeInv, LocalsClear
    <2>3. state' \in {"cancelled", "stopping"}
      BY <1>2 DEF Stop, Moves, Becomes
    <2>4. Phase' = "none"
      BY <2>3 DEF Phase, Phases
    <2>5. PhaseOfPc'
      BY <2>4 DEF PhaseOfPc
    <2>6. CASE state' = "cancelled"
      <3>1. ~Calm' /\ RowsClear'
        BY <1>2, <2>6 DEF Stop, Moves, Becomes, Calm, RowsClear, Terminal
      <3> QED
        BY <2>2, <2>5, <3>1 DEF AgreeInv
    <2>7. CASE state' = "stopping"
      <3>1. UNCHANGED <<rows, disturbed, fence>> /\ state \notin Terminal /\ state' \notin Terminal
        BY <1>2, <2>7 DEF Stop, Moves, Becomes, Terminal, Phases
      <3>2. ControlStep
        BY <2>1, <2>4, <2>7, <3>1 DEF ControlStep, Calm, Phases
      <3>3. RowsClear'
        BY <3>1 DEF RowsClear
      <3> QED
        BY <2>2, <2>5, <3>2, <3>3, ControlStepAgrees
    <2> QED
      BY <2>3, <2>6, <2>7
  <1>3. ASSUME NEW p \in Paths, Delete(p)
        PROVE  AgreeInv'
    <2>1. UNCHANGED <<run, rows, fence, locals>>
      BY <1>3 DEF Delete
    <2>2. RowsClear' /\ LocalsClear' /\ PhaseOfPc'
      BY <2>1 DEF AgreeInv, RowsClear, LocalsClear, PhaseOfPc, Phase, run, rows, locals, walk
    <2>3. ~Calm'
      BY <1>3, <2>1 DEF Delete, Calm, TypeInv, RunType, run
    <2> QED
      BY <2>2, <2>3 DEF AgreeInv
  <1> QED
    BY <1>1, <1>2, <1>3 DEF User

LEMMA ClaimAgrees ==
  ASSUME TypeInv, AgreeInv, claim_next_scan_run
  PROVE  AgreeInv'
  <1>1. /\ pc' = "discover" /\ at' = 1 /\ tags' = {} /\ bad' = {} /\ state' = "discovering"
        /\ UNCHANGED <<files, fence, rows, seen, todo>> /\ disturbed' = Publishing
        /\ pc = "idle" /\ state \in Terminal
    BY DEF claim_next_scan_run, Goto, walk
  <1>2. /\ fence = "none" /\ seen = {}
        /\ \A p \in Paths : inventory[p] = "none"
        /\ \A s \in Scopes : scope[s] = "pending" /\ cursor[s] = 0 /\ ~reconciled[s]
    BY <1>1 DEF AgreeInv, RowsClear, LocalsClear, OnWalk
  <1>3. Phase' = "discovering"
    BY <1>1 DEF Phase, Phases
  <1>4. RowsClear' /\ LocalsClear' /\ PhaseOfPc'
    BY <1>1, <1>2, <1>3 DEF RowsClear, LocalsClear, PhaseOfPc, Terminal, OnWalk
  <1>5. ASSUME Calm'
        PROVE  CalmFacts'
    <2>1. pub.step = "idle"
      BY <1>1, <1>5 DEF Calm, Publishing
    <2>2. FilesStill' /\ FoundIsThere' /\ TagsPending' /\ KnownRows'
      BY <1>1, <1>2, <2>1 DEF FilesStill, FoundIsThere, TagsPending, KnownRows, Found, files, rows
    <2>3. ScopesWhole' /\ WalkWhole'
      BY <1>1, <1>2 DEF ScopesWhole, WalkWhole, rows
    <2>4. IndexedAll' /\ NotReconciled' /\ ReconciledAgrees' /\ ReconciledSoFar'
      BY <1>1, <1>2, <1>3 DEF IndexedAll, NotReconciled, ReconciledAgrees, ReconciledSoFar, rows
    <2> QED
      BY <2>2, <2>3, <2>4 DEF CalmFacts
  <1> QED
    BY <1>4, <1>5 DEF AgreeInv

LEMMA ResumeRunAgrees ==
  ASSUME TypeInv, AgreeInv, ResumeRun
  PROVE  AgreeInv'
  <1>1. /\ at' = 1 /\ tags' = {} /\ bad' = {} /\ pc = "idle" /\ state \in Phases
        /\ UNCHANGED <<files, fence, run, seen, todo, disturbed>>
    BY DEF ResumeRun, Goto, walk, history
  <1>2. /\ state = "discovering" => pc' = "discover"
        /\ state = "indexing" => pc' = "index"
        /\ state = "reconciling" => pc' = "reconcile"
    BY DEF ResumeRun, Goto
  <1>3. Phase = state /\ Phase' = state /\ state' = state /\ state \notin Terminal /\ (Calm' <=> Calm)
    BY <1>1, StatesDiffer DEF Phase, run, Calm
  <1>4. RowsClear' /\ LocalsClear' /\ PhaseOfPc'
    BY <1>1, <1>2, <1>3 DEF AgreeInv, RowsClear, LocalsClear, PhaseOfPc, Phases, OnWalk, DiscoveryPCs
  <1>5. CASE state # "discovering"
    <2>1. UNCHANGED rows
      BY <1>5 DEF ResumeRun
    <2>2. ControlStep
      BY <1>1, <1>2, <1>3, <1>5, <2>1 DEF ControlStep, Phases
    <2> QED
      BY <1>4, <2>2, ControlStepAgrees
  <1>6. ASSUME state = "discovering", Calm
        PROVE  CalmFacts'
    <2> DEFINE S == {s \in Scopes : scope[s] # "completed"}
    <2>1. NewGeneration(S) /\ pc' = "discover"
      BY <1>2, <1>6 DEF ResumeRun
    <2>2. /\ \A s \in Scopes : scope'[s] = "completed" => scope[s] = "completed"
          /\ \A p \in Paths : inventory'[p] = "none" \/ inventory'[p] = inventory[p]
          /\ \A p \in Paths : ScopeOf(p) \notin S => inventory'[p] = inventory[p]
          /\ UNCHANGED <<cursor, reconciled>>
      BY <2>1 DEF NewGeneration
    <2>3. CalmFacts
      BY <1>6 DEF AgreeInv
    <2>4. FilesStill' /\ FoundIsThere' /\ TagsPending' /\ KnownRows'
      BY <1>1, <2>2, <2>3 DEF CalmFacts, FilesStill, FoundIsThere, TagsPending, KnownRows, Found, files
    <2>5. ScopesWhole' /\ WalkWhole'
      BY <1>1, <2>1, <2>2, <2>3 DEF CalmFacts, ScopesWhole, WalkWhole, Found, PathsOf, files
    <2>6. IndexedAll' /\ NotReconciled' /\ ReconciledAgrees' /\ ReconciledSoFar'
      BY <1>3, <1>6, <2>1, <2>2, <2>3 DEF CalmFacts, IndexedAll, NotReconciled, ReconciledAgrees,
         ReconciledSoFar
    <2> QED
      BY <2>4, <2>5, <2>6 DEF CalmFacts
  <1> QED
    BY <1>3, <1>4, <1>5, <1>6 DEF AgreeInv

LEMMA WorkerFailsAgrees ==
  ASSUME TypeInv, AgreeInv, WorkerFails
  PROVE  AgreeInv'
  <1> DEFINE new == IF state \in Phases THEN "failed" ELSE Settled
  <1>1. /\ pc' = "idle" /\ seen' = {} /\ tags' = {} /\ bad' = {}
        /\ Moves(new) /\ UNCHANGED files
    BY DEF WorkerFails, Goto, OffWalk
  <1>2. new \in Terminal \/ (new \in {state, "paused"} /\ new = Settled)
    BY DEF Settled, Terminal
  <1>3. RowsClear' /\ (Calm' => CalmFacts')
    BY <1>1, <1>2, MovesAgree
  <1> QED
    BY <1>1, <1>3 DEF AgreeInv, LocalsClear, PhaseOfPc, DiscoveryPCs, OnWalk

LEMMA CheckpointAgrees ==
  ASSUME TypeInv, AgreeInv, Checkpoint
  PROVE  AgreeInv'
  <1> SUFFICES ASSUME NEW here, NEW next, Interrupted(here, next),
                      <<here, next>> \in {<<"discover", "discovered">>, <<"walk", "drained">>,
                        <<"stalled", "drained">>, <<"index", "indexed">>, <<"indexed", "idle">>,
                        <<"reconcile", "reconciled">>, <<"reconciled", "idle">>}
               PROVE  AgreeInv'
    BY DEF Checkpoint
  <1> DEFINE new == IF outdated /\ state \in Phases \union {"pausing", "paused"}
                    THEN "superseded_policy_changed" ELSE Settled
  <1>1. /\ pc = here /\ pc' = next /\ seen' = seen /\ todo' = todo /\ tags' = {} /\ bad' = {}
        /\ Moves(new) /\ UNCHANGED files
    BY DEF Interrupted, walk
  <1>2. new \in Terminal \/ (new \in {state, "paused"} /\ new = Settled)
    BY DEF Settled, Terminal
  <1>3. new \notin Phases
    BY DEF Interrupted, Settled, Phases, Control, TypeInv, RunType
  <1>4. next \notin {"walk", "fence", "index", "reconcile"}
    OBVIOUS
  <1>5. RowsClear' /\ (Calm' => CalmFacts') /\ Phase' \in {Phase, "none"}
    BY <1>1, <1>2, <1>3, <1>4, MovesAgree
  <1>6. LocalsClear'
    BY <1>1 DEF AgreeInv, LocalsClear, OnWalk
  <1>7. PhaseOfPc'
    BY <1>1, <1>5 DEF AgreeInv, PhaseOfPc, OnWalk, DiscoveryPCs
  <1> QED
    BY <1>5, <1>6, <1>7 DEF AgreeInv

\* A step of the discovery that leaves the catalogue, the reconciliation and the run
\* alone, and drops or keeps what it has found, is judged by scopes and walk only.
LEMMA DiscoveryStepAgrees ==
  ASSUME TypeInv, AgreeInv, UNCHANGED <<files, run, cursor, reconciled, tags, bad, disturbed>>,
         pc \in DiscoveryPCs, pc' \in DiscoveryPCs, state \notin Terminal => fence' # "stale" \/ fence' = fence,
         LocalsClear',
         Calm /\ CalmFacts => FoundIsThere' /\ ScopesWhole' /\ WalkWhole' /\ KnownRows'
  PROVE  AgreeInv'
  <1>1. pc \notin {"idle", "index", "indexed", "reconcile", "reconciled"}
        /\ pc' \notin {"idle", "index", "indexed", "reconcile", "reconciled"}
    BY DEF DiscoveryPCs, OnWalk
  <1>2. Phase' = Phase /\ (Calm' <=> Calm) /\ Phase \in {"discovering", "none"}
    BY DEF Phase, Calm, run, AgreeInv, PhaseOfPc
  <1>3. RowsClear' /\ PhaseOfPc'
    BY <1>1, <1>2 DEF RowsClear, PhaseOfPc
  <1>4. ASSUME Calm
        PROVE  CalmFacts'
    <2>1. CalmFacts
      BY <1>4 DEF AgreeInv
    <2>2. FilesStill'
      BY <1>4, <2>1 DEF Calm, CalmFacts, FilesStill, files
    <2>3. tags \union bad = {}
      BY <1>1 DEF AgreeInv, LocalsClear
    <2>4. TagsPending'
      BY <2>3 DEF TagsPending
    <2>5. IndexedAll' /\ NotReconciled' /\ ReconciledAgrees' /\ ReconciledSoFar'
      BY <1>1, <1>2, <2>1 DEF CalmFacts, IndexedAll, NotReconciled, ReconciledAgrees,
         ReconciledSoFar
    <2> QED
      BY <1>4, <2>1, <2>2, <2>4, <2>5 DEF CalmFacts
  <1> QED
    BY <1>2, <1>3, <1>4 DEF AgreeInv

\* A new walk of a scope: nothing was found in it yet.
LEMMA StartWalkWhole ==
  ASSUME TypeInv, at \in Scopes, NEW n, StartWalk(n), UNCHANGED files, tags = {}, bad = {}
  PROVE  WalkWhole' /\ LocalsClear' /\ seen' = {} /\ pc' = "walk"
  <1>1. pc' = "walk" /\ todo' = PathsOf(at) /\ seen' = {} /\ at' = at /\ UNCHANGED <<tags, bad>>
    BY DEF StartWalk
  <1> QED
    BY <1>1 DEF WalkWhole, LocalsClear, OnWalk

LEMMA NewGenerationFacts ==
  ASSUME TypeInv, CalmFacts, NEW S, NewGeneration(S), UNCHANGED files, seen' = {}
  PROVE  FoundIsThere' /\ ScopesWhole' /\ KnownRows'
  <1>1. /\ \A s \in Scopes : scope'[s] = "completed" => s \notin S /\ scope[s] = "completed"
        /\ \A p \in Paths : inventory'[p] = "none" \/ inventory'[p] = inventory[p]
        /\ \A p \in Paths : ScopeOf(p) \notin S => inventory'[p] = inventory[p]
    BY DEF NewGeneration
  <1>2. FoundIsThere' /\ KnownRows'
    BY <1>1 DEF CalmFacts, FoundIsThere, KnownRows, Found, files
  <1>3. ScopesWhole'
    BY <1>1 DEF CalmFacts, ScopesWhole, Found, PathsOf, files
  <1> QED
    BY <1>2, <1>3

LEMMA WalkAgrees ==
  ASSUME TypeInv, AgreeInv,
         \/ NextScope \/ RootUnavailable \/ ProbeTimesOut \/ BeginWalk
         \/ \E p \in Paths : WalkFile(p) \/ WalkDegrades(p)
         \/ WalkTimesOut \/ RetryWalk \/ GiveUpWalk \/ Drain
  PROVE  AgreeInv'
  <1>0. LocalsClear
    BY DEF AgreeInv
  <1>1. ASSUME NextScope
        PROVE  AgreeInv'
    <2>1. /\ UNCHANGED <<files, run, rows, fence, tags, bad, disturbed, seen, todo>>
          /\ pc = "discover" /\ pc' = "discover"
      BY <1>1 DEF NextScope, walk, history
    <2>2. LocalsClear'
      BY <1>0, <2>1 DEF LocalsClear, OnWalk
    <2>3. CalmFacts => FoundIsThere' /\ ScopesWhole' /\ WalkWhole' /\ KnownRows'
      BY <2>1 DEF CalmFacts, FoundIsThere, ScopesWhole, WalkWhole, KnownRows, Found, files, rows
    <2> QED
      BY <2>1, <2>2, <2>3, DiscoveryStepAgrees DEF DiscoveryPCs, rows
  <1>2. ASSUME RootUnavailable
        PROVE  AgreeInv'
    <2>1. /\ UNCHANGED <<files, run, inventory, cursor, reconciled, fence, tags, bad, disturbed,
                         seen, todo>>
          /\ pc = "discover" /\ pc' = "discover"
          /\ \A s \in Scopes : scope'[s] = "completed" => scope[s] = "completed"
      BY <1>2 DEF RootUnavailable, ToWalk, walk, history, TypeInv, RowsType
    <2>2. LocalsClear'
      BY <1>0, <2>1 DEF LocalsClear, OnWalk
    <2>3. CalmFacts => FoundIsThere' /\ ScopesWhole' /\ WalkWhole' /\ KnownRows'
      BY <2>1 DEF CalmFacts, FoundIsThere, ScopesWhole, WalkWhole, KnownRows, Found, files
    <2> QED
      BY <2>1, <2>2, <2>3, DiscoveryStepAgrees DEF DiscoveryPCs
  <1>3. ASSUME ProbeTimesOut \/ GiveUpWalk
        PROVE  AgreeInv'
    BY <1>3, FailRunAgrees DEF ProbeTimesOut, GiveUpWalk
  <1>4. ASSUME BeginWalk
        PROVE  AgreeInv'
    <2>1. /\ UNCHANGED <<files, run, rows, fence, tags, bad, disturbed>>
          /\ pc = "discover" /\ at \in Scopes /\ StartWalk(0)
      BY <1>4 DEF BeginWalk, ToWalk, StartWalk, history
    <2>2. tags = {} /\ bad = {}
      BY <1>0, <2>1 DEF LocalsClear
    <2>3. WalkWhole' /\ LocalsClear' /\ seen' = {} /\ pc' = "walk"
      BY <2>1, <2>2, StartWalkWhole
    <2>4. CalmFacts => FoundIsThere' /\ ScopesWhole' /\ WalkWhole' /\ KnownRows'
      BY <2>1, <2>3 DEF CalmFacts, FoundIsThere, ScopesWhole, KnownRows, Found, files, rows
    <2> QED
      BY <2>1, <2>3, <2>4, DiscoveryStepAgrees DEF DiscoveryPCs, OnWalk, rows
  <1>5. ASSUME NEW p \in Paths, WalkFile(p) \/ WalkDegrades(p)
        PROVE  AgreeInv'
    <2>1. /\ UNCHANGED <<files, run, rows, fence, tags, bad, disturbed, at>>
          /\ pc = "walk" /\ pc' = "walk"
      BY <1>5 DEF WalkFile, WalkDegrades, history
    <2>2. LocalsClear'
      BY <1>0, <2>1 DEF LocalsClear, OnWalk
    <2>3. CalmFacts => FoundIsThere' /\ ScopesWhole' /\ KnownRows'
      BY <1>5, <2>1 DEF WalkFile, WalkDegrades, CalmFacts, FoundIsThere, ScopesWhole, KnownRows,
         Found, files, rows
    <2>4. CalmFacts => WalkWhole'
      BY <1>5, <2>1 DEF WalkFile, WalkDegrades, CalmFacts, WalkWhole, Found, files, rows
    <2> QED
      BY <2>1, <2>2, <2>3, <2>4, DiscoveryStepAgrees DEF DiscoveryPCs, OnWalk, rows
  <1>6. ASSUME WalkTimesOut
        PROVE  AgreeInv'
    <2>1. /\ UNCHANGED <<files, run, inventory, cursor, reconciled, fence, tags, bad, disturbed>>
          /\ pc = "walk" /\ pc' = "stalled" /\ seen' = {}
          /\ \A s \in Scopes : scope'[s] = "completed" => scope[s] = "completed"
      BY <1>6 DEF WalkTimesOut, history, TypeInv, RowsType
    <2>2. LocalsClear'
      BY <1>0, <2>1 DEF LocalsClear, OnWalk
    <2>3. CalmFacts => FoundIsThere' /\ ScopesWhole' /\ WalkWhole' /\ KnownRows'
      BY <2>1 DEF CalmFacts, FoundIsThere, ScopesWhole, WalkWhole, KnownRows, Found, files
    <2> QED
      BY <2>1, <2>2, <2>3, DiscoveryStepAgrees DEF DiscoveryPCs, OnWalk
  <1>7. ASSUME RetryWalk
        PROVE  AgreeInv'
    <2>1. /\ UNCHANGED <<files, run, cursor, reconciled, fence, tags, bad, disturbed>>
          /\ pc = "stalled" /\ at \in Scopes /\ StartWalk(restarts + 1) /\ NewGeneration({at})
      BY <1>7 DEF RetryWalk, StartWalk, NewGeneration, history, TypeInv, WorkerType, OnWalk
    <2>2. tags = {} /\ bad = {}
      BY <1>0, <2>1 DEF LocalsClear
    <2>3. WalkWhole' /\ LocalsClear' /\ seen' = {} /\ pc' = "walk"
      BY <2>1, <2>2, StartWalkWhole
    <2>4. CalmFacts => FoundIsThere' /\ ScopesWhole' /\ KnownRows'
      BY <2>1, <2>3, NewGenerationFacts
    <2> QED
      BY <2>1, <2>3, <2>4, DiscoveryStepAgrees DEF DiscoveryPCs, OnWalk
  <1>8. ASSUME Drain
        PROVE  AgreeInv'
    <2>1. CASE state = "discovering"
      BY <1>8, <2>1, FailsAgrees DEF Drain
    <2>2. CASE state # "discovering"
      <3>1. /\ UNCHANGED <<files, run, inventory, cursor, reconciled, fence, disturbed>>
            /\ pc = "drained" /\ pc' = "discovered" /\ seen' = {} /\ tags' = {} /\ bad' = {}
            /\ \A s \in Scopes : scope'[s] = "completed" => scope[s] = "completed"
        BY <1>8, <2>2 DEF Drain, Goto, OffWalk, history, TypeInv, RowsType
      <3>2. LocalsClear' /\ UNCHANGED <<tags, bad>>
        BY <1>0, <3>1 DEF LocalsClear, OnWalk
      <3>3. CalmFacts => FoundIsThere' /\ ScopesWhole' /\ WalkWhole' /\ KnownRows'
        BY <3>1 DEF CalmFacts, FoundIsThere, ScopesWhole, WalkWhole, KnownRows, Found, files
      <3> QED
        BY <3>1, <3>2, <3>3, DiscoveryStepAgrees DEF DiscoveryPCs, OnWalk
    <2> QED
      BY <2>1, <2>2
  <1> QED
    BY <1>1, <1>2, <1>3, <1>4, <1>5, <1>6, <1>7, <1>8

LEMMA InventoryAgrees ==
  ASSUME TypeInv, AgreeInv, PersistInventory \/ CheckFence \/ EndScopes
  PROVE  AgreeInv'
  <1>0. LocalsClear
    BY DEF AgreeInv
  <1>1. ASSUME PersistInventory
        PROVE  AgreeInv'
    <2>1. CASE state = "discovering" \/ seen = {}
      <3>1. /\ UNCHANGED <<files, run, scope, cursor, reconciled, fence, tags, bad, disturbed, at,
                           todo, degraded>>
            /\ pc = "walk" /\ pc' = "fence" /\ seen' = {} /\ todo = {}
            /\ \A p \in Paths : p \notin seen => inventory'[p] = inventory[p]
            /\ \A p \in Paths : p \in seen =>
                 /\ inventory'[p] = "read" \/ inventory'[p] = "unchanged"
                 /\ catalog[p] = "absent" => inventory'[p] = "read"
        BY <1>1, <2>1 DEF PersistInventory, history
      <3>2. LocalsClear'
        BY <1>0, <3>1 DEF LocalsClear, OnWalk
      <3>3. CalmFacts => KnownRows'
        BY <3>1 DEF CalmFacts, KnownRows, files
      <3>4. \A p \in Paths : Found(p)' <=> (Found(p) \/ p \in seen)
        <4> SUFFICES ASSUME NEW p \in Paths PROVE Found(p)' <=> (Found(p) \/ p \in seen)
          OBVIOUS
        <4>1. CASE p \in seen
          BY <3>1, <4>1 DEF Found
        <4>2. CASE p \notin seen
          BY <3>1, <4>2 DEF Found
        <4> QED
          BY <4>1, <4>2
      <3>7. CalmFacts => FoundIsThere'
        BY <3>1, <3>4 DEF CalmFacts, FoundIsThere, files
      <3>5. CalmFacts => ScopesWhole'
        BY <3>1, <3>4 DEF CalmFacts, ScopesWhole, PathsOf, files
      <3>6. CalmFacts => WalkWhole'
        BY <3>1, <3>4 DEF CalmFacts, WalkWhole, PathsOf, files
      <3> QED
        BY <3>1, <3>2, <3>3, <3>5, <3>6, <3>7, DiscoveryStepAgrees DEF DiscoveryPCs, OnWalk
    <2>2. CASE ~(state = "discovering" \/ seen = {})
      BY <1>1, <2>2, ReturnAgrees DEF PersistInventory
    <2> QED
      BY <2>1, <2>2
  <1>2. ASSUME CheckFence
        PROVE  AgreeInv'
    <2>0. /\ UNCHANGED <<files, run, disturbed>> /\ pc = "fence" /\ at \in Scopes
          /\ tags = {} /\ bad = {} /\ seen = {} /\ todo = {}
      BY <1>0, <1>2 DEF CheckFence, history, LocalsClear, TypeInv, WorkerType, OnWalk
    <2>1. CASE changed /\ restarts + 1 < WalkRetries
      <3>1. /\ UNCHANGED <<cursor, reconciled, fence, tags, bad>>
            /\ StartWalk(restarts + 1) /\ NewGeneration({at})
        BY <1>2, <2>1 DEF CheckFence, StartWalk, NewGeneration
      <3>2. WalkWhole' /\ LocalsClear' /\ seen' = {} /\ pc' = "walk"
        BY <2>0, <3>1, StartWalkWhole
      <3>3. CalmFacts => FoundIsThere' /\ ScopesWhole' /\ KnownRows'
        BY <2>0, <3>1, <3>2, NewGenerationFacts
      <3> QED
        BY <2>0, <3>1, <3>2, <3>3, DiscoveryStepAgrees DEF DiscoveryPCs, OnWalk
    <2>2. CASE ~(changed /\ restarts + 1 < WalkRetries)
      <3>1. /\ UNCHANGED <<inventory, cursor, reconciled, tags, bad>>
            /\ fence' \in {fence, "current"} /\ pc' = "discover" /\ seen' = {}
            /\ scope' = [scope EXCEPT ![at] =
                           IF changed \/ degraded THEN "partially_read" ELSE "completed"]
        BY <1>2, <2>2 DEF CheckFence, OffWalk
      <3>2. LocalsClear'
        BY <2>0, <3>1 DEF LocalsClear, OnWalk
      <3>3. CalmFacts => FoundIsThere' /\ WalkWhole' /\ KnownRows'
        BY <2>0, <3>1 DEF CalmFacts, FoundIsThere, WalkWhole, KnownRows, Found, files
      <3>4. CalmFacts => ScopesWhole'
        <4> SUFFICES ASSUME CalmFacts, NEW s \in Scopes, scope'[s] = "completed",
                            NEW p \in PathsOf(s) \intersect shelf
                     PROVE  Found(p)
          BY <2>0, <3>1 DEF ScopesWhole, Found, files
        <4>1. CASE s = at
          <5>1. ~degraded
            BY <2>0, <3>1, <4>1 DEF TypeInv, RowsType
          <5> QED
            BY <2>0, <4>1, <5>1 DEF CalmFacts, WalkWhole
        <4>2. CASE s # at
          BY <3>1, <4>2 DEF CalmFacts, ScopesWhole, TypeInv, RowsType
        <4> QED
          BY <4>1, <4>2
      <3> QED
        BY <2>0, <3>1, <3>2, <3>3, <3>4, DiscoveryStepAgrees DEF DiscoveryPCs, OnWalk
    <2> QED
      BY <2>1, <2>2
  <1>3. ASSUME EndScopes
        PROVE  AgreeInv'
    <2>1. CASE FailRun
      BY <2>1, FailRunAgrees
    <2>2. CASE Goto("discovered")
               /\ UNCHANGED <<files, fence, changed, run, rows, walk, history>>
      <3>1. /\ UNCHANGED <<files, run, rows, fence, disturbed, seen, todo>>
            /\ pc = "discover" /\ pc' = "discovered" /\ tags' = {} /\ bad' = {}
        BY <1>3, <2>2 DEF EndScopes, Goto, walk, history
      <3>2. LocalsClear' /\ UNCHANGED <<tags, bad>>
        BY <1>0, <3>1 DEF LocalsClear, OnWalk
      <3>3. CalmFacts => FoundIsThere' /\ ScopesWhole' /\ WalkWhole' /\ KnownRows'
        BY <3>1 DEF CalmFacts, FoundIsThere, ScopesWhole, WalkWhole, KnownRows, Found, files, rows
      <3> QED
        BY <3>1, <3>2, <3>3, DiscoveryStepAgrees DEF DiscoveryPCs, rows
    <2> QED
      BY <1>3, <2>1, <2>2 DEF EndScopes
  <1> QED
    BY <1>1, <1>2, <1>3

LEMMA EndPhaseAgrees ==
  ASSUME TypeInv, AgreeInv, EndDiscovery \/ EndIndexing \/ EndReconciling
  PROVE  AgreeInv'
  <1>1. CASE Return
    BY <1>1, ReturnAgrees
  <1>2. ASSUME EndDiscovery, ~Return
        PROVE  AgreeInv'
    <2>1. /\ pc = "discovered" /\ pc' = "index" /\ at' = 1 /\ tags' = {} /\ bad' = {}
          /\ state = "discovering" /\ state' = "indexing"
          /\ UNCHANGED <<files, rows, seen, fence, disturbed>>
      BY <1>2 DEF EndDiscovery, EndPhase, Goto, Moves, Becomes, Terminal, walk
    <2>2. seen = {}
      BY <2>1 DEF AgreeInv, LocalsClear, OnWalk
    <2>3. Phase = "discovering" /\ Phase' = "indexing" /\ (Calm' => Calm)
      BY <2>1 DEF Phase, Phases, Calm, Terminal
    <2>4. RowsClear' /\ LocalsClear' /\ PhaseOfPc'
      BY <2>1, <2>2, <2>3 DEF RowsClear, LocalsClear, PhaseOfPc, OnWalk, DiscoveryPCs
    <2>5. ASSUME CalmFacts
          PROVE  CalmFacts'
      <3>1. FilesStill' /\ FoundIsThere' /\ ScopesWhole' /\ TagsPending' /\ KnownRows'
        BY <2>1, <2>5 DEF CalmFacts, FilesStill, FoundIsThere, ScopesWhole, TagsPending,
           KnownRows, Found, files, rows
      <3>2. WalkWhole' /\ IndexedAll' /\ ReconciledAgrees' /\ ReconciledSoFar'
        BY <2>1, <2>3 DEF WalkWhole, IndexedAll, ReconciledAgrees, ReconciledSoFar
      <3>3. NotReconciled'
        BY <2>1, <2>3, <2>5 DEF CalmFacts, NotReconciled, rows
      <3> QED
        BY <3>1, <3>2, <3>3 DEF CalmFacts
    <2> QED
      BY <2>3, <2>4, <2>5 DEF AgreeInv
  <1>3. ASSUME EndIndexing, ~Return
        PROVE  AgreeInv'
    <2>1. /\ pc = "indexed" /\ pc' = "reconcile" /\ at' = 1 /\ tags' = {} /\ bad' = {}
          /\ state = "indexing" /\ state' = "reconciling"
          /\ UNCHANGED <<files, rows, seen, fence, disturbed>>
      BY <1>3 DEF EndIndexing, EndPhase, Goto, Moves, Becomes, Terminal, walk
    <2>2. seen = {}
      BY <2>1 DEF AgreeInv, LocalsClear, OnWalk
    <2>3. Phase = "indexing" /\ Phase' = "reconciling" /\ (Calm' => Calm)
      BY <2>1 DEF Phase, Phases, Calm, Terminal
    <2>4. RowsClear' /\ LocalsClear' /\ PhaseOfPc'
      BY <2>1, <2>2, <2>3 DEF RowsClear, LocalsClear, PhaseOfPc, OnWalk, DiscoveryPCs
    <2>5. ASSUME CalmFacts
          PROVE  CalmFacts'
      <3>1. FilesStill' /\ FoundIsThere' /\ ScopesWhole' /\ TagsPending' /\ KnownRows'
        BY <2>1, <2>5 DEF CalmFacts, FilesStill, FoundIsThere, ScopesWhole, TagsPending,
           KnownRows, Found, files, rows
      <3>2. WalkWhole' /\ NotReconciled'
        BY <2>1, <2>3 DEF WalkWhole, NotReconciled
      <3>3. Pending = {}
        BY <2>1, <2>5 DEF CalmFacts, IndexedAll, Phases
      <3>4. IndexedAll'
        BY <2>1, <3>3 DEF IndexedAll, Pending, rows
      <3>5. \A s \in Scopes : cursor[s] = 0 /\ ~reconciled[s]
        BY <2>3, <2>5 DEF CalmFacts, NotReconciled
      <3>6. ReconciledAgrees'
        BY <2>1, <3>5 DEF ReconciledAgrees, PathsOf, Paths, rows
      <3>7. ReconciledSoFar'
        BY <2>1, ConstantsOK DEF ReconciledSoFar, Scopes
      <3> QED
        BY <3>1, <3>2, <3>4, <3>6, <3>7 DEF CalmFacts
    <2> QED
      BY <2>3, <2>4, <2>5 DEF AgreeInv
  <1>4. ASSUME EndReconciling, ~Return
        PROVE  AgreeInv'
    <2>1. /\ pc' = "idle" /\ seen' = seen /\ tags' = {} /\ bad' = {}
          /\ Moves("completed") /\ UNCHANGED files /\ pc = "reconciled"
      BY <1>4 DEF EndReconciling, EndPhase, Goto, walk
    <2>2. RowsClear' /\ (Calm' => CalmFacts')
      BY <2>1, MovesAgree DEF Terminal
    <2> QED
      BY <2>1, <2>2 DEF AgreeInv, LocalsClear, PhaseOfPc, DiscoveryPCs, OnWalk
  <1> QED
    BY <1>1, <1>2, <1>3, <1>4


LEMMA IndexAgrees ==
  ASSUME TypeInv, AgreeInv,
         (\E p \in Paths : ReadTags(p)) \/ commit_scan_index_batch \/ EndInventory
  PROVE  AgreeInv'
  <1>0. LocalsClear /\ Phase \in {"indexing", "none"} /\ pc = "index" /\ seen = {}
    BY DEF ReadTags, commit_scan_index_batch, EndInventory, AgreeInv, LocalsClear, PhaseOfPc,
       OnWalk
  <1>1. ASSUME NEW p \in Paths, ReadTags(p)
        PROVE  AgreeInv'
    <2>1. /\ UNCHANGED <<files, rows, run, fence, pc, at, seen, todo, degraded, disturbed>>
          /\ inventory[p] = "read" /\ tags' \union bad' = tags \union bad \union {p}
      BY <1>1 DEF ReadTags, walk, history
    <2>2. Phase' = Phase /\ (Calm' <=> Calm)
      BY <2>1 DEF Phase, Calm, run
    <2>3. RowsClear' /\ LocalsClear' /\ PhaseOfPc'
      BY <1>0, <2>1, <2>2 DEF RowsClear, LocalsClear, PhaseOfPc, OnWalk, DiscoveryPCs
    <2>4. ASSUME CalmFacts
          PROVE  CalmFacts'
      <3>1. FilesStill' /\ FoundIsThere' /\ ScopesWhole' /\ KnownRows' /\ TagsPending'
        BY <2>1, <2>4 DEF CalmFacts, FilesStill, FoundIsThere, ScopesWhole, TagsPending,
           KnownRows, Found, files, rows
      <3>2. NotReconciled'
        BY <2>1, <2>2, <2>4 DEF CalmFacts, NotReconciled, rows
      <3>3. WalkWhole' /\ IndexedAll' /\ ReconciledAgrees' /\ ReconciledSoFar'
        BY <1>0, <2>1, <2>2 DEF WalkWhole, IndexedAll, ReconciledAgrees, ReconciledSoFar
      <3> QED
        BY <3>1, <3>2, <3>3 DEF CalmFacts
    <2> QED
      BY <2>2, <2>3, <2>4 DEF AgreeInv
  <1>2. ASSUME commit_scan_index_batch
        PROVE  AgreeInv'
    <2>1. /\ UNCHANGED <<shelf, pub, fence, state, resume_phase, scope, cursor, reconciled, pc,
                         at, seen, todo, disturbed>>
          /\ tags' = {} /\ bad' = {}
          /\ \A p \in Paths : inventory'[p] =
               IF p \in tags \/ inventory[p] = "unchanged" THEN "done"
               ELSE IF p \in bad THEN "failed" ELSE inventory[p]
          /\ \A p \in Paths : catalog'[p] = IF p \in tags THEN "indexed" ELSE catalog[p]
      BY <1>2 DEF commit_scan_index_batch, walk, history, run
    <2>2. Phase' = Phase /\ (Calm' <=> Calm)
      BY <2>1 DEF Phase, Calm
    <2>3. RowsClear' /\ LocalsClear' /\ PhaseOfPc'
      BY <1>0, <2>1, <2>2 DEF RowsClear, LocalsClear, PhaseOfPc, OnWalk, DiscoveryPCs
    <2>4. ASSUME CalmFacts
          PROVE  CalmFacts'
      <3>1. \A p \in Paths : p \in tags \union bad => inventory[p] = "read"
        BY <2>4 DEF CalmFacts, TagsPending
      <3>2. \A p \in Paths : Found(p)' <=> Found(p)
        BY <2>1, <3>1 DEF Found
      <3>3. FilesStill' /\ FoundIsThere' /\ ScopesWhole' /\ TagsPending'
        BY <2>1, <2>4, <3>2 DEF CalmFacts, FilesStill, FoundIsThere, ScopesWhole, TagsPending,
           PathsOf
      <3>4. KnownRows'
        BY <2>1, <2>4 DEF CalmFacts, KnownRows
      <3>5. NotReconciled'
        BY <2>1, <2>2, <2>4 DEF CalmFacts, NotReconciled
      <3>6. WalkWhole' /\ IndexedAll' /\ ReconciledAgrees' /\ ReconciledSoFar'
        BY <1>0, <2>1, <2>2 DEF WalkWhole, IndexedAll, ReconciledAgrees, ReconciledSoFar
      <3> QED
        BY <3>3, <3>4, <3>5, <3>6 DEF CalmFacts
    <2> QED
      BY <2>2, <2>3, <2>4 DEF AgreeInv
  <1>3. ASSUME EndInventory
        PROVE  AgreeInv'
    <2>1. /\ UNCHANGED <<files, rows, run, fence, seen, todo, disturbed>>
          /\ pc' = "indexed" /\ tags' = {} /\ bad' = {} /\ Pending = {}
      BY <1>3 DEF EndInventory, Goto, walk, history
    <2>2. Phase' = Phase /\ (Calm' <=> Calm)
      BY <2>1 DEF Phase, Calm, run
    <2>3. ControlStep
      BY <2>1, <2>2 DEF ControlStep
    <2>4. RowsClear' /\ LocalsClear' /\ PhaseOfPc'
      BY <1>0, <2>1, <2>2 DEF RowsClear, LocalsClear, PhaseOfPc, OnWalk, DiscoveryPCs
    <2> QED
      BY <2>3, <2>4, ControlStepAgrees
  <1> QED
    BY <1>1, <1>2, <1>3

\* A row that reconciliation passes over, the catalogue not knowing its path, agrees.
LEMMA PassedOver ==
  ASSUME TypeInv, CalmFacts, Pending = {}, NEW s \in Scopes, scope[s] = "completed",
         NEW q \in PathsOf(s), catalog[q] = "absent", inventory[q] # "failed"
  PROVE  Agrees(q)
  <1>1. q \in Paths
    BY DEF PathsOf
  <1>2. inventory[q] \notin {"read", "unchanged"}
    BY <1>1 DEF Pending
  <1>3. inventory[q] # "done"
    BY <1>1 DEF CalmFacts, KnownRows
  <1>4. ~Found(q)
    BY <1>1, <1>2, <1>3 DEF Found, TypeInv, RowsType
  <1>5. q \notin shelf
    BY <1>4 DEF CalmFacts, ScopesWhole
  <1> QED
    BY <1>5 DEF Agrees

LEMMA BatchAgrees ==
  ASSUME TypeInv, AgreeInv, NEW p \in Paths, reconcile_scan_scope_batch(p)
  PROVE  AgreeInv'
  <1>1. /\ UNCHANGED <<shelf, pub, fence, run, scope, inventory, reconciled, pc, at, seen, todo,
                       tags, bad, disturbed>>
        /\ pc = "reconcile" /\ at \in Scopes /\ scope[at] = "completed"
        /\ p \in Ahead(at) /\ \A q \in Ahead(at) : p <= q
        /\ catalog' = [catalog EXCEPT ![p] =
             IF inventory[p] # "none" THEN "indexed"
             ELSE IF allow_missing THEN "missing" ELSE @]
        /\ cursor' = [cursor EXCEPT ![at] = p]
    BY DEF reconcile_scan_scope_batch, walk, history
  <1>2. Phase' = Phase /\ (Calm' <=> Calm) /\ Phase \in {"reconciling", "none"}
    BY <1>1 DEF Phase, Calm, run, AgreeInv, PhaseOfPc
  <1>3. RowsClear' /\ LocalsClear' /\ PhaseOfPc'
    BY <1>1, <1>2 DEF AgreeInv, RowsClear, LocalsClear, PhaseOfPc, OnWalk, DiscoveryPCs
  <1>4. p \in PathsOf(at) /\ p > cursor[at] /\ catalog[p] # "absent"
    BY <1>1 DEF Ahead
  <1>5. ASSUME Calm, CalmFacts
        PROVE  CalmFacts'
    <2>1. FilesStill' /\ FoundIsThere' /\ ScopesWhole' /\ TagsPending'
      BY <1>1, <1>5 DEF CalmFacts, FilesStill, FoundIsThere, ScopesWhole, TagsPending, Found
    <2>2. KnownRows'
      <3>1. \A q \in Paths : catalog[q] # "absent" => catalog'[q] # "absent"
        BY <1>1 DEF TypeInv, FilesType
      <3> QED
        BY <1>1, <1>5, <3>1 DEF CalmFacts, KnownRows
    <2>3. Pending' = Pending /\ (Phase = "reconciling" => Pending = {})
      BY <1>1, <1>5 DEF CalmFacts, IndexedAll, Pending
    <2>4. WalkWhole' /\ IndexedAll' /\ NotReconciled' /\ ReconciledSoFar'
      BY <1>1, <1>2, <1>5, <2>3 DEF CalmFacts, WalkWhole, IndexedAll, NotReconciled,
         ReconciledSoFar
    <2>5. ReconciledAgrees'
      <3> SUFFICES ASSUME Phase = "reconciling", NEW s \in Scopes, NEW q \in PathsOf(s),
                          scope[s] = "completed", q <= cursor'[s] \/ reconciled[s],
                          inventory[q] # "failed"
                   PROVE  Agrees(q)'
        BY <1>1, <1>2 DEF ReconciledAgrees
      <3>0. q \in Paths /\ ScopeOf(q) = s /\ Pending = {}
        BY <2>3 DEF PathsOf
      <3>1. CASE q = p
        <4>1. CASE inventory[p] # "none"
          <5>1. p \in shelf
            BY <1>5, <4>1 DEF CalmFacts, FoundIsThere, Found
          <5>2. catalog'[p] = "indexed"
            BY <1>1, <4>1 DEF TypeInv, FilesType
          <5> QED
            BY <1>1, <3>1, <5>1, <5>2 DEF Agrees
        <4>2. CASE inventory[p] = "none"
          <5>1. p \notin shelf
            BY <1>1, <1>4, <1>5, <4>2 DEF CalmFacts, ScopesWhole, Found
          <5>2. catalog'[p] = "missing"
            BY <1>1, <1>5, <4>2 DEF TypeInv, FilesType, CalmFacts, FilesStill, allow_missing
          <5> QED
            BY <1>1, <3>1, <5>1, <5>2 DEF Agrees
        <4> QED
          BY <4>1, <4>2
      <3>2. CASE q # p
        <4>1. UNCHANGED catalog[q]
          BY <1>1, <3>0, <3>2 DEF TypeInv, FilesType
        <4>2. Agrees(q)
          <5>1. CASE q <= cursor[s] \/ reconciled[s]
            BY <1>5, <5>1 DEF CalmFacts, ReconciledAgrees
          <5>2. CASE ~(q <= cursor[s] \/ reconciled[s])
            <6>1. s = at /\ cursor'[s] = p
              BY <1>1, <5>2 DEF TypeInv, RowsType
            <6>2. q \in Int /\ p \in Int /\ cursor[s] \in Int
              BY <3>0, ConstantsOK DEF Paths, TypeInv, RowsType
            <6>3. q < p /\ q > cursor[at]
              BY <3>2, <5>2, <6>1, <6>2
            <6>4. q \notin Ahead(at)
              BY <1>1, <6>2, <6>3
            <6>5. catalog[q] = "absent"
              BY <6>1, <6>3, <6>4 DEF Ahead
            <6> QED
              BY <1>5, <3>0, <6>5, PassedOver
          <5> QED
            BY <5>1, <5>2
        <4> QED
          BY <1>1, <4>1, <4>2 DEF Agrees
      <3> QED
        BY <3>1, <3>2
    <2> QED
      BY <2>1, <2>2, <2>4, <2>5 DEF CalmFacts
  <1> QED
    BY <1>2, <1>3, <1>5 DEF AgreeInv

LEMMA EndScopeAgrees ==
  ASSUME TypeInv, AgreeInv, EndScope
  PROVE  AgreeInv'
  <1>1. /\ UNCHANGED <<files, fence, run, scope, inventory, cursor, pc, seen, todo, tags, bad,
                       disturbed>>
        /\ pc = "reconcile" /\ at \in Scopes /\ at' = at + 1
        /\ scope[at] # "completed" \/ Ahead(at) = {}
        /\ reconciled' = [reconciled EXCEPT ![at] = @ \/ scope[at] = "completed"]
    BY DEF EndScope, walk, history
  <1>2. Phase' = Phase /\ (Calm' <=> Calm) /\ Phase \in {"reconciling", "none"}
    BY <1>1 DEF Phase, Calm, run, AgreeInv, PhaseOfPc
  <1>3. RowsClear' /\ LocalsClear' /\ PhaseOfPc'
    BY <1>1, <1>2 DEF AgreeInv, RowsClear, LocalsClear, PhaseOfPc, OnWalk, DiscoveryPCs
  <1>4. \A s \in Scopes : reconciled'[s] <=> reconciled[s] \/ (s = at /\ scope[s] = "completed")
    BY <1>1, Zenon DEF TypeInv, RowsType
  <1>5. ASSUME Calm, CalmFacts
        PROVE  CalmFacts'
    <2>1. FilesStill' /\ FoundIsThere' /\ ScopesWhole' /\ TagsPending' /\ KnownRows'
      BY <1>1, <1>5 DEF CalmFacts, FilesStill, FoundIsThere, ScopesWhole, TagsPending,
         KnownRows, Found, files
    <2>2. Pending' = Pending /\ (Phase = "reconciling" => Pending = {})
      BY <1>1, <1>5 DEF CalmFacts, IndexedAll, Pending
    <2>3. WalkWhole' /\ IndexedAll' /\ NotReconciled'
      BY <1>1, <1>2, <1>5, <2>2 DEF CalmFacts, WalkWhole, IndexedAll, NotReconciled
    <2>4. ReconciledSoFar'
      <3> SUFFICES ASSUME NEW s \in Scopes, s < at + 1, scope[s] = "completed"
                   PROVE  reconciled'[s]
        BY <1>1 DEF ReconciledSoFar
      <3>1. s < at \/ s = at
        BY <1>1, ConstantsOK DEF Scopes
      <3> QED
        BY <1>1, <1>4, <1>5, <3>1 DEF CalmFacts, ReconciledSoFar
    <2>5. ReconciledAgrees'
      <3> SUFFICES ASSUME Phase = "reconciling", NEW s \in Scopes, NEW q \in PathsOf(s),
                          scope[s] = "completed", q <= cursor[s] \/ reconciled'[s],
                          inventory[q] # "failed"
                   PROVE  Agrees(q)
        BY <1>1, <1>2 DEF ReconciledAgrees, Agrees, files
      <3>1. CASE q <= cursor[s] \/ reconciled[s]
        BY <1>5, <3>1 DEF CalmFacts, ReconciledAgrees
      <3>2. CASE ~(q <= cursor[s] \/ reconciled[s])
        <4>1. s = at /\ q \notin Ahead(at) /\ Pending = {}
          BY <1>1, <1>4, <2>2, <3>2
        <4>2. q \in Int /\ cursor[s] \in Int
          BY ConstantsOK DEF PathsOf, Paths, TypeInv, RowsType
        <4>3. q > cursor[s]
          BY <3>2, <4>2
        <4>4. catalog[q] = "absent"
          BY <4>1, <4>3 DEF Ahead
        <4> QED
          BY <1>5, <4>1, <4>4, PassedOver
      <3> QED
        BY <3>1, <3>2
    <2> QED
      BY <2>1, <2>3, <2>4, <2>5 DEF CalmFacts
  <1> QED
    BY <1>2, <1>3, <1>5 DEF AgreeInv


LEMMA EndReconcileAgrees ==
  ASSUME TypeInv, AgreeInv, EndReconcile
  PROVE  AgreeInv'
  <1>1. /\ UNCHANGED <<files, fence, rows, run, seen, todo, disturbed>>
        /\ pc = "reconcile" /\ pc' = "reconciled" /\ at \notin Scopes
        /\ tags' = {} /\ bad' = {}
    BY DEF EndReconcile, Goto, walk, history
  <1>2. Phase' = Phase /\ (Calm' <=> Calm)
    BY <1>1 DEF Phase, Calm, run
  <1>3. ControlStep
    BY <1>1, <1>2 DEF ControlStep
  <1>4. RowsClear' /\ LocalsClear' /\ PhaseOfPc'
    BY <1>1, <1>2 DEF AgreeInv, RowsClear, LocalsClear, PhaseOfPc, OnWalk, DiscoveryPCs
  <1> QED
    BY <1>3, <1>4, ControlStepAgrees

LEMMA RestartAgrees ==
  ASSUME TypeInv, AgreeInv, Restart
  PROVE  AgreeInv'
  <1>1. /\ pc' = "idle" /\ seen' = {} /\ tags' = {} /\ bad' = {} /\ fence' = "none"
        /\ Becomes(Settled) /\ catalog' = catalog /\ pub'.step = "idle"
        /\ pub.step # "placed" => shelf' = shelf
    BY DEF Restart, Goto, OffWalk
  <1>2. LocalsClear' /\ PhaseOfPc'
    BY <1>1 DEF LocalsClear, PhaseOfPc, OnWalk, DiscoveryPCs
  <1>3. CASE Settled \in Terminal
    BY <1>1, <1>2, <1>3 DEF Becomes, AgreeInv, RowsClear, Calm
  <1>4. CASE Settled \notin Terminal
    <2>1. state' = Settled /\ UNCHANGED <<rows, resume_phase, disturbed>>
      BY <1>1, <1>4 DEF Becomes
    <2>2. state \notin Terminal
      BY <1>4 DEF Settled, Terminal
    <2>3. Phase' = Phase
      BY <1>4, <2>1 DEF Phase, Settled, Phases, Control, Terminal
    <2>4. ASSUME Calm', CalmFacts
          PROVE  CalmFacts'
      <3>1. UNCHANGED shelf
        BY <1>1, <2>4 DEF CalmFacts, FilesStill
      <3>2. FilesStill' /\ FoundIsThere' /\ ScopesWhole' /\ TagsPending' /\ KnownRows'
        BY <1>1, <2>1, <2>4, <3>1 DEF CalmFacts, FilesStill, FoundIsThere, ScopesWhole,
           TagsPending, KnownRows, Found, rows
      <3>3. Pending' = Pending
        BY <2>1 DEF Pending, rows
      <3>4. WalkWhole' /\ IndexedAll' /\ NotReconciled' /\ ReconciledSoFar'
        BY <1>1, <2>1, <2>3, <2>4, <3>3 DEF CalmFacts, WalkWhole, IndexedAll, NotReconciled,
           ReconciledSoFar, rows
      <3>5. ReconciledAgrees'
        BY <1>1, <2>1, <2>3, <2>4, <3>1 DEF CalmFacts, ReconciledAgrees, Agrees, rows
      <3> QED
        BY <3>2, <3>4, <3>5 DEF CalmFacts
    <2>5. Calm' => Calm
      BY <2>1, <2>2 DEF Calm
    <2>6. RowsClear'
      BY <1>4, <2>1 DEF RowsClear
    <2> QED
      BY <1>2, <2>4, <2>5, <2>6 DEF AgreeInv
  <1> QED
    BY <1>3, <1>4

LEMMA NextAgrees == TypeInv /\ AgreeInv /\ [Next]_vars => AgreeInv'
  <1> SUFFICES ASSUME TypeInv, AgreeInv, [Next]_vars
               PROVE  AgreeInv'
    OBVIOUS
  <1>1. ASSUME Work
        PROVE  AgreeInv'
    BY <1>1, ClaimAgrees, ResumeRunAgrees, CheckpointAgrees, WorkerFailsAgrees, WalkAgrees,
       InventoryAgrees, EndPhaseAgrees, IndexAgrees, BatchAgrees, EndScopeAgrees,
       EndReconcileAgrees DEF Work
  <1>2. CASE UNCHANGED vars
    BY <1>2 DEF vars, files, run, rows, locals, walk, history, AgreeInv, RowsClear, LocalsClear,
       PhaseOfPc, Calm, CalmFacts, FilesStill, FoundIsThere, ScopesWhole, WalkWhole, TagsPending,
       KnownRows, IndexedAll, NotReconciled, ReconciledAgrees, ReconciledSoFar, Phase, Pending,
       Found, Agrees
  <1> QED
    BY <1>1, <1>2, PublisherAgrees, UserAgrees, RestartAgrees DEF Next

\* Every path is in a scope.
LEMMA EveryPathScoped == \A p \in Paths : ScopeOf(p) \in Scopes
  BY ConstantsOK DEF ScopeOf, Paths, Scopes

\* A run completes where its last phase ends, and nowhere else.
LEMMA CompletesByReconciling ==
  ASSUME TypeInv, [Next]_vars, state # "completed", state' = "completed"
  PROVE  EndReconciling /\ state = "reconciling" /\ pc = "reconciled" /\ UNCHANGED files
  <1>1. \A new : Moves(new) \/ Becomes(new) => new = "completed"
    BY DEF Moves, Becomes
  <1>2. ~Return /\ ~Fails /\ ~WorkerFails
    BY <1>1 DEF Return, Fails, WorkerFails, Settled
  <1>3. ~FailRun
    BY <1>2 DEF FailRun
  <1>4. ~Checkpoint
    BY <1>1 DEF Checkpoint, Interrupted, Settled
  <1>5. ~EndDiscovery /\ ~EndIndexing
    BY <1>1, <1>2 DEF EndDiscovery, EndIndexing, EndPhase
  <1>6. ~User
    BY <1>1, <1>2 DEF User, request_scan_run, Pause, Resume, Stop, StopQueued, ChangePolicy, Delete,
       run, TypeInv, RunType, Phases
  <1>7. ~Publisher /\ ~Restart
    BY <1>1 DEF Publisher, Record, Undo, Release, Place, Restart, Settled, run
  <1>8. ~UNCHANGED vars
    BY DEF vars, run
  <1>9. EndReconciling
    BY <1>2, <1>3, <1>4, <1>5, <1>6, <1>7, <1>8 DEF Next, Work, claim_next_scan_run, ResumeRun,
       NextScope, RootUnavailable, ProbeTimesOut, BeginWalk, WalkFile, WalkDegrades, WalkTimesOut,
       RetryWalk, GiveUpWalk, Drain, PersistInventory, CheckFence, EndScopes, ReadTags,
       commit_scan_index_batch, EndInventory, reconcile_scan_scope_batch, EndScope, EndReconcile,
       run
  <1> QED
    BY <1>2, <1>9 DEF EndReconciling, EndPhase


\* A run that completes over whole scopes, with nobody else at the files and the worker
\* never resumed under its own feet, leaves the catalogue equal to the shelf: for every
\* number of files, scopes and restarts (LibraryScan's run has one of each).
THEOREM CompletedScanAgrees == Spec => CompletedAgrees
  <1> DEFINE CompletesInAgreement ==
        state # "completed" /\ state' = "completed" /\ ~disturbed
        /\ (\A s \in Scopes : scope[s] = "completed")
        /\ (\A p \in Paths : inventory[p] # "failed")
        => \A p \in Paths : catalog[p] = "indexed" <=> p \in shelf
  <1>1. ASSUME TypeInv, AgreeInv, [Next]_vars
        PROVE  CompletesInAgreement
    <2> SUFFICES ASSUME state # "completed", state' = "completed", ~disturbed,
                        \A s \in Scopes : scope[s] = "completed",
                        \A p \in Paths : inventory[p] # "failed", NEW p \in Paths
                 PROVE  Agrees(p)
      BY DEF Agrees
    <2>1. state = "reconciling" /\ pc = "reconciled"
      BY <1>1, CompletesByReconciling
    <2>2. CalmFacts /\ Phase = "reconciling" /\ state \in Phases
      BY <1>1, <2>1 DEF AgreeInv, Calm, Phase, Phases, Terminal
    <2>3. ScopeOf(p) \in Scopes /\ p \in PathsOf(ScopeOf(p))
      BY EveryPathScoped DEF PathsOf
    <2>4. reconciled[ScopeOf(p)]
      BY <2>1, <2>2, <2>3 DEF CalmFacts, ReconciledSoFar
    <2> QED
      BY <2>2, <2>3, <2>4 DEF CalmFacts, ReconciledAgrees
  <1>2. Init => TypeInv /\ AgreeInv
    BY InitTypes, InitAgrees
  <1>3. TypeInv /\ AgreeInv /\ [Next]_vars => (TypeInv /\ AgreeInv)'
    BY NextTypes, NextAgrees
  <1>4. Spec => [](TypeInv /\ AgreeInv)
    BY <1>2, <1>3, PTL DEF Spec
  <1>5. TypeInv /\ AgreeInv /\ [Next]_vars => [CompletesInAgreement]_vars
    BY <1>1
  <1> QED
    BY <1>4, <1>5, PTL DEF Spec, CompletedAgrees

================================================================================
