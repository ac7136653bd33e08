--------------------------- MODULE ImportPublication ---------------------------
(***************************************************************************)
(* The publication of one import bundle (LibraryManagementPublisher, the   *)
(* import half): the files of a finished download are staged beside their  *)
(* destinations, moved onto the shelf under the write lease of the roots,  *)
(* committed to the catalogue in one transaction, and only then are the    *)
(* download's own files and the replaced tracks removed. Every file has a  *)
(* journal row that says how far it got; a failure, a crash or the         *)
(* periodic recovery undoes the bundle from those rows.                    *)
(*                                                                         *)
(* Several coroutines run the same code on the same rows: callers of       *)
(* publish_import_bundle (serialised by a per-bundle asyncio lock) and the *)
(* recovery worker. Each works from copies of rows it read earlier; the    *)
(* rows carry a revision, and a transition whose revision is old fails.    *)
(* "fresh" says which copies are still current: it stands for comparing    *)
(* revisions, without numbers that grow.                                   *)
(*                                                                         *)
(* What the bytes of a file are is abstracted to where they came from: the *)
(* track that was on the shelf before ("old"), the staged import ("new"),  *)
(* or a file somebody else put there ("foreign"). A hash comparison is a   *)
(* comparison of these.                                                    *)
(***************************************************************************)
EXTENDS Integers, FiniteSets

CONSTANTS
  NFiles,            \* files of the bundle, published in the order 1..NFiles
  Upgrades,          \* files whose destination holds the track they replace
  Moves,             \* files that replace a track at another path
  Artworks,          \* files that bring a cover along (an artifact)
  Callers,           \* coroutines that may ask for the publication
  Recoverer,         \* the recovery service
  PeriodicRecovery,  \* does recovery also run beside the publishers?
  MaxCrashes, MaxFaults, MaxForeign, MaxCalls   \* bounds of the environment

Files  == 1..NFiles
Actors == Callers \union {Recoverer}

ASSUME ConstantsOK ==
  /\ NFiles \in Nat \ {0}
  /\ Upgrades \subseteq Files /\ Moves \subseteq Files
  /\ Upgrades \intersect Moves = {}
  /\ Artworks \subseteq Files
  /\ Recoverer \notin Callers
  /\ PeriodicRecovery \in BOOLEAN
  /\ {MaxCrashes, MaxFaults, MaxForeign, MaxCalls} \subseteq Nat

VARIABLES
  bundle,   \* state of the bundle's row, "none" before there is one
  rows,     \* the journal rows: [state, staged], staged: has a staged_fingerprint
  catalog,  \* do the catalogue's tracks point to the imported files?
  fs,       \* per file, what the directories hold
  me,       \* per actor: its place in the code and its copies of the rows
  booted,   \* has startup recovery let the process start its workers?
  spent     \* what the environment has done so far

vars == <<bundle, rows, catalog, fs, me, booted, spent>>

Committed   == {"catalog_committed", "cleanup_pending", "completed"}
Recoverable == {"preparing", "publishing", "catalog_committed", "cleanup_pending"}
BundleStates == {"none", "preparing", "publishing", "rolled_back",
                 "needs_attention", "resolved"} \union Committed
Undoable == {"planned", "staged", "validated", "replacement_backed_up",
             "published", "rollback_pending"}
RowStates == Undoable \union Committed \union
             {"none", "rolled_back", "needs_attention", "resolved"}
Closed   == {"completed", "rolled_back", "needs_attention", "resolved"}

Content  == {"none", "old", "new", "foreign"}

Row(s, staged) == [state |-> s, staged |-> staged]
NoRow == Row("none", FALSE)

InCritical == {"boundary", "recheck", "publish", "backedUp", "moved", "placed", "commit"}
InRollback == {"roll", "rollDest", "rollArt", "rollRest", "rollTemp", "rollDone",
               "rollFinish"}
InCleanup  == {"clean", "cleanReplaced", "cleanFinish"}
PreparePCs == {"prepare", "staged", "prepFailed"}
Entered    == {"mark", "list", "refresh", "reread", "rollStart", "lockPublish",
               "lockRollback", "lockCleanup", "ensure"}
              \union PreparePCs \union InCritical \union InRollback \union InCleanup
PCs == {"idle", "waiting", "check", "journals", "verdict", "attention", "escalate"}
       \union Entered

Inside(c) == me[c].pc \in Entered
Active    == \E c \in Callers : me[c].pc # "idle"   \* _active_import_bundles
Writes(a) == me[a].pc \in InCritical \union InRollback \union InCleanup
LeaseFree == \A a \in Actors : ~Writes(a)           \* write_many's lease

--------------------------------------------------------------------------------
(* An actor: where it is, the file it works on, the bundle state and the    *)
(* rows it has read (the ones in "fresh" at their current revision), the    *)
(* prepared files, and what its loop has found so far.                      *)
Blank(answer) ==
  [pc |-> "idle", at |-> 1, seen |-> "none", rows |-> [f \in Files |-> NoRow],
   fresh |-> {}, prep |-> {}, was |-> FALSE, bad |-> FALSE, failed |-> {},
   answer |-> answer]

Go(a, pc)      == me' = [me EXCEPT ![a].pc = pc]
GoAt(a, pc, f) == me' = [me EXCEPT ![a].pc = pc, ![a].at = f]
Leave(a, how)  == me' = [me EXCEPT ![a] = Blank(how)]
Raise(a)       == IF a = Recoverer THEN Go(a, "attention") ELSE Leave(a, "error")

Mine(a, f)    == me[a].rows[f].state
Current(a, f) == f \in me[a].fresh
At(a)         == me[a].at

\* A row is written: every other copy of it is out of date.
Stored(a, f, row, pc, at) ==
  /\ rows' = [rows EXCEPT ![f] = row]
  /\ me' = [b \in Actors |->
              IF b = a THEN [me[a] EXCEPT !.rows[f] = row, !.fresh = @ \union {f},
                                          !.pc = pc, !.at = at]
              ELSE [me[b] EXCEPT !.fresh = @ \ {f}]]
Transition(a, f, state, pc, at) ==
  Stored(a, f, [rows[f] EXCEPT !.state = state], pc, at)

\* list_library_management_import_journals
Listed(a, pc, prep) ==
  me' = [me EXCEPT ![a].rows = rows, ![a].fresh = Files, ![a].prep = prep,
                   ![a].pc = pc, ![a].at = 1, ![a].bad = FALSE, ![a].failed = {}]
Journaled == {f \in Files : rows[f].state # "none"}

Fault == /\ spent.faults < MaxFaults
         /\ spent' = [spent EXCEPT !.faults = @ + 1]

\* Nothing staged is left and the destination holds exactly what was staged.
Exact(a, f) == /\ ~fs[f].temp
               /\ fs[f].dest = "new"
               /\ me[a].rows[f].staged

Before(f) == IF f \in Upgrades THEN "old" ELSE "none"

Init ==
  /\ bundle = "none"
  /\ rows = [f \in Files |-> NoRow]
  /\ catalog = FALSE
  /\ fs = [f \in Files |-> [src |-> TRUE, temp |-> FALSE, dest |-> Before(f),
                            backup |-> "none", aside |-> f \in Moves, bin |-> FALSE,
                            atemp |-> FALSE, adest |-> "none"]]
  /\ me = [a \in Actors |-> Blank("none")]
  /\ booted = TRUE
  /\ spent = [crashes |-> 0, faults |-> 0, foreign |-> 0, calls |-> 0]

--------------------------------------------------------------------------------
(* publish_import_bundle: a call waits for the bundle's lock, reads or      *)
(* inserts the bundle's row and marks it publishing.                        *)

Call(c) ==
  /\ booted /\ me[c].pc = "idle"
  /\ me[c].answer # "ok"
  /\ spent.calls < MaxCalls
  /\ spent' = [spent EXCEPT !.calls = @ + 1]
  /\ Go(c, "waiting")
  /\ UNCHANGED <<bundle, rows, catalog, fs, booted>>

Admit(c) ==
  /\ me[c].pc = "waiting"
  /\ ~\E d \in Callers : Inside(d)
  /\ Go(c, "ensure")
  /\ UNCHANGED <<bundle, rows, catalog, fs, booted, spent>>

\* Mutant: a retry of a committed bundle publishes it again.
EnsureBundleAgain(c) ==
  /\ me[c].pc = "ensure"
  /\ bundle' = IF bundle = "none" THEN "preparing" ELSE bundle
  /\ me' = [me EXCEPT ![c].pc = "mark", ![c].seen = bundle']
  /\ UNCHANGED <<rows, catalog, fs, booted, spent>>
EnsureBundle(c) ==
  /\ me[c].pc = "ensure"
  /\ bundle' = IF bundle = "none" THEN "preparing" ELSE bundle
  /\ CASE bundle' = "completed" -> Leave(c, "ok")
       [] bundle' \in Committed \ {"completed"} -> Go(c, "lockCleanup")
       [] bundle' \in {"needs_attention", "resolved"} -> Leave(c, "refused")
       [] bundle' \in {"preparing", "rolled_back"} ->
            me' = [me EXCEPT ![c].pc = "mark", ![c].seen = bundle']
       [] OTHER -> Go(c, "list")
  /\ UNCHANGED <<rows, catalog, fs, booted, spent>>

MarkPublishing(c) ==
  /\ me[c].pc = "mark"
  /\ IF bundle = me[c].seen
     THEN bundle' = "publishing" /\ Go(c, "list")
     ELSE Leave(c, "error") /\ UNCHANGED bundle
  /\ UNCHANGED <<rows, catalog, fs, booted, spent>>

ListJournals(c) ==
  /\ me[c].pc = "list"
  /\ Listed(c, "prepare", {})
  /\ UNCHANGED <<bundle, rows, catalog, fs, booted, spent>>

--------------------------------------------------------------------------------
(* _prepare_import_file, file by file, before any lease is taken.           *)

Preparing(c, f, states) ==
  /\ me[c].pc = "prepare" /\ f = At(c)
  /\ Mine(c, f) \in states

Swap(c, f, state, pc) ==   \* compare-and-swap; a stale revision ends the preparation
  /\ IF Current(c, f) THEN Transition(c, f, state, pc, f)
     ELSE Go(c, "prepFailed") /\ UNCHANGED rows
  /\ UNCHANGED <<bundle, catalog, fs, booted, spent>>

Replan(c, f) == Preparing(c, f, {"rolled_back"}) /\ Swap(c, f, "planned", "prepare")

\* The first journal row of a file; the replaced track is hashed, so it must be there.
PlanFile(c, f) ==
  /\ Preparing(c, f, {"none"})
  /\ IF fs[f].src /\ (f \in Upgrades => fs[f].dest # "none") /\ (f \in Moves => fs[f].aside)
     THEN Stored(c, f, Row("planned", FALSE), "prepare", f)
     ELSE Go(c, "prepFailed") /\ UNCHANGED rows
  /\ UNCHANGED <<bundle, catalog, fs, booted, spent>>

Stage(c, f) ==
  /\ Preparing(c, f, {"planned"})
  /\ fs[f].src
  /\ fs' = [fs EXCEPT ![f].temp = TRUE, ![f].atemp = f \in Artworks]
  /\ Go(c, "staged")
  /\ UNCHANGED <<bundle, rows, catalog, booted, spent>>

\* The source changed, the disk is full, the caller is cancelled.
StageFails(c, f) ==
  /\ Preparing(c, f, {"planned"})
  /\ Go(c, "prepFailed")
  /\ \/ ~fs[f].src /\ UNCHANGED <<fs, spent>>
     \/ Fault /\ fs' = [fs EXCEPT ![f].atemp = f \in Artworks]
  /\ UNCHANGED <<bundle, rows, catalog, booted>>

JournalStaged(c) ==
  LET f == At(c) IN
  /\ me[c].pc = "staged"
  /\ IF Current(c, f) THEN Stored(c, f, Row("staged", TRUE), "prepare", f)
     ELSE Go(c, "prepFailed") /\ UNCHANGED rows
  /\ UNCHANGED <<bundle, catalog, fs, booted, spent>>

Validate(c, f) ==
  /\ Preparing(c, f, {"staged"})
  /\ IF fs[f].temp THEN Swap(c, f, "validated", "prepare")
     ELSE Go(c, "prepFailed") /\ UNCHANGED <<bundle, rows, catalog, fs, booted, spent>>

Prepared(c, f) ==
  /\ Preparing(c, f, {"validated", "replacement_backed_up", "published"})
  /\ me' = [me EXCEPT ![c].prep = @ \union {f},
                      ![c].pc = IF f = NFiles THEN "lockPublish" ELSE @,
                      ![c].at = IF f = NFiles THEN 1 ELSE @ + 1]
  /\ UNCHANGED <<bundle, rows, catalog, fs, booted, spent>>

Unpublishable(c, f) ==
  /\ Preparing(c, f, {"rollback_pending", "needs_attention", "resolved"} \union Committed)
  /\ Go(c, "prepFailed")
  /\ UNCHANGED <<bundle, rows, catalog, fs, booted, spent>>

\* _rollback_import_preparation: the files prepared so far keep the copies in
\* hand, the others are taken from their rows.
PreparationFailed(c) ==
  /\ me[c].pc = "prepFailed"
  /\ me' = [me EXCEPT
       ![c].rows = [f \in Files |-> IF f \in me[c].prep THEN @[f] ELSE rows[f]],
       ![c].fresh = @ \union (Files \ me[c].prep),
       ![c].prep = @ \union Journaled,
       ![c].pc = "rollStart"]
  /\ UNCHANGED <<bundle, rows, catalog, fs, booted, spent>>

PrepareImportFile(c, f) ==
  \/ Replan(c, f) \/ PlanFile(c, f) \/ Stage(c, f) \/ StageFails(c, f)
  \/ Validate(c, f) \/ Prepared(c, f) \/ Unpublishable(c, f)

--------------------------------------------------------------------------------
(* The critical section, under the write lease. Cancellation of the caller  *)
(* waits for its end; an exception gives the lease back and goes to         *)
(* "refresh". The files are published in order, each with its journal row   *)
(* written after the directory entries.                                     *)

LockPublish(c) ==
  /\ me[c].pc = "lockPublish"
  /\ LeaseFree
  /\ GoAt(c, "boundary", 1)
  /\ UNCHANGED <<bundle, rows, catalog, fs, booted, spent>>

\* The caller is cancelled while it waits for the lease.
LockCancelled(c) ==
  /\ me[c].pc = "lockPublish"
  /\ Fault
  /\ Go(c, "refresh")
  /\ UNCHANGED <<bundle, rows, catalog, fs, booted>>

ToRefresh(c) == Go(c, "refresh") /\ UNCHANGED <<bundle, rows, catalog, fs, booted, spent>>

\* Can the cover be put in its place, or is it there already?
CoverFits(f) == \/ f \notin Artworks
                \/ IF fs[f].atemp THEN fs[f].adest = "none" ELSE fs[f].adest = "mine"
CoverPlaced(f) == [fs EXCEPT ![f].atemp = FALSE,
                             ![f].adest = IF f \in Artworks THEN "mine" ELSE @]

\* _recover_import_publish_boundary: what an interrupted publication did is journaled.
Boundary(c) ==
  LET f == At(c)
      next(pc) == IF f = NFiles THEN "recheck" ELSE pc
      then == IF f = NFiles THEN 1 ELSE f + 1
      moved == Mine(c, f) \in {"validated", "replacement_backed_up"} /\ Exact(c, f)
      aside == Mine(c, f) = "validated" /\ f \in Upgrades /\ fs[f].dest = "none"
               /\ fs[f].backup = "old"
  IN
  /\ me[c].pc = "boundary"
  /\ \/ /\ moved /\ CoverFits(f) /\ Current(c, f)
        /\ fs' = CoverPlaced(f)
        /\ Transition(c, f, "published", next("boundary"), then)
     \/ /\ moved /\ ~(CoverFits(f) /\ Current(c, f))
        /\ fs' = IF CoverFits(f) THEN CoverPlaced(f) ELSE fs
        /\ Go(c, "refresh") /\ UNCHANGED rows
     \/ /\ ~moved /\ aside
        /\ IF Current(c, f)
           THEN Transition(c, f, "replacement_backed_up", next("boundary"), then)
           ELSE Go(c, "refresh") /\ UNCHANGED rows
        /\ UNCHANGED fs
     \/ /\ ~moved /\ ~aside
        /\ GoAt(c, next("boundary"), then)
        /\ UNCHANGED <<rows, fs>>
  /\ UNCHANGED <<bundle, catalog, booted, spent>>

\* _recheck_import_bundle, of one file.
CoverOK(f) == \/ f \notin Artworks
              \/ fs[f].atemp /\ fs[f].adest = "none"
              \/ ~fs[f].atemp /\ fs[f].adest = "mine"
FileOK(c, f) ==
  IF Mine(c, f) = "published"
  THEN fs[f].dest = "new" /\ (f \in Artworks => fs[f].adest = "mine")
  ELSE /\ fs[f].src /\ fs[f].temp
       /\ IF Mine(c, f) = "replacement_backed_up" THEN f \in Upgrades /\ fs[f].backup = "old"
          ELSE fs[f].dest \in {Before(f), "none"}
       /\ (f \in Moves => fs[f].aside)
       /\ CoverOK(f)

Recheck(c) ==
  /\ me[c].pc = "recheck"
  /\ IF \A f \in Files : FileOK(c, f)
     THEN /\ fs' = [f \in Files |-> IF Mine(c, f) = "published"
                                    THEN [fs[f] EXCEPT !.atemp = FALSE] ELSE fs[f]]
          /\ GoAt(c, "publish", 1)
     ELSE Go(c, "refresh") /\ UNCHANGED fs
  /\ UNCHANGED <<bundle, rows, catalog, booted, spent>>

After(f) == IF f = NFiles THEN "commit" ELSE "publish"

\* _publish_import_file
AlreadyPublished(c) ==
  /\ me[c].pc = "publish" /\ Mine(c, At(c)) = "published"
  /\ GoAt(c, After(At(c)), IF At(c) = NFiles THEN 1 ELSE At(c) + 1)
  /\ UNCHANGED <<bundle, rows, catalog, fs, booted, spent>>

BackUp(c) ==
  LET f == At(c) IN
  /\ me[c].pc = "publish" /\ Mine(c, f) = "validated" /\ f \in Upgrades
  /\ IF fs[f].dest # "none"
     THEN /\ fs' = [fs EXCEPT ![f].dest = "none", ![f].backup = fs[f].dest]
          /\ Go(c, "backedUp")
     ELSE Go(c, "refresh") /\ UNCHANGED fs
  /\ UNCHANGED <<bundle, rows, catalog, booted, spent>>

JournalBackUp(c) ==
  /\ me[c].pc = "backedUp"
  /\ IF Current(c, At(c))
     THEN /\ Transition(c, At(c), "replacement_backed_up", "publish", At(c))
          /\ UNCHANGED <<bundle, catalog, fs, booted, spent>>
     ELSE ToRefresh(c)

\* replace_rooted_publication: the staged file takes the place only if it is free.
Move(c) ==
  LET f == At(c) IN
  /\ me[c].pc = "publish"
  /\ \/ Mine(c, f) = "replacement_backed_up"
     \/ Mine(c, f) = "validated" /\ f \notin Upgrades
  /\ IF fs[f].temp /\ fs[f].dest = "none"
     THEN /\ fs' = [fs EXCEPT ![f].temp = FALSE, ![f].dest = "new"]
          /\ Go(c, "moved")
     ELSE Go(c, "refresh") /\ UNCHANGED fs
  /\ UNCHANGED <<bundle, rows, catalog, booted, spent>>

PublishArtifacts(c) ==
  /\ me[c].pc = "moved"
  /\ IF CoverFits(At(c)) THEN fs' = CoverPlaced(At(c)) /\ Go(c, "placed")
     ELSE Go(c, "refresh") /\ UNCHANGED fs
  /\ UNCHANGED <<bundle, rows, catalog, booted, spent>>

JournalPublished(c) ==
  /\ me[c].pc = "placed"
  /\ IF Current(c, At(c))
     THEN /\ Transition(c, At(c), "published", After(At(c)),
                        IF At(c) = NFiles THEN 1 ELSE At(c) + 1)
          /\ UNCHANGED <<bundle, catalog, fs, booted, spent>>
     ELSE ToRefresh(c)

\* A rename or fsync fails, the settings changed, or a store write raises.
PublishFails(c) ==
  /\ me[c].pc \in {"publish", "backedUp", "moved", "placed"}
  /\ Fault
  /\ Go(c, "refresh")
  /\ UNCHANGED <<bundle, rows, catalog, fs, booted>>

\* The catalogue, the journal rows and the bundle change in one transaction, which
\* finds every row published; it may fail as a whole, or its caller after it.
Committable == bundle = "publishing" /\ \A f \in Files : rows[f].state = "published"
Commit(c) ==
  /\ me[c].pc = "commit"
  /\ \/ /\ Committable
        /\ bundle' = "catalog_committed" /\ catalog' = TRUE
        /\ rows' = [f \in Files |-> [rows[f] EXCEPT !.state = "catalog_committed"]]
        /\ \E pc \in {"reread", "refresh"} :
             /\ me' = [a \in Actors |-> [me[a] EXCEPT !.fresh = {},
                                           !.pc = IF a = c THEN pc ELSE @]]
             /\ IF pc = "refresh" THEN Fault ELSE UNCHANGED spent
     \/ /\ Committable /\ Fault
        /\ Go(c, "refresh") /\ UNCHANGED <<bundle, catalog, rows>>
     \/ /\ ~Committable
        /\ Go(c, "refresh") /\ UNCHANGED <<bundle, catalog, rows, spent>>
  /\ UNCHANGED <<fs, booted>>

\* Mutant: the cleanup runs whatever the row says.
RefreshCleans(c) ==
  /\ me[c].pc = "refresh"
  /\ Go(c, "lockCleanup")
  /\ UNCHANGED <<bundle, rows, catalog, fs, booted, spent>>
\* Mutant: a failure after the commit is rolled back like any other.
RefreshRollsBack(c) ==
  /\ me[c].pc = "refresh"
  /\ Go(c, "rollStart")
  /\ UNCHANGED <<bundle, rows, catalog, fs, booted, spent>>
\* After an exception: what the bundle's row says decides between cleanup and rollback.
Refresh(c) ==
  /\ me[c].pc = "refresh"
  /\ Go(c, IF bundle \in Committed THEN "lockCleanup" ELSE "rollStart")
  /\ UNCHANGED <<bundle, rows, catalog, fs, booted, spent>>

RereadBundle(c) ==
  /\ me[c].pc = "reread"
  /\ IF bundle = "completed" THEN Leave(c, "ok") ELSE Go(c, "lockCleanup")
  /\ UNCHANGED <<bundle, rows, catalog, fs, booted, spent>>

CriticalSection(c) ==
  \/ Boundary(c) \/ Recheck(c) \/ AlreadyPublished(c) \/ BackUp(c) \/ JournalBackUp(c)
  \/ Move(c) \/ PublishArtifacts(c) \/ JournalPublished(c) \/ Commit(c)

--------------------------------------------------------------------------------
(* _rollback_import_bundle: the prepared files, last first, from the copies *)
(* in hand.                                                                 *)

RollbackStart(a) ==
  /\ me[a].pc = "rollStart"
  /\ IF me[a].prep # {} THEN Go(a, "lockRollback") /\ UNCHANGED bundle
     ELSE /\ bundle' = IF bundle = "publishing" THEN "rolled_back" ELSE bundle
          /\ IF a = Recoverer THEN Go(a, "verdict") ELSE Leave(a, "error")
  /\ UNCHANGED <<rows, catalog, fs, booted, spent>>

LockRollback(a) ==
  /\ me[a].pc = "lockRollback"
  /\ LeaseFree
  /\ GoAt(a, "roll", NFiles)
  /\ UNCHANGED <<bundle, rows, catalog, fs, booted, spent>>

\* Mutant: the last file is followed by the file before the first.
LowerAtZero(f) == f - 1
Lower(f) == IF f = 1 THEN "rollFinish" ELSE "roll"
LowerAt(f) == IF f = 1 THEN 1 ELSE f - 1

RollSkip(a) ==
  LET f == At(a) IN
  /\ me[a].pc = "roll"
  /\ f \notin me[a].prep \/ Mine(a, f) \notin Undoable
  /\ GoAt(a, Lower(f), LowerAt(f))
  /\ UNCHANGED <<bundle, rows, catalog, fs, booted, spent>>

\* Mutant: only a row that says "published" is taken for published.
WasPublishedByRow(a, f) == Mine(a, f) = "published"
\* Was the file published? Decided here, from the row's copy and the directories.
WasPublished(a, f) == Mine(a, f) = "published" \/ Exact(a, f)
RollMark(a) ==
  LET f == At(a)
      was == WasPublished(a, f)
  IN
  /\ me[a].pc = "roll" /\ f \in me[a].prep /\ Mine(a, f) \in Undoable
  /\ IF Mine(a, f) = "rollback_pending"
     THEN me' = [me EXCEPT ![a].was = was, ![a].pc = "rollDest"] /\ UNCHANGED rows
     ELSE IF Current(a, f)
     THEN /\ rows' = [rows EXCEPT ![f].state = "rollback_pending"]
          /\ me' = [b \in Actors |->
                      IF b = a THEN [me[a] EXCEPT !.rows[f].state = "rollback_pending",
                                                  !.was = was, !.pc = "rollDest"]
                      ELSE [me[b] EXCEPT !.fresh = @ \ {f}]]
     ELSE /\ me' = [me EXCEPT ![a].bad = TRUE, ![a].pc = Lower(f), ![a].at = LowerAt(f)]
          /\ UNCHANGED rows
  /\ UNCHANGED <<bundle, catalog, fs, booted, spent>>

\* One file cannot be restored: its row needs attention, if it is still as read.
RollGivesUp(a) ==
  LET f == At(a) IN
  /\ IF Current(a, f)
     THEN /\ rows' = [rows EXCEPT ![f].state = "needs_attention"]
          /\ me' = [b \in Actors |->
                      IF b = a THEN [me[a] EXCEPT !.rows[f].state = "needs_attention",
                                       !.bad = TRUE, !.pc = Lower(f), !.at = LowerAt(f)]
                      ELSE [me[b] EXCEPT !.fresh = @ \ {f}]]
     ELSE /\ me' = [me EXCEPT ![a].bad = TRUE, ![a].pc = Lower(f), ![a].at = LowerAt(f)]
          /\ UNCHANGED rows
  /\ UNCHANGED <<bundle, catalog, booted>>

\* _restore_import_filesystem: the destination, its cover, then what was staged
\* and the replaced track's backup.
RollDest(a) ==
  LET f == At(a)
      present == me[a].was /\ fs[f].dest # "none" /\ me[a].rows[f].staged
  IN
  /\ me[a].pc = "rollDest"
  /\ IF present /\ fs[f].dest # "new"
     THEN RollGivesUp(a) /\ UNCHANGED <<fs, spent>>
     ELSE /\ fs' = IF present THEN [fs EXCEPT ![f].dest = "none"] ELSE fs
          /\ Go(a, "rollArt")
          /\ UNCHANGED <<bundle, rows, catalog, booted, spent>>

RollArt(a) ==
  LET f == At(a)
      present == me[a].was /\ f \in Artworks /\ fs[f].adest # "none"
  IN
  /\ me[a].pc = "rollArt"
  /\ IF present /\ fs[f].adest # "mine"
     THEN RollGivesUp(a) /\ UNCHANGED <<fs, spent>>
     ELSE /\ fs' = IF present THEN [fs EXCEPT ![f].adest = "none"] ELSE fs
          /\ Go(a, "rollRest")
          /\ UNCHANGED <<bundle, rows, catalog, booted, spent>>

\* Mutant: the backup goes with the staged files.
RollRestDropsBackup(a) ==
  /\ me[a].pc = "rollRest"
  /\ fs' = [fs EXCEPT ![At(a)].atemp = FALSE, ![At(a)].backup = "none"]
  /\ Go(a, "rollTemp")
  /\ UNCHANGED <<bundle, rows, catalog, booted, spent>>
RollRest(a) ==
  LET f == At(a) IN
  /\ me[a].pc = "rollRest"
  /\ IF fs[f].backup \in {"none", "old"}
     THEN /\ fs' = [fs EXCEPT ![f].atemp = FALSE, ![f].backup = "none",
                              ![f].dest = IF fs[f].backup = "old" THEN "old" ELSE @]
          /\ Go(a, "rollTemp")
          /\ UNCHANGED <<bundle, rows, catalog, booted, spent>>
     ELSE /\ fs' = [fs EXCEPT ![f].atemp = FALSE]
          /\ RollGivesUp(a) /\ UNCHANGED spent

RollTemp(a) ==
  /\ me[a].pc = "rollTemp"
  /\ fs' = [fs EXCEPT ![At(a)].temp = FALSE]
  /\ Go(a, "rollDone")
  /\ UNCHANGED <<bundle, rows, catalog, booted, spent>>

RollDone(a) ==
  LET f == At(a) IN
  /\ me[a].pc = "rollDone"
  /\ IF Current(a, f)
     THEN /\ Transition(a, f, "rolled_back", Lower(f), LowerAt(f))
          /\ UNCHANGED <<bundle, catalog, booted>>
     ELSE RollGivesUp(a)
  /\ UNCHANGED <<fs, spent>>

\* A directory operation fails.
RollFails(a) ==
  /\ me[a].pc \in {"rollDest", "rollArt", "rollRest", "rollTemp"}
  /\ Fault
  /\ RollGivesUp(a)
  /\ UNCHANGED fs

\* A store write raises something the loop does not catch.
RollAborts(a) ==
  /\ me[a].pc \in InRollback
  /\ Fault
  /\ Raise(a)
  /\ UNCHANGED <<bundle, rows, catalog, fs, booted>>

RollFinish(a) ==
  /\ me[a].pc = "rollFinish"
  /\ bundle' = IF bundle # "publishing" THEN bundle
               ELSE IF me[a].bad THEN "needs_attention" ELSE "rolled_back"
  /\ IF a = Recoverer THEN Go(a, "verdict") ELSE Leave(a, "error")
  /\ UNCHANGED <<rows, catalog, fs, booted, spent>>

RollbackImportBundle(a) ==
  \/ RollSkip(a) \/ RollMark(a) \/ RollDest(a) \/ RollArt(a) \/ RollRest(a)
  \/ RollTemp(a) \/ RollDone(a) \/ RollFinish(a)

--------------------------------------------------------------------------------
(* _resume_import_cleanup: after the commit, the download's own file and    *)
(* the replaced track go. What fails is left for a later pass.              *)

LockCleanup(a) ==
  /\ me[a].pc = "lockCleanup"
  /\ LeaseFree
  /\ Listed(a, "clean", {})
  /\ UNCHANGED <<bundle, rows, catalog, fs, booted, spent>>

NextClean(a, failed) ==
  me' = [me EXCEPT ![a].failed = @ \union failed,
                   ![a].pc = IF At(a) = NFiles THEN "cleanFinish" ELSE "clean",
                   ![a].at = IF At(a) = NFiles THEN 1 ELSE @ + 1]

CleanSource(a) ==
  LET f == At(a) IN
  /\ me[a].pc = "clean"
  /\ \/ /\ Mine(a, f) \in {"none", "completed"}
        /\ NextClean(a, {})
        /\ UNCHANGED fs
     \/ /\ Mine(a, f) \notin {"none", "completed"}
        /\ fs' = [fs EXCEPT ![f].src = FALSE]
        /\ Go(a, "cleanReplaced")
  /\ UNCHANGED <<bundle, rows, catalog, booted, spent>>

\* The replaced track (its backup, if the new file took its path) is recycled.
CleanReplaced(a) ==
  LET f == At(a) IN
  /\ me[a].pc = "cleanReplaced"
  /\ IF fs[f].backup \in {"none", "old"}
     THEN /\ fs' = [fs EXCEPT ![f].backup = "none", ![f].aside = FALSE,
                              ![f].bin = @ \/ fs[f].backup = "old" \/ fs[f].aside]
          /\ NextClean(a, {})
     ELSE NextClean(a, {f}) /\ UNCHANGED fs
  /\ UNCHANGED <<bundle, rows, catalog, booted, spent>>

CleanFails(a) ==
  /\ me[a].pc \in {"clean", "cleanReplaced"}
  /\ Mine(a, At(a)) \notin {"none", "completed"}
  /\ Fault
  /\ NextClean(a, {At(a)})
  /\ UNCHANGED <<bundle, rows, catalog, fs, booted>>

\* The caller is cancelled: the cleanup is not shielded.
CleanCancelled(c) ==
  /\ me[c].pc \in InCleanup
  /\ Fault
  /\ Leave(c, "cancelled")
  /\ UNCHANGED <<bundle, rows, catalog, fs, booted>>

CleanFinish(a) ==
  LET done == {f \in Files : Mine(a, f) # "none"} \ me[a].failed
      state(f) == IF f \in done /\ rows[f].state \in {"catalog_committed", "cleanup_pending"}
                  THEN "completed"
                  ELSE IF f \in me[a].failed /\ rows[f].state = "catalog_committed"
                  THEN "cleanup_pending" ELSE rows[f].state
  IN
  /\ me[a].pc = "cleanFinish"
  /\ IF bundle \in {"catalog_committed", "cleanup_pending"}
     THEN /\ bundle' = IF me[a].failed = {} THEN "completed" ELSE "cleanup_pending"
          /\ rows' = [f \in Files |-> [rows[f] EXCEPT !.state = state(f)]]
          /\ me' = [b \in Actors |->
                      IF b # a THEN [me[b] EXCEPT !.fresh = {f \in @ : state(f) = rows[f].state}]
                      ELSE IF a # Recoverer THEN Blank("ok")
                      ELSE IF bundle' = "completed" \/ booted THEN Blank("none")
                      ELSE [Blank("none") EXCEPT !.pc = "escalate"]]
     ELSE Raise(a) /\ UNCHANGED <<bundle, rows>>
  /\ UNCHANGED <<catalog, fs, booted, spent>>

ResumeImportCleanup(a) == CleanSource(a) \/ CleanReplaced(a) \/ CleanFinish(a)

\* A store call raises, or _root_paths finds another policy revision than the bundle's,
\* where nothing undoes or retries: the caller gets the exception and the rows stay as
\* they are, in the cleanup those of a bundle that is committed.
Unhandled(a) ==
  /\ \/ me[a].pc \in {"ensure", "mark", "list", "prepFailed", "rollStart", "refresh", "reread",
                      "lockCleanup"} \union InCleanup
     \/ a = Recoverer /\ me[a].pc \in {"journals", "verdict"}
  /\ Fault
  /\ Raise(a)
  /\ UNCHANGED <<bundle, rows, catalog, fs, booted>>

--------------------------------------------------------------------------------
(* Recovery: recover_once lists the bundles and works on the copies it      *)
(* listed, one after another; recover_startup repeats it until nothing is   *)
(* left, before the workers start.                                          *)

\* The page is read. Other bundles of the page may be recovered before this one.
RecoverList ==
  /\ me[Recoverer].pc = "idle"
  /\ ~booted \/ PeriodicRecovery
  /\ bundle \in Recoverable
  /\ me' = [me EXCEPT ![Recoverer].pc = "check", ![Recoverer].seen = bundle]
  /\ UNCHANGED <<bundle, rows, catalog, fs, booted, spent>>

\* recover_import_bundle: a bundle with an active publisher is skipped.
RecoverCheck ==
  /\ me[Recoverer].pc = "check"
  /\ IF Active THEN Leave(Recoverer, "none")
     ELSE Go(Recoverer, IF me[Recoverer].seen \in Committed THEN "lockCleanup" ELSE "journals")
  /\ UNCHANGED <<bundle, rows, catalog, fs, booted, spent>>

\* Mutant: a bundle without journal rows is left alone.
RecoverJournalsNeeded ==
  /\ me[Recoverer].pc = "journals"
  /\ IF Journaled # {} THEN Listed(Recoverer, "rollStart", Journaled)
     ELSE Leave(Recoverer, "none")
  /\ UNCHANGED <<bundle, rows, catalog, fs, booted, spent>>
RecoverJournals ==
  /\ me[Recoverer].pc = "journals"
  /\ IF me[Recoverer].seen = "publishing"
     THEN Listed(Recoverer, "rollStart", Journaled) /\ UNCHANGED bundle
     ELSE IF Journaled = {} /\ bundle \in {"preparing", "publishing"}
     THEN bundle' = "rolled_back" /\ Leave(Recoverer, "none")
     ELSE Go(Recoverer, "attention") /\ UNCHANGED bundle
  /\ UNCHANGED <<rows, catalog, fs, booted, spent>>

RecoverVerdict ==
  /\ me[Recoverer].pc = "verdict"
  /\ IF bundle \in {"rolled_back", "needs_attention"} THEN Leave(Recoverer, "none")
     ELSE Go(Recoverer, "attention")
  /\ UNCHANGED <<bundle, rows, catalog, fs, booted, spent>>

\* mark_library_management_import_needs_attention: by the recovery that failed, or
\* (_escalate_stuck_import_cleanups) at startup for a cleanup that keeps failing.
MarkNeedsAttention ==
  LET closed == {"completed", "rolled_back", "needs_attention", "resolved"}
      touched == {f \in Files : rows[f].state \notin closed \union {"none"}}
  IN
  /\ me[Recoverer].pc \in {"attention", "escalate"}
  /\ bundle' = IF bundle \in closed THEN bundle ELSE "needs_attention"
  /\ rows' = [f \in Files |-> IF f \in touched THEN [rows[f] EXCEPT !.state = "needs_attention"]
                              ELSE rows[f]]
  /\ me' = [a \in Actors |-> IF a = Recoverer THEN Blank("none")
                             ELSE [me[a] EXCEPT !.fresh = @ \ touched]]
  /\ UNCHANGED <<catalog, fs, booted, spent>>

\* The startup has drained every recoverable bundle: the workers start.
Boot ==
  /\ ~booted
  /\ me[Recoverer].pc = "idle" /\ bundle \notin Recoverable
  /\ booted' = TRUE
  /\ UNCHANGED <<bundle, rows, catalog, fs, me, spent>>

\* resolve_import_bundle: an administrator closes a bundle whose destinations verify.
Resolve ==
  LET pending == {f \in Files : rows[f].state = "needs_attention"} IN
  /\ booted /\ bundle = "needs_attention"
  /\ \A f \in pending : rows[f].staged /\ fs[f].dest = "new"
  /\ bundle' = "resolved"
  /\ rows' = [f \in Files |-> IF f \in pending THEN [rows[f] EXCEPT !.state = "resolved"]
                              ELSE rows[f]]
  /\ me' = [a \in Actors |-> [me[a] EXCEPT !.fresh = @ \ pending]]
  /\ UNCHANGED <<catalog, fs, booted, spent>>

--------------------------------------------------------------------------------
(* The environment. *)

Crash ==
  /\ spent.crashes < MaxCrashes
  /\ spent' = [spent EXCEPT !.crashes = @ + 1]
  /\ me' = [a \in Actors |-> Blank("none")]
  /\ booted' = FALSE
  /\ UNCHANGED <<bundle, rows, catalog, fs>>

\* Somebody else puts a file where the bundle's file or cover is to go.
Occupy(f) ==
  /\ spent.foreign < MaxForeign
  /\ spent' = [spent EXCEPT !.foreign = @ + 1]
  /\ \/ fs[f].dest = "none" /\ fs' = [fs EXCEPT ![f].dest = "foreign"]
     \/ /\ f \in Artworks /\ fs[f].adest = "none"
        /\ fs' = [fs EXCEPT ![f].adest = "foreign"]
  /\ UNCHANGED <<bundle, rows, catalog, me, booted>>

CallerStep(c) ==
  \/ Admit(c) \/ EnsureBundle(c) \/ MarkPublishing(c) \/ ListJournals(c)
  \/ \E f \in Files : PrepareImportFile(c, f)
  \/ JournalStaged(c) \/ PreparationFailed(c)
  \/ LockPublish(c) \/ CriticalSection(c) \/ Refresh(c) \/ RereadBundle(c)

WorkerStep(a) ==
  \/ RollbackStart(a) \/ LockRollback(a) \/ RollbackImportBundle(a)
  \/ LockCleanup(a) \/ ResumeImportCleanup(a)

RecovererStep ==
  \/ RecoverList \/ RecoverCheck \/ RecoverJournals \/ RecoverVerdict
  \/ MarkNeedsAttention \/ Boot

Next ==
  \/ \E c \in Callers : Call(c) \/ CallerStep(c)
  \/ \E a \in Actors : WorkerStep(a)
  \/ RecovererStep \/ Resolve
  \/ \E c \in Callers : LockCancelled(c) \/ PublishFails(c) \/ CleanCancelled(c)
  \/ \E a \in Actors : RollFails(a) \/ RollAborts(a) \/ CleanFails(a) \/ Unhandled(a)
  \/ Crash
  \/ \E f \in Files : Occupy(f)

Spec == Init /\ [][Next]_vars

\* Every coroutine goes on and recovery runs again and again; nothing obliges a
\* caller to call, the environment to fail, or anyone to occupy a path.
Fairness == /\ \A c \in Callers : WF_vars(CallerStep(c))
            /\ \A a \in Actors : WF_vars(WorkerStep(a))
            /\ WF_vars(RecovererStep)
FairSpec == Spec /\ Fairness

--------------------------------------------------------------------------------
(* Properties. *)

\* The rows of bundle and files are in states the store knows, and an actor works on
\* a file of the bundle.
TypeOK ==
  /\ bundle \in BundleStates
  /\ rows \in [Files -> [state : RowStates, staged : BOOLEAN]]
  /\ catalog \in BOOLEAN /\ booted \in BOOLEAN
  /\ fs \in [Files -> [src : BOOLEAN, temp : BOOLEAN, dest : Content, backup : Content,
                       aside : BOOLEAN, bin : BOOLEAN, atemp : BOOLEAN,
                       adest : {"none", "mine", "foreign"}]]
  /\ me \in [Actors -> [pc : PCs, at : Files, seen : BundleStates,
                        rows : [Files -> [state : RowStates, staged : BOOLEAN]],
                        fresh : SUBSET Files, prep : SUBSET Files,
                        was : BOOLEAN, bad : BOOLEAN, failed : SUBSET Files,
                        answer : {"none", "ok", "error", "refused", "cancelled"}]]
  /\ spent \in [crashes : Nat, faults : Nat, foreign : Nat, calls : Nat]

\* The download's own file is removed only when the catalogue points to its
\* successor and the successor is on the shelf: no interleaving, crash or failure
\* loses the only copy. (Breaks when recovery also runs beside the publishers.)
SourceKept == \A f \in Files : ~fs[f].src => catalog /\ fs[f].dest = "new"

\* The track an import replaces is always somewhere: at its place, in the backup
\* beside it, or in the recycle bin; and in the bin only if the import committed.
OriginalKept == \A f \in Files :
  /\ f \in Upgrades => fs[f].dest = "old" \/ fs[f].backup = "old" \/ fs[f].bin
  /\ f \in Moves => fs[f].aside \/ fs[f].bin
  /\ fs[f].bin => catalog

\* A bundle reported as rolled back leaves no cover of its own in the library.
CoversWithdrawn == bundle = "rolled_back" => \A f \in Files : fs[f].adest # "mine"

\* What the catalogue committed is never undone nor published a second time.
CommittedFinal == [][catalog => bundle' \notin {"publishing", "rolled_back"}]_vars

\* Where a caller publishes or undoes, and need not look whether it has committed.
Publishing == Entered \ ({"ensure", "refresh", "reread", "lockCleanup"} \union InCleanup)

\* A caller whose publication fails and is undone gets the failure, and may try another
\* candidate: never for a bundle the catalogue has committed, though the commit may go
\* through and its caller fail all the same. (An error of the cleanup, or of reading the
\* bundle's row, may well be about a committed bundle.)
FailureMeansUncommitted ==
  [][\A c \in Callers :
       me[c].pc \in Publishing /\ me'[c].pc = "idle" /\ me'[c].answer = "error" => ~catalog]_vars

\* An interrupted publication is always finished, undone or handed over, by the
\* caller that returns to it or by recovery.
Settles == bundle \in Recoverable ~> bundle \notin Recoverable

(* The bundle as AtomicPublication sees it. While it is open only the       *)
(* publisher looks at the shelf.                                            *)
Untouched(f) == /\ fs[f].dest \in {Before(f), "foreign"} /\ fs[f].backup = "none"
                /\ ~fs[f].temp /\ ~fs[f].atemp
                /\ fs[f].aside = (f \in Moves) /\ fs[f].src
Published(f) == fs[f].dest = "new"
Tidied(f)    == /\ Published(f)
                /\ ~fs[f].src /\ ~fs[f].aside /\ fs[f].backup = "none"
                /\ fs[f].bin = (f \in Upgrades \union Moves)

Outcome ==
  IF bundle = "resolved" THEN "resolved"
  ELSE IF bundle = "needs_attention" \/ \E f \in Files : rows[f].state = "needs_attention"
  THEN "attention"
  ELSE IF bundle = "completed" THEN "done"
  ELSE IF bundle \in Committed THEN "committed"
  ELSE IF bundle = "rolled_back" THEN "withdrawn"
  ELSE "open"

Shelf ==
  CASE Outcome = "open"                    -> "before"
    [] Outcome \in {"attention", "resolved"} -> "unknown"
    [] Outcome = "withdrawn" -> IF \A f \in Files : Untouched(f) THEN "before" ELSE "unknown"
    [] Outcome = "committed" -> IF \A f \in Files : Published(f) THEN "after" ELSE "unknown"
    [] Outcome = "done"      -> IF \A f \in Files : Tidied(f) THEN "tidy" ELSE "unknown"

Atomic == INSTANCE AtomicPublication WITH outcome <- Outcome, shelf <- Shelf

\* Whatever crashes and fails, a reader sees the publication happen in one step:
\* the bundle is on the shelf and in the catalogue as a whole, or the shelf is as
\* it was, or the bundle says that it needs attention.
AtomicallyPublished == Atomic!Spec
================================================================================
