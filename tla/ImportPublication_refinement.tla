---------------------- MODULE ImportPublication_refinement ----------------------
(* ImportPublication implements AtomicPublication, for every number of      *)
(* files, callers, crashes, faults, foreign files and calls, where recovery *)
(* runs only at startup.                                                    *)
EXTENDS ImportPublication_proofs

--------------------------------------------------------------------------------
(* What a journal row says of its file is true of the directories           *)
(* (FileSays), what the bundle's row says is true of the journal rows       *)
(* (RowsSay), and the actor that has the bundle holds current copies (Holds).*)

Withdrawn == {"none", "rolled_back", "needs_attention"}

RowsSay ==
  /\ bundle \in {"none", "preparing"} => \A f \in Files : rows[f].state = "none"
  /\ bundle = "publishing" => \A f \in Files : rows[f].state \in Undoable \union Withdrawn
  /\ bundle = "rolled_back" => \A f \in Files : rows[f].state \in Withdrawn
  /\ bundle \in InCleaning => \A f \in Files : rows[f].state \in Committed
  /\ bundle = "completed" => \A f \in Files : rows[f].state = "completed"

FileSays(f) ==
  /\ f \notin Upgrades => fs[f].backup = "none" /\ fs[f].dest # "old"
  /\ f \notin Moves => ~fs[f].aside
  /\ fs[f].bin => f \in Upgrades \union Moves
  /\ fs[f].dest = "new" => ~fs[f].temp /\ rows[f].staged
  /\ rows[f].state \in {"planned", "staged"} => fs[f].dest # "new"
  /\ rows[f].state \in {"staged", "validated", "replacement_backed_up", "published"}
       => rows[f].staged
  /\ rows[f].state \in {"none", "rolled_back"} => Untouched(f)
  /\ rows[f].state = "completed" => Tidied(f)

Holds(a) ==
  /\ me[a].pc \in (Working \ {"list"}) \union InCleanup => me[a].rows = rows
  /\ me[a].pc = "refresh" /\ bundle = "publishing" => me[a].rows = rows

\* The files that preparation and publication have gone past.
Forward(a) ==
  /\ me[a].pc \in {"prepare", "staged"} => \A g \in Files : g < At(a) => g \in me[a].prep
  /\ me[a].pc = "staged" => Mine(a, At(a)) = "planned"
  /\ me[a].pc \in {"lockPublish"} \union InCritical => Files \subseteq me[a].prep
  /\ me[a].pc = "refresh" /\ bundle = "publishing" => Files \subseteq me[a].prep
  /\ me[a].pc \in {"publish", "backedUp", "moved", "placed"} =>
       \A g \in Files : g < At(a) => Mine(a, g) = "published"
  /\ me[a].pc = "backedUp" => Mine(a, At(a)) = "validated"
  /\ me[a].pc \in {"moved", "placed"} =>
       Mine(a, At(a)) \in {"validated", "replacement_backed_up"}
  /\ me[a].pc = "commit" => \A g \in Files : Mine(a, g) = "published"

\* The files that the rollback has gone past, and how far it is with the current one.
Backward(a) ==
  /\ me[a].pc \in {"rollStart", "lockRollback"} \union InRollback =>
       \A g \in Files : g \notin me[a].prep => Mine(a, g) = "none"
  /\ me[a].pc \in InRollback \ {"roll", "rollFinish"} => Mine(a, At(a)) = "rollback_pending"
  /\ me[a].pc = "rollDest" /\ fs[At(a)].dest = "new" => me[a].was
  /\ me[a].pc \in {"rollArt", "rollRest", "rollTemp", "rollDone"} => fs[At(a)].dest # "new"
  /\ me[a].pc \in {"rollTemp", "rollDone"} =>
       /\ fs[At(a)].dest \in {Before(At(a)), "foreign"} /\ fs[At(a)].backup = "none"
       /\ ~fs[At(a)].atemp
  /\ me[a].pc = "rollDone" => ~fs[At(a)].temp
  /\ me[a].pc \in InRollback \ {"rollFinish"} /\ ~me[a].bad =>
       \A g \in Files : g > At(a) => Mine(a, g) \in Withdrawn
  /\ me[a].pc = "rollFinish" /\ ~me[a].bad => \A g \in Files : Mine(a, g) \in Withdrawn

\* The files that the cleanup has gone past.
Cleaned(a) ==
  /\ me[a].pc \in {"clean", "cleanReplaced"} =>
       \A g \in Files : g < At(a) => g \in me[a].failed \/ Tidied(g)
  /\ me[a].pc = "cleanReplaced" => ~fs[At(a)].src
  /\ me[a].pc = "cleanFinish" => \A g \in Files : g \in me[a].failed \/ Tidied(g)

ActorC(a) == Holds(a) /\ Forward(a) /\ Backward(a) /\ Cleaned(a)

InvC == /\ RowsSay
        /\ \A f \in Files : FileSays(f)
        /\ \A a \in Actors : ActorC(a)

\* Nothing has been published at the start.
LEMMA InitC == Init => InvC
  <1> SUFFICES ASSUME Init PROVE InvC
    OBVIOUS
  <1>1. RowsSay
    BY DEF Init, RowsSay, NoRow, Row, InCleaning
  <1>2. \A f \in Files : FileSays(f)
    BY DEF Init, FileSays, NoRow, Row, Untouched, Before
  <1>3. \A a \in Actors : ActorC(a)
    <2>1. \A a \in Actors : me[a].pc = "idle"
      BY DEF Init, Blank
    <2> QED
      BY <2>1 DEF ActorC, Holds, Forward, Backward, Cleaned, Working, PreparePCs, InCritical,
         InRollback, InCleanup
  <1> QED
    BY <1>1, <1>2, <1>3 DEF InvC

--------------------------------------------------------------------------------
(* How the rows of bundle and files may change in a step: all that the      *)
(* refinement needs to know of it.                                          *)

BundleMoves ==
  \/ bundle' = bundle
  \/ bundle = "none" /\ bundle' = "preparing"
  \/ bundle \in {"preparing", "rolled_back"} /\ bundle' = "publishing"
  \/ bundle \in {"preparing", "publishing"} /\ bundle' = "rolled_back"
  \/ bundle = "publishing" /\ bundle' = "catalog_committed"
  \/ bundle \in InCleaning /\ bundle' \in {"cleanup_pending", "completed"}
  \/ bundle \in {"none"} \union Recoverable /\ bundle' = "needs_attention"
  \/ bundle = "needs_attention" /\ bundle' = "resolved"

RowMoves == \A f \in Files :
  /\ rows[f].state = "needs_attention"
       => rows'[f].state = "needs_attention" \/ bundle' = "resolved"
  /\ rows'[f].state = "needs_attention"
       => \/ rows[f].state = "needs_attention"
          \/ bundle = "publishing" /\ bundle' = "publishing"
          \/ bundle' = "needs_attention" \/ bundle = "resolved"

Goes == BundleMoves /\ RowMoves

\* A step that leaves the journal rows alone moves only the bundle's row.
LEMMA SameRows ==
  ASSUME UNCHANGED rows, BundleMoves
  PROVE  Goes
  BY DEF Goes, RowMoves

\* A step that leaves both kinds of rows alone.
LEMMA SameBundle ==
  ASSUME UNCHANGED <<rows, bundle>>
  PROVE  Goes
  BY SameRows DEF BundleMoves

--------------------------------------------------------------------------------
(* What an actor carries along.                                             *)

Keeps(a) == /\ me'[a].prep = me[a].prep /\ me'[a].was = me[a].was
            /\ me'[a].bad = me[a].bad /\ me'[a].failed = me[a].failed

\* An actor that only goes on keeps what it carries.
LEMMA GoKeeps ==
  ASSUME MeType, NEW a \in Actors, NEW pc \in PCs, NEW at \in Files,
         Go(a, pc) \/ GoAt(a, pc, at)
  PROVE  Keeps(a)
  BY DEF Go, GoAt, MeType, Local, Keeps

\* So does one that writes a journal row.
LEMMA StoredKeeps ==
  ASSUME MeType, RowsType, NEW a \in Actors, NEW f \in Files, NEW row \in JournalRow,
         NEW pc \in PCs, NEW at \in Files, Stored(a, f, row, pc, at)
  PROVE  Keeps(a)
  BY DEF Stored, MeType, Local, Keeps

\* A row is written by an actor whose copies are current.
Writing(a, f, s, pc, at) ==
  /\ me'[a].pc = pc /\ me'[a].at = at /\ me'[a].rows = rows' /\ Others(a)
  /\ \A g \in Files \ {f} : rows'[g] = rows[g]
  /\ rows'[f].state = s

\* A row is written with the copy that its writer holds.
LEMMA StoredWrites ==
  ASSUME MeType, RowsType, NEW a \in Actors, NEW f \in Files, NEW row \in JournalRow,
         NEW pc \in PCs, NEW at \in Files, Stored(a, f, row, pc, at), me[a].rows = rows
  PROVE  /\ Writing(a, f, row.state, pc, at) /\ rows'[f] = row /\ Keeps(a)
  <1>1. /\ me'[a].pc = pc /\ me'[a].at = at /\ Others(a)
        /\ me'[a].rows = [rows EXCEPT ![f] = row] /\ rows' = [rows EXCEPT ![f] = row]
    BY StoredDoes
  <1>2. rows'[f] = row /\ \A g \in Files \ {f} : rows'[g] = rows[g]
    BY <1>1 DEF RowsType
  <1> QED
    BY <1>1, <1>2, StoredKeeps DEF Writing

\* A transition changes a row's state and nothing else of it.
LEMMA TransitionWrites ==
  ASSUME MeType, RowsType, NEW a \in Actors, NEW f \in Files, NEW s \in RowStates,
         NEW pc \in PCs, NEW at \in Files, Transition(a, f, s, pc, at), me[a].rows = rows
  PROVE  /\ Writing(a, f, s, pc, at) /\ rows'[f].staged = rows[f].staged /\ Keeps(a)
  <1> DEFINE row == [rows[f] EXCEPT !.state = s]
  <1>1. row \in JournalRow /\ row.state = s /\ row.staged = rows[f].staged
    BY RowTypes DEF RowsType, JournalRow
  <1>2. Stored(a, f, row, pc, at)
    BY DEF Transition
  <1> HIDE DEF row
  <1> QED
    BY <1>1, <1>2, StoredWrites

\* Reading the journal starts the actor's account afresh.
LEMMA ListedKeeps ==
  ASSUME MeType, RowsType, NEW a \in Actors, NEW pc \in PCs, NEW prep \in SUBSET Files,
         Listed(a, pc, prep)
  PROVE  me'[a].prep = prep /\ me'[a].bad = FALSE /\ me'[a].failed = {}
  BY DEF Listed, MeType, Local

--------------------------------------------------------------------------------
(* What the rows and directories are while the bundle is being published.   *)

\* What an actor that is publishing or rolling back may rely on.
LEMMA WorkFacts ==
  ASSUME TypeInv, InvA, InvB, InvC, NEW a \in Actors, me[a].pc \in Working
  PROVE  /\ bundle = "publishing" /\ ~catalog /\ Busy(a) /\ MeType /\ RowsType /\ FsType
         /\ me[a].pc # "list" => me[a].rows = rows
         /\ At(a) \in Files /\ At(a) = me[a].at
         /\ \A f \in Files : /\ fs[f].src /\ ~fs[f].bin
                             /\ f \in Upgrades => fs[f].dest = "old" \/ fs[f].backup = "old"
                             /\ f \in Moves => fs[f].aside
         /\ \A f \in Files : /\ FileSays(f) /\ rows[f].state \in Undoable \union Withdrawn
                             /\ rows[f] \in JournalRow /\ fs[f] \in FileState
         /\ Forward(a) /\ Backward(a)
  <1>1. bundle = "publishing" /\ Busy(a)
    BY FreePlaces DEF InvB, BundleAt
  <1>2. ~catalog
    BY <1>1 DEF InvA, CommitKnown, Committed
  <1>3. \A f \in Files : /\ fs[f].src /\ ~fs[f].bin
                         /\ f \in Upgrades => fs[f].dest = "old" \/ fs[f].backup = "old"
                         /\ f \in Moves => fs[f].aside
    BY <1>2 DEF InvA, InvB, OriginalKept, SourceKept
  <1>4. \A f \in Files : FileSays(f) /\ rows[f].state \in Undoable \union Withdrawn
    BY <1>1 DEF InvC, RowsSay
  <1>5. Forward(a) /\ Backward(a) /\ (me[a].pc # "list" => me[a].rows = rows)
    BY DEF InvC, ActorC, Holds
  <1>6. MeType /\ RowsType /\ FsType /\ At(a) \in Files /\ At(a) = me[a].at
    BY Locals DEF TypeInv
  <1>7. \A f \in Files : rows[f] \in JournalRow /\ fs[f] \in FileState
    BY <1>6 DEF RowsType, FsType
  <1> QED
    BY <1>1, <1>2, <1>3, <1>4, <1>5, <1>6, <1>7

\* A step of the actor that has the bundle.
LEMMA StepC ==
  ASSUME TypeInv, InvB, InvC, NEW a \in Actors, Busy(a), Others(a),
         RowsSay', \A f \in Files : FileSays(f)', ActorC(a)'
  PROVE  InvC'
  <1>1. ASSUME NEW b \in Actors \ {a} PROVE ActorC(b)'
    <2>1. ~Busy(b)'
      BY DEF InvB, Alone, Others, Same, Busy, Inside
    <2>2. me'[b].pc \notin Working \union {"refresh"} \union InCleanup
      BY <2>1 DEF Busy, Inside, Entered, Working, PreparePCs, InCritical, InRollback, InCleanup
    <2> QED
      BY <2>2 DEF ActorC, Holds, Forward, Backward, Cleaned, Working, PreparePCs,
         InCritical, InRollback, InCleanup
  <1> QED
    BY <1>1 DEF InvC

\* A place where the actor has nothing to keep.
Loose == Free \union {"mark", "list", "reread", "lockCleanup", "check", "journals"}

\* An actor at such a place promises nothing.
LEMMA LooseC ==
  ASSUME NEW a \in Actors, \/ me'[a].pc \in Loose
                           \/ me'[a].pc = "refresh" /\ bundle' # "publishing"
  PROVE  ActorC(a)'
  BY DEF Loose, Free, ActorC, Holds, Forward, Backward, Cleaned, Working, PreparePCs,
     InCritical, InRollback, InCleanup

\* What the rows say of the files stays true while neither changes.
LEMMA FilesStay ==
  ASSUME InvC, UNCHANGED <<rows, fs>>
  PROVE  \A f \in Files : FileSays(f)'
  BY DEF InvC, FileSays, Untouched, Tidied, Published

\* A step of the publication or of its rollback that changes one file.
LEMMA WorkC ==
  ASSUME TypeInv, InvA, InvB, InvC, NEW a \in Actors, me[a].pc \in Working, Others(a),
         UNCHANGED bundle, NEW f \in Files,
         \A g \in Files \ {f} : rows'[g] = rows[g] /\ fs'[g] = fs[g],
         rows'[f].state \in Undoable \union Withdrawn,
         rows'[f].state = rows[f].state \/ rows[f].state # "needs_attention",
         FileSays(f)', ActorC(a)'
  PROVE  InvC' /\ Goes
  <1>1. bundle = "publishing" /\ Busy(a)
    BY WorkFacts
  <1>2. RowsSay'
    BY <1>1 DEF RowsSay, InvC, InCleaning
  <1>3. \A g \in Files : FileSays(g)'
    BY DEF InvC, FileSays, Untouched, Tidied, Published
  <1>4. Goes
    BY <1>1 DEF Goes, BundleMoves, RowMoves
  <1> QED
    BY <1>1, <1>2, <1>3, <1>4, StepC

\* One that changes no file.
LEMMA IdleC ==
  ASSUME TypeInv, InvA, InvB, InvC, NEW a \in Actors, me[a].pc \in Working, Others(a),
         UNCHANGED <<bundle, rows, fs>>, ActorC(a)'
  PROVE  InvC' /\ Goes
  <1>1. \A f \in Files : FileSays(f)'
    BY FilesStay
  <1>2. RowsSay'
    BY DEF InvC, RowsSay
  <1> QED
    BY <1>1, <1>2, WorkFacts, StepC, SameBundle

--------------------------------------------------------------------------------
(* The callers.                                                             *)

\* What an actor must carry where it prepares or publishes.
LEMMA AtPrepare ==
  ASSUME TypeInv', NEW a \in Actors, me'[a].rows = rows',
         me'[a].pc \in {"prepare", "staged", "prepFailed"},
         me'[a].pc # "prepFailed" => \A g \in Files : g < me'[a].at => g \in me'[a].prep,
         me'[a].pc = "staged" => rows'[me'[a].at].state = "planned"
  PROVE  ActorC(a)'
  BY DEF ActorC, Holds, Forward, Backward, Cleaned, Working, PreparePCs, InCritical,
     InRollback, InCleanup, Mine, At

\* What the publication has to show where it goes next.
LEMMA AtPublish ==
  ASSUME TypeInv', NEW a \in Actors, me'[a].rows = rows', Files \subseteq me'[a].prep,
         me'[a].pc \in {"lockPublish", "refresh", "boundary", "recheck", "publish", "backedUp",
                        "moved", "placed", "commit"},
         me'[a].pc \in {"publish", "backedUp", "moved", "placed"} =>
           \A g \in Files : g < me'[a].at => rows'[g].state = "published",
         me'[a].pc = "backedUp" => rows'[me'[a].at].state = "validated",
         me'[a].pc \in {"moved", "placed"} =>
           rows'[me'[a].at].state \in {"validated", "replacement_backed_up"},
         me'[a].pc = "commit" => \A g \in Files : rows'[g].state = "published"
  PROVE  ActorC(a)'
  BY DEF ActorC, Holds, Forward, Backward, Cleaned, Working, PreparePCs, InCritical,
     InRollback, InCleanup, Mine, At

\* A file that is still to be published: its row is planned, staged or validated.
LEMMA SwapC ==
  ASSUME TypeInv, InvA, InvB, InvC, NEW c \in Callers, NEW f \in Files,
         NEW s \in {"planned", "validated"}, Preparing(c, f, {"rolled_back", "staged"}),
         Swap(c, f, s, "prepare"),
         s = "planned" <=> Mine(c, f) = "rolled_back"
  PROVE  InvC' /\ Goes
  <1>1. /\ c \in Actors /\ me[c].pc = "prepare" /\ f = me[c].at /\ me[c].pc \in Working
        /\ {"prepare", "prepFailed"} \subseteq PCs /\ s \in RowStates
        /\ TypeInv' /\ Others(c) /\ UNCHANGED <<bundle, fs>>
    BY CallersAct, AllPCs, AllStates, SwapTypes DEF Preparing, At, Working, PreparePCs, Swap
  <1>2. /\ me[c].rows = rows /\ MeType /\ RowsType /\ f \in Files /\ FileSays(f)
        /\ \A g \in Files : g < f => g \in me[c].prep
        /\ rows[f].state \in {"rolled_back", "staged"}
        /\ s = "planned" <=> rows[f].state = "rolled_back"
    BY <1>1, WorkFacts DEF Forward, At, Mine, Preparing
  <1>3. CASE Current(c, f)
    <2>1. Transition(c, f, s, "prepare", f)
      BY <1>3 DEF Swap
    <2>2. Writing(c, f, s, "prepare", f) /\ rows'[f].staged = rows[f].staged /\ Keeps(c)
      BY <1>1, <1>2, <2>1, TransitionWrites
    <2>3. FileSays(f)'
      BY <1>1, <1>2, <2>2 DEF FileSays, Writing, Untouched, Tidied, Published, Before
    <2>4. ActorC(c)'
      BY <1>1, <1>2, <2>2, AtPrepare DEF Writing, Keeps
    <2>5. s \in Undoable \union Withdrawn
      BY DEF Undoable, Withdrawn
    <2> QED
      BY <1>1, <1>2, <2>2, <2>3, <2>4, <2>5, WorkC DEF Writing
  <1>4. CASE ~Current(c, f)
    <2>1. Go(c, "prepFailed") /\ UNCHANGED rows
      BY <1>4 DEF Swap
    <2>2. ActorC(c)'
      BY <1>1, <1>2, <2>1, GoDoes, AtPrepare DEF Moved
    <2> QED
      BY <1>1, <2>1, <2>2, IdleC
  <1> QED
    BY <1>3, <1>4

\* Preparation: planning a file, or finding that it cannot be published.
LEMMA PlanC ==
  ASSUME TypeInv, InvA, InvB, InvC, NEW c \in Callers, NEW f \in Files,
         PlanFile(c, f) \/ Unpublishable(c, f) \/ Prepared(c, f)
  PROVE  InvC' /\ Goes
  <1>1. /\ c \in Actors /\ me[c].pc = "prepare" /\ f = me[c].at /\ me[c].pc \in Working
        /\ {"prepare", "prepFailed"} \subseteq PCs
        /\ TypeInv' /\ Others(c) /\ UNCHANGED <<bundle, fs>>
    BY CallersAct, AllPCs, PrepareTypes
       DEF PlanFile, Unpublishable, Prepared, Preparing, At, Working, PreparePCs,
           PrepareImportFile
  <1>2. /\ me[c].rows = rows /\ MeType /\ RowsType /\ FileSays(f)
        /\ \A g \in Files : g < f => g \in me[c].prep
    BY <1>1, WorkFacts DEF Forward, At
  <1>3. ASSUME Go(c, "prepFailed"), UNCHANGED rows PROVE InvC' /\ Goes
    <2>1. ActorC(c)'
      BY <1>1, <1>2, <1>3, GoDoes, AtPrepare DEF Moved
    <2> QED
      BY <1>1, <1>3, <2>1, IdleC
  <1>4. ASSUME Stored(c, f, Row("planned", FALSE), "prepare", f), rows[f].state = "none"
        PROVE  InvC' /\ Goes
    <2> DEFINE row == Row("planned", FALSE)
    <2>1. row \in JournalRow /\ row.state = "planned" /\ Stored(c, f, row, "prepare", f)
      BY <1>4, RowTypes, AllStates DEF Row
    <2> HIDE DEF row
    <2>2. Writing(c, f, "planned", "prepare", f) /\ Keeps(c)
      BY <1>1, <1>2, <1>4, <2>1, StoredWrites
    <2>3. FileSays(f)'
      BY <1>1, <1>2, <1>4, <2>2 DEF FileSays, Writing, Untouched, Tidied, Published, Before
    <2>4. ActorC(c)'
      BY <1>1, <1>2, <2>2, AtPrepare DEF Writing, Keeps
    <2>5. "planned" \in Undoable \union Withdrawn
      BY DEF Undoable
    <2> QED
      BY <1>1, <1>4, <2>2, <2>3, <2>4, <2>5, WorkC DEF Writing
  <1>5. CASE Prepared(c, f)
    <2>1. /\ me' = [me EXCEPT ![c].prep = @ \union {f},
                      ![c].pc = IF f = NFiles THEN "lockPublish" ELSE @,
                      ![c].at = IF f = NFiles THEN 1 ELSE @ + 1]
          /\ UNCHANGED rows
      BY <1>5 DEF Prepared
    <2>2. /\ me'[c].prep = me[c].prep \union {f} /\ me'[c].rows = rows
          /\ f = NFiles => me'[c].pc = "lockPublish"
          /\ f # NFiles => me'[c].pc = "prepare" /\ me'[c].at = f + 1
      BY <1>1, <1>2, <2>1 DEF MeType, Local
    <2>3. CASE f = NFiles
      <3>1. Files \subseteq me'[c].prep
        BY <1>2, <2>2, <2>3, ConstantsOK DEF Files
      <3> QED
        BY <1>1, <2>1, <2>2, <2>3, <3>1, AtPublish, IdleC
    <2>4. CASE f # NFiles
      <3>1. \A g \in Files : g < me'[c].at => g \in me'[c].prep
        BY <1>2, <2>2, <2>4, ConstantsOK DEF Files
      <3> QED
        BY <1>1, <2>1, <2>2, <2>4, <3>1, AtPrepare, IdleC
    <2> QED
      BY <2>3, <2>4
  <1> QED
    BY <1>1, <1>2, <1>3, <1>4, <1>5 DEF PlanFile, Unpublishable, Preparing, Mine

\* Preparation: the file's copy is staged, or staging it fails.
LEMMA StageC ==
  ASSUME TypeInv, InvA, InvB, InvC, NEW c \in Callers, NEW f \in Files,
         Stage(c, f) \/ StageFails(c, f)
  PROVE  InvC' /\ Goes
  <1>1. /\ c \in Actors /\ me[c].pc = "prepare" /\ f = me[c].at /\ me[c].pc \in Working
        /\ {"staged", "prepFailed"} \subseteq PCs
        /\ TypeInv' /\ Others(c) /\ UNCHANGED <<bundle, rows>>
    BY CallersAct, AllPCs, PrepareTypes
       DEF Stage, StageFails, Preparing, At, Working, PreparePCs, PrepareImportFile
  <1>2. /\ me[c].rows = rows /\ MeType /\ RowsType /\ FsType /\ FileSays(f)
        /\ \A g \in Files : g < f => g \in me[c].prep
        /\ rows[f].state = "planned"
    BY <1>1, WorkFacts DEF Forward, At, Stage, StageFails, Preparing, Mine
  <1>3. /\ \A g \in Files \ {f} : fs'[g] = fs[g]
        /\ fs'[f].dest = fs[f].dest /\ fs'[f].backup = fs[f].backup
        /\ fs'[f].aside = fs[f].aside /\ fs'[f].bin = fs[f].bin /\ fs'[f].src = fs[f].src
    <2>1. \/ fs' = fs
          \/ fs' = [fs EXCEPT ![f].temp = TRUE, ![f].atemp = f \in Artworks]
          \/ fs' = [fs EXCEPT ![f].atemp = f \in Artworks]
      BY DEF Stage, StageFails
    <2> QED
      BY <1>2, <2>1 DEF FsType, FileState
  <1>4. FileSays(f)'
    BY <1>1, <1>2, <1>3 DEF FileSays, Untouched, Tidied, Published, Before
  <1>5. ActorC(c)'
    <2>1. Go(c, "staged") \/ Go(c, "prepFailed")
      BY DEF Stage, StageFails
    <2>2. /\ me'[c].pc \in {"staged", "prepFailed"} /\ me'[c].at = f /\ me'[c].rows = rows'
          /\ me'[c].prep = me[c].prep
      BY <1>1, <1>2, <2>1, GoDoes, GoKeeps DEF Moved, Keeps
    <2> QED
      BY <1>1, <1>2, <2>2, AtPrepare
  <1>6. "planned" \in Undoable \union Withdrawn
    BY DEF Undoable
  <1> QED
    BY <1>1, <1>2, <1>3, <1>4, <1>5, <1>6, WorkC

\* Preparation: the staged copy is recorded.
LEMMA StagedC ==
  ASSUME TypeInv, InvA, InvB, InvC, NEW c \in Callers, JournalStaged(c)
  PROVE  InvC' /\ Goes
  <1>0. PICK f \in Files : f = At(c)
    BY CallersAct, Locals DEF TypeInv
  <1>1. /\ c \in Actors /\ me[c].pc = "staged" /\ f = me[c].at /\ me[c].pc \in Working
        /\ {"prepare", "prepFailed"} \subseteq PCs
        /\ TypeInv' /\ Others(c) /\ UNCHANGED <<bundle, fs>>
    BY <1>0, CallersAct, AllPCs, StagedTypes DEF JournalStaged, At, Working, PreparePCs
  <1>2. /\ me[c].rows = rows /\ MeType /\ RowsType /\ FileSays(f)
        /\ \A g \in Files : g < f => g \in me[c].prep
        /\ rows[f].state = "planned"
    BY <1>1, WorkFacts DEF Forward, At, Mine
  <1>3. CASE Current(c, f)
    <2> DEFINE row == Row("staged", TRUE)
    <2>1. /\ Stored(c, f, row, "prepare", f)
          /\ row \in JournalRow /\ row.state = "staged" /\ row.staged = TRUE
      BY <1>0, <1>3, RowTypes, AllStates DEF JournalStaged, Row
    <2> HIDE DEF row
    <2>2. Writing(c, f, "staged", "prepare", f) /\ Keeps(c) /\ rows'[f].staged
      BY <1>1, <1>2, <2>1, StoredWrites
    <2>3. FileSays(f)'
      BY <1>1, <1>2, <2>2 DEF FileSays, Writing, Untouched, Tidied, Published, Before
    <2>4. ActorC(c)'
      BY <1>1, <1>2, <2>2, AtPrepare DEF Writing, Keeps
    <2>5. "staged" \in Undoable \union Withdrawn
      BY DEF Undoable
    <2> QED
      BY <1>1, <1>2, <2>2, <2>3, <2>4, <2>5, WorkC DEF Writing
  <1>4. CASE ~Current(c, f)
    <2>1. Go(c, "prepFailed") /\ UNCHANGED rows
      BY <1>0, <1>4 DEF JournalStaged
    <2>2. ActorC(c)'
      BY <1>1, <1>2, <2>1, GoDoes, AtPrepare DEF Moved
    <2> QED
      BY <1>1, <2>1, <2>2, IdleC
  <1> QED
    BY <1>3, <1>4

\* Preparing a file, as a whole.
LEMMA PrepareC ==
  ASSUME TypeInv, InvA, InvB, InvC, NEW c \in Callers, NEW f \in Files, PrepareImportFile(c, f)
  PROVE  InvC' /\ Goes
  <1>1. CASE Replan(c, f)
    <2>1. Preparing(c, f, {"rolled_back", "staged"}) /\ Mine(c, f) = "rolled_back"
          /\ Swap(c, f, "planned", "prepare")
      BY <1>1 DEF Replan, Preparing
    <2> QED
      BY <2>1, SwapC
  <1>2. CASE Validate(c, f)
    <2>1. Preparing(c, f, {"rolled_back", "staged"}) /\ Mine(c, f) = "staged"
      BY <1>2 DEF Validate, Preparing
    <2>2. CASE fs[f].temp
      BY <1>2, <2>1, <2>2, SwapC DEF Validate
    <2>3. CASE ~fs[f].temp
      <3>1. /\ c \in Actors /\ me[c].pc \in Working /\ Others(c) /\ "prepFailed" \in PCs
            /\ TypeInv' /\ me[c].pc # "list"
            /\ Go(c, "prepFailed") /\ UNCHANGED <<bundle, rows, fs>>
        BY <1>2, <2>3, CallersAct, AllPCs, PrepareTypes
           DEF Validate, Preparing, Working, PreparePCs, PrepareImportFile
      <3>2. ActorC(c)'
        BY <3>1, WorkFacts, GoDoes, AtPrepare DEF Moved
      <3> QED
        BY <3>1, <3>2, IdleC
    <2> QED
      BY <2>2, <2>3
  <1> QED
    BY <1>1, <1>2, PlanC, StageC DEF PrepareImportFile
\* Reading the journal rows before preparation.
LEMMA ListC ==
  ASSUME TypeInv, InvA, InvB, InvC, NEW c \in Callers, ListJournals(c)
  PROVE  InvC' /\ Goes
  <1>1. /\ c \in Actors /\ me[c].pc = "list" /\ me[c].pc \in Working /\ "prepare" \in PCs
        /\ {} \in SUBSET Files /\ MeType /\ RowsType /\ TypeInv' /\ Others(c)
        /\ Listed(c, "prepare", {}) /\ UNCHANGED <<bundle, rows, fs>>
    BY CallersAct, AllPCs, EntryTypes DEF ListJournals, Working, TypeInv
  <1>2. me'[c].rows = rows' /\ me'[c].pc = "prepare" /\ me'[c].at = 1
    BY <1>1, ListedDoes
  <1>3. \A g \in Files : ~(g < 1)
    BY DEF Files
  <1> QED
    BY <1>1, <1>2, <1>3, AtPrepare, IdleC

\* What an actor must carry where it starts to roll back.
LEMMA AtRollStart ==
  ASSUME NEW a \in Actors, me'[a].rows = rows', me'[a].pc \in {"rollStart", "lockRollback"},
         \A g \in Files : g \notin me'[a].prep => rows'[g].state = "none"
  PROVE  ActorC(a)'
  BY DEF ActorC, Holds, Forward, Backward, Cleaned, Working, PreparePCs, InCritical,
     InRollback, InCleanup, Mine, At

\* Preparation fails: the rollback is next.
LEMMA PreparationFailedC ==
  ASSUME TypeInv, InvA, InvB, InvC, NEW c \in Callers, PreparationFailed(c)
  PROVE  InvC' /\ Goes
  <1>1. /\ c \in Actors /\ me[c].pc \in Working /\ me[c].pc = "prepFailed"
        /\ TypeInv' /\ Others(c) /\ UNCHANGED <<bundle, rows, fs>>
    BY CallersAct, StagedTypes DEF PreparationFailed, Working, PreparePCs
  <1>2. me[c].rows = rows /\ MeType /\ RowsType
    BY <1>1, WorkFacts
  <1>3. /\ me'[c].rows = [f \in Files |-> IF f \in me[c].prep THEN me[c].rows[f] ELSE rows[f]]
        /\ me'[c].prep = me[c].prep \union Journaled /\ me'[c].pc = "rollStart"
    BY <1>1, <1>2 DEF PreparationFailed, MeType, Local
  <1>4. me'[c].rows = rows'
    BY <1>1, <1>2, <1>3 DEF RowsType
  <1>5. \A g \in Files : g \notin me'[c].prep => rows'[g].state = "none"
    BY <1>1, <1>3 DEF Journaled
  <1> QED
    BY <1>1, <1>3, <1>4, <1>5, AtRollStart, IdleC

\* An exception while the publication waits or publishes.
LEMMA RefreshC ==
  ASSUME TypeInv, InvA, InvB, InvC, NEW c \in Callers,
         me[c].pc \in {"lockPublish"} \union InCritical, Go(c, "refresh"),
         UNCHANGED <<bundle, rows, fs>>, TypeInv', Others(c)
  PROVE  InvC' /\ Goes
  <1>1. c \in Actors /\ me[c].pc \in Working /\ me[c].pc # "list" /\ "refresh" \in PCs
    BY CallersAct, AllPCs DEF Working, InCritical
  <1>2. me[c].rows = rows /\ MeType /\ Files \subseteq me[c].prep /\ At(c) \in Files
    BY <1>1, WorkFacts DEF Forward
  <1>3. me'[c].pc = "refresh" /\ me'[c].rows = rows' /\ me'[c].prep = me[c].prep
    BY <1>1, <1>2, GoDoes, GoKeeps DEF Moved, Keeps
  <1> QED
    BY <1>1, <1>2, <1>3, AtPublish, IdleC

\* The prepared bundle gets the locks of the library, or does not.
LEMMA LockPublishC ==
  ASSUME TypeInv, InvA, InvB, InvC, NEW c \in Callers,
         LockPublish(c) \/ LockCancelled(c) \/ PublishFails(c)
  PROVE  InvC' /\ Goes
  <1>1. c \in Actors /\ TypeInv' /\ Others(c) /\ UNCHANGED <<bundle, rows, fs>>
    BY CallersAct, PlainTypes DEF LockPublish, LockCancelled, PublishFails
  <1>2. CASE LockPublish(c)
    <2>1. /\ me[c].pc \in Working /\ me[c].pc = "lockPublish" /\ "boundary" \in PCs /\ 1 \in Files
          /\ GoAt(c, "boundary", 1)
      BY <1>2, AllPCs, Numbers DEF LockPublish, Working
    <2>2. me[c].rows = rows /\ MeType /\ Files \subseteq me[c].prep
      BY <1>1, <2>1, WorkFacts DEF Forward
    <2>3. me'[c].pc = "boundary" /\ me'[c].rows = rows' /\ me'[c].prep = me[c].prep
      BY <1>1, <2>1, <2>2, GoAtDoes, GoKeeps DEF Moved, Keeps
    <2> QED
      BY <1>1, <2>1, <2>2, <2>3, AtPublish, IdleC
  <1>3. CASE LockCancelled(c) \/ PublishFails(c)
    <2>1. me[c].pc \in {"lockPublish"} \union InCritical /\ Go(c, "refresh")
      BY <1>3 DEF LockCancelled, PublishFails, InCritical
    <2> QED
      BY <1>1, <2>1, RefreshC
  <1> QED
    BY <1>2, <1>3

\* Where the critical section is at a file, the copies are current and the files
\* behind it are published.
LEMMA CriticalFacts ==
  ASSUME TypeInv, InvA, InvB, InvC, NEW c \in Callers, me[c].pc \in InCritical
  PROVE  /\ c \in Actors /\ me[c].pc \in Working /\ me[c].rows = rows /\ MeType /\ RowsType
         /\ FsType /\ Files \subseteq me[c].prep /\ At(c) \in Files /\ At(c) = me[c].at
         /\ FileSays(At(c)) /\ rows[At(c)].state \in Undoable \union Withdrawn
         /\ \A g \in Files : Mine(c, g) = rows[g].state
  BY CallersAct, WorkFacts DEF InCritical, Working, Forward, Mine

\* A file that is recorded as published, backed up, or as before.
LEMMA CoverPlacedKeepsTemp ==
  ASSUME FsType, NEW f \in Files, fs' = CoverPlaced(f)
  PROVE  fs'[f].temp = fs[f].temp
  BY DEF FsType, FileState, CoverPlaced

\* The boundary check inside the locks.
LEMMA BoundaryC ==
  ASSUME TypeInv, InvA, InvB, InvC, NEW c \in Callers, Boundary(c)
  PROVE  InvC' /\ Goes
  <1>0. PICK f \in Files : f = At(c)
    BY CallersAct, Locals DEF TypeInv
  <1> DEFINE next == IF f = NFiles THEN "recheck" ELSE "boundary"
             then == IF f = NFiles THEN 1 ELSE f + 1
  <1>1. me[c].pc = "boundary" /\ me[c].pc \in InCritical
    BY DEF Boundary, InCritical
  <1>2. /\ c \in Actors /\ me[c].pc \in Working /\ me[c].rows = rows /\ MeType /\ RowsType
        /\ FsType /\ Files \subseteq me[c].prep /\ f \in Files
        /\ FileSays(f) /\ rows[f].state \in Undoable \union Withdrawn
        /\ TypeInv' /\ Others(c) /\ UNCHANGED bundle
    BY <1>0, <1>1, CriticalFacts, BoundaryTypes DEF Boundary
  <1>3. /\ next \in PCs /\ then \in Files /\ "refresh" \in PCs
        /\ next \in {"recheck", "boundary"}
        /\ {"published", "replacement_backed_up"} \subseteq RowStates
    BY <1>2, Numbers, AllPCs, AllStates
  <1>4. \/ /\ Transition(c, f, "published", next, then)
           /\ fs' = CoverPlaced(f) /\ fs[f].dest = "new" /\ rows[f].state # "needs_attention"
        \/ /\ Transition(c, f, "replacement_backed_up", next, then)
           /\ fs' = fs /\ rows[f].state = "validated"
        \/ /\ Go(c, "refresh") /\ UNCHANGED rows /\ fs' \in {fs, CoverPlaced(f)}
           /\ rows[f].state \in {"validated", "replacement_backed_up"}
        \/ GoAt(c, next, then) /\ UNCHANGED <<rows, fs>>
    BY <1>0, <1>2 DEF Boundary, Exact, Mine
  <1> HIDE DEF next, then
  <1>5. /\ \A g \in Files \ {f} : fs'[g] = fs[g]
        /\ fs'[f].dest = fs[f].dest /\ fs'[f].backup = fs[f].backup
        /\ fs'[f].src = fs[f].src /\ fs'[f].aside = fs[f].aside /\ fs'[f].bin = fs[f].bin
        /\ fs'[f].temp = fs[f].temp
    BY <1>2, <1>4, CoverPlacedDoes, CoverPlacedKeepsTemp
  <1>6. ASSUME NEW s \in {"published", "replacement_backed_up"},
               Transition(c, f, s, next, then), rows[f].state # "needs_attention",
               fs[f].dest = "new" \/ rows[f].state = "validated"
        PROVE  InvC' /\ Goes
    <2>1. Writing(c, f, s, next, then) /\ rows'[f].staged = rows[f].staged /\ Keeps(c)
      BY <1>2, <1>3, <1>6, TransitionWrites
    <2>2. FileSays(f)'
      BY <1>2, <1>5, <1>6, <2>1 DEF FileSays, Writing
    <2>3. ActorC(c)'
      BY <1>2, <1>3, <2>1, AtPublish DEF Writing, Keeps
    <2>4. s \in Undoable \union Withdrawn
      BY DEF Undoable
    <2> QED
      BY <1>2, <1>5, <1>6, <2>1, <2>2, <2>3, <2>4, WorkC DEF Writing
  <1>7. CASE /\ Go(c, "refresh") /\ UNCHANGED rows
             /\ rows[f].state \in {"validated", "replacement_backed_up"}
    <2>1. me'[c].pc = "refresh" /\ me'[c].rows = rows' /\ me'[c].prep = me[c].prep
      BY <1>2, <1>3, <1>7, GoDoes, GoKeeps DEF Moved, Keeps
    <2>2. ActorC(c)'
      BY <1>2, <2>1, AtPublish
    <2>3. FileSays(f)'
      BY <1>2, <1>5, <1>7 DEF FileSays
    <2> QED
      BY <1>2, <1>5, <1>7, <2>2, <2>3, WorkC
  <1>8. CASE GoAt(c, next, then) /\ UNCHANGED <<rows, fs>>
    <2>1. me'[c].pc = next /\ me'[c].rows = rows' /\ me'[c].prep = me[c].prep
      BY <1>2, <1>3, <1>8, GoAtDoes, GoKeeps DEF Moved, Keeps
    <2>2. ActorC(c)'
      BY <1>2, <1>3, <2>1, AtPublish
    <2> QED
      BY <1>2, <1>8, <2>2, IdleC
  <1> QED
    BY <1>4, <1>6, <1>7, <1>8

\* The prepared files are checked once more, inside the locks.
LEMMA RecheckC ==
  ASSUME TypeInv, InvA, InvB, InvC, NEW c \in Callers, Recheck(c)
  PROVE  InvC' /\ Goes
  <1>1. /\ me[c].pc \in InCritical /\ UNCHANGED <<bundle, rows>> /\ TypeInv' /\ Others(c)
    BY RecheckTypes DEF Recheck, InCritical
  <1>2. /\ c \in Actors /\ me[c].pc \in Working /\ me[c].rows = rows /\ MeType /\ FsType
        /\ Files \subseteq me[c].prep /\ "publish" \in PCs /\ 1 \in Files
    BY <1>1, CriticalFacts, AllPCs, Numbers
  <1>3. CASE \A f \in Files : FileOK(c, f)
    <2>1. /\ fs' = [f \in Files |-> IF Mine(c, f) = "published"
                                    THEN [fs[f] EXCEPT !.atemp = FALSE] ELSE fs[f]]
          /\ GoAt(c, "publish", 1)
      BY <1>3 DEF Recheck
    <2>2. ASSUME NEW g \in Files PROVE FileSays(g)'
      <3>1. FileSays(g) /\ fs[g] \in FileState
        BY <1>2 DEF InvC, FsType
      <3>2. /\ fs'[g].dest = fs[g].dest /\ fs'[g].backup = fs[g].backup
            /\ fs'[g].src = fs[g].src /\ fs'[g].aside = fs[g].aside /\ fs'[g].bin = fs[g].bin
            /\ fs'[g].temp = fs[g].temp
            /\ fs'[g].atemp => fs[g].atemp
        BY <2>1, <3>1 DEF FileState
      <3> QED
        BY <1>1, <3>1, <3>2 DEF FileSays, Untouched, Tidied, Published
    <2>3. /\ me'[c].pc = "publish" /\ me'[c].rows = rows' /\ me'[c].prep = me[c].prep
          /\ me'[c].at = 1
      BY <1>1, <1>2, <2>1, GoAtDoes, GoKeeps DEF Moved, Keeps
    <2>4. \A g \in Files : ~(g < 1)
      BY DEF Files
    <2>5. ActorC(c)'
      BY <1>1, <1>2, <2>3, <2>4, AtPublish
    <2>6. RowsSay'
      BY <1>1 DEF InvC, RowsSay
    <2> QED
      BY <1>1, <1>2, <2>2, <2>5, <2>6, WorkFacts, StepC, SameBundle
  <1>4. CASE ~\A f \in Files : FileOK(c, f)
    BY <1>1, <1>4, RefreshC DEF Recheck
  <1> QED
    BY <1>3, <1>4

\* Where the publication goes after a file, and which files are then behind it.
LEMMA AfterFile ==
  ASSUME NEW f \in Files, NEW then, then = IF f = NFiles THEN 1 ELSE f + 1
  PROVE  /\ then \in Files /\ After(f) \in PCs /\ After(f) \in {"publish", "commit"}
         /\ After(f) = "publish" => \A g \in Files : g < then => g < f \/ g = f
         /\ After(f) = "commit" => \A g \in Files : g < f \/ g = f
  <1>1. then \in Files
    BY Numbers
  <1>2. /\ After(f) \in PCs /\ After(f) \in {"publish", "commit"}
        /\ After(f) = "publish" => f # NFiles
        /\ After(f) = "commit" => f = NFiles
    BY AllPCs DEF After
  <1>3. \A g \in Files : g < f + 1 => g < f \/ g = f
    BY DEF Files
  <1>4. \A g \in Files : g < NFiles \/ g = NFiles
    BY ConstantsOK DEF Files
  <1> QED
    BY <1>1, <1>2, <1>3, <1>4

\* A file that an earlier attempt published is passed over.
LEMMA AlreadyPublishedC ==
  ASSUME TypeInv, InvA, InvB, InvC, NEW c \in Callers, AlreadyPublished(c)
  PROVE  InvC' /\ Goes
  <1>0. PICK f \in Files : f = At(c)
    BY CallersAct, Locals DEF TypeInv
  <1> DEFINE then == IF f = NFiles THEN 1 ELSE f + 1
  <1>1. /\ me[c].pc \in InCritical /\ me[c].pc = "publish" /\ TypeInv' /\ Others(c)
        /\ UNCHANGED <<bundle, rows, fs>> /\ GoAt(c, After(f), then) /\ Mine(c, f) = "published"
    BY <1>0, PlainTypes DEF AlreadyPublished, InCritical
  <1>2. /\ c \in Actors /\ me[c].pc \in Working /\ me[c].rows = rows /\ MeType
        /\ Files \subseteq me[c].prep /\ rows[f].state = "published"
        /\ \A g \in Files : g < f => rows[g].state = "published"
    BY <1>0, <1>1, CriticalFacts, WorkFacts DEF Forward
  <1>3. /\ then \in Files /\ After(f) \in PCs /\ After(f) \in {"publish", "commit"}
        /\ After(f) = "publish" => \A g \in Files : g < then => g < f \/ g = f
        /\ After(f) = "commit" => \A g \in Files : g < f \/ g = f
    BY AfterFile
  <1> HIDE DEF then
  <1>4. /\ After(f) = "publish" => \A g \in Files : g < then => rows[g].state = "published"
        /\ After(f) = "commit" => \A g \in Files : rows[g].state = "published"
    BY <1>2, <1>3
  <1>5. /\ me'[c].pc = After(f) /\ me'[c].rows = rows' /\ me'[c].prep = me[c].prep
        /\ me'[c].at = then
    BY <1>1, <1>2, <1>3, GoAtDoes, GoKeeps DEF Moved, Keeps
  <1>6. ActorC(c)'
    BY <1>1, <1>2, <1>3, <1>4, <1>5, AtPublish
  <1> QED
    BY <1>1, <1>2, <1>6, IdleC

\* What is done to the entries of a file that is being published.
LEMMA PublishC ==
  ASSUME TypeInv, InvA, InvB, InvC, NEW c \in Callers,
         BackUp(c) \/ Move(c) \/ PublishArtifacts(c)
  PROVE  InvC' /\ Goes
  <1>0. PICK f \in Files : f = At(c)
    BY CallersAct, Locals DEF TypeInv
  <1>1. /\ me[c].pc \in InCritical /\ me[c].pc \in {"publish", "moved"}
        /\ TypeInv' /\ Others(c) /\ UNCHANGED <<bundle, rows>>
    BY PublishTypes DEF BackUp, Move, PublishArtifacts, InCritical
  <1>2. /\ c \in Actors /\ me[c].pc \in Working /\ me[c].rows = rows /\ MeType /\ RowsType
        /\ FsType /\ Files \subseteq me[c].prep /\ f = me[c].at /\ FileSays(f)
        /\ \A g \in Files : g < f => rows[g].state = "published"
        /\ Mine(c, f) = rows[f].state
        /\ me[c].pc = "moved" => rows[f].state \in {"validated", "replacement_backed_up"}
        /\ {"backedUp", "moved", "placed"} \subseteq PCs
        /\ fs[f] \in FileState
    BY <1>0, <1>1, CriticalFacts, WorkFacts, AllPCs DEF Forward
  <1>3. CASE Go(c, "refresh") /\ UNCHANGED fs
    BY <1>1, <1>3, RefreshC
  <1>4. ASSUME NEW pc \in {"backedUp", "moved", "placed"}, Go(c, pc),
               rows[f].state \in {"validated", "replacement_backed_up"},
               pc = "backedUp" => rows[f].state = "validated",
               \A g \in Files \ {f} : fs'[g] = fs[g],
               FileSays(f)'
        PROVE  InvC' /\ Goes
    <2>1. /\ me'[c].pc = pc /\ me'[c].rows = rows' /\ me'[c].prep = me[c].prep
          /\ me'[c].at = f
      BY <1>1, <1>2, <1>4, GoDoes, GoKeeps DEF Moved, Keeps
    <2>2. ActorC(c)'
      BY <1>1, <1>2, <1>4, <2>1, AtPublish
    <2>3. rows'[f].state \in Undoable \union Withdrawn
      BY <1>1, <1>4 DEF Undoable
    <2> QED
      BY <1>1, <1>2, <1>4, <2>2, <2>3, WorkC
  <1>5. CASE /\ BackUp(c) /\ fs[f].dest # "none"
    <2>1. /\ fs' = [fs EXCEPT ![f].dest = "none", ![f].backup = fs[f].dest]
          /\ Go(c, "backedUp") /\ rows[f].state = "validated" /\ f \in Upgrades
      BY <1>0, <1>2, <1>5 DEF BackUp
    <2>2. /\ \A g \in Files \ {f} : fs'[g] = fs[g]
          /\ fs'[f].dest = "none" /\ fs'[f].aside = fs[f].aside /\ fs'[f].bin = fs[f].bin
      BY <1>2, <2>1 DEF FsType, FileState
    <2>3. FileSays(f)'
      BY <1>1, <1>2, <2>1, <2>2 DEF FileSays
    <2> QED
      BY <1>4, <2>1, <2>2, <2>3
  <1>6. CASE Move(c) /\ fs[f].temp /\ fs[f].dest = "none"
    <2>1. /\ fs' = [fs EXCEPT ![f].temp = FALSE, ![f].dest = "new"] /\ Go(c, "moved")
          /\ rows[f].state \in {"validated", "replacement_backed_up"}
      BY <1>0, <1>2, <1>6 DEF Move
    <2>2. /\ \A g \in Files \ {f} : fs'[g] = fs[g]
          /\ fs'[f].dest = "new" /\ fs'[f].aside = fs[f].aside /\ fs'[f].bin = fs[f].bin
          /\ fs'[f].backup = fs[f].backup /\ fs'[f].temp = FALSE
      BY <1>2, <2>1 DEF FsType, FileState
    <2>3. FileSays(f)'
      BY <1>1, <1>2, <2>1, <2>2 DEF FileSays
    <2> QED
      BY <1>4, <2>1, <2>2, <2>3
  <1>7. CASE PublishArtifacts(c) /\ CoverFits(f)
    <2>1. /\ fs' = CoverPlaced(f) /\ Go(c, "placed")
          /\ rows[f].state \in {"validated", "replacement_backed_up"}
      BY <1>0, <1>2, <1>7 DEF PublishArtifacts
    <2>2. /\ \A g \in Files \ {f} : fs'[g] = fs[g]
          /\ fs'[f].dest = fs[f].dest /\ fs'[f].aside = fs[f].aside /\ fs'[f].bin = fs[f].bin
          /\ fs'[f].backup = fs[f].backup /\ fs'[f].temp = fs[f].temp
      BY <1>2, <2>1, CoverPlacedDoes, CoverPlacedKeepsTemp
    <2>3. FileSays(f)'
      BY <1>1, <1>2, <2>1, <2>2 DEF FileSays
    <2> QED
      BY <1>4, <2>1, <2>2, <2>3
  <1> QED
    BY <1>0, <1>3, <1>5, <1>6, <1>7 DEF BackUp, Move, PublishArtifacts

\* What was done to a file's entries is recorded.
LEMMA JournalC ==
  ASSUME TypeInv, InvA, InvB, InvC, NEW c \in Callers,
         JournalBackUp(c) \/ JournalPublished(c)
  PROVE  InvC' /\ Goes
  <1>0. PICK f \in Files : f = At(c)
    BY CallersAct, Locals DEF TypeInv
  <1> DEFINE then == IF f = NFiles THEN 1 ELSE f + 1
  <1>1. /\ me[c].pc \in InCritical /\ me[c].pc \in {"backedUp", "placed"}
        /\ TypeInv' /\ Others(c) /\ UNCHANGED <<bundle, fs>>
        /\ \/ /\ Transition(c, f, "replacement_backed_up", "publish", f)
              /\ me[c].pc = "backedUp"
           \/ /\ Transition(c, f, "published", After(f), then)
              /\ me[c].pc = "placed"
           \/ Go(c, "refresh") /\ UNCHANGED rows
    BY <1>0, JournalTypes DEF JournalBackUp, JournalPublished, ToRefresh, InCritical
  <1>2. /\ c \in Actors /\ me[c].pc \in Working /\ me[c].rows = rows /\ MeType /\ RowsType
        /\ FsType /\ Files \subseteq me[c].prep /\ f = me[c].at /\ FileSays(f)
        /\ \A g \in Files : g < f => rows[g].state = "published"
        /\ rows[f].state \in {"validated", "replacement_backed_up"}
    BY <1>0, <1>1, CriticalFacts, WorkFacts DEF Forward
  <1>3. /\ then \in Files /\ After(f) \in PCs /\ After(f) \in {"publish", "commit"}
        /\ "publish" \in PCs /\ {"published", "replacement_backed_up"} \subseteq RowStates
        /\ After(f) = "publish" => \A g \in Files : g < then => g < f \/ g = f
        /\ After(f) = "commit" => \A g \in Files : g < f \/ g = f
    BY AfterFile, AllPCs, AllStates
  <1>4. CASE Go(c, "refresh") /\ UNCHANGED rows
    BY <1>1, <1>4, RefreshC
  <1> HIDE DEF then
  <1>5. ASSUME NEW s \in {"replacement_backed_up", "published"},
               NEW pc \in {"publish", "commit"}, NEW at \in Files, Transition(c, f, s, pc, at),
               pc \in PCs,
               pc = "publish" => \A g \in Files : g < at => g < f \/ (g = f /\ s = "published"),
               pc = "commit" => s = "published" /\ \A g \in Files : g < f \/ g = f
        PROVE  InvC' /\ Goes
    <2>1. Writing(c, f, s, pc, at) /\ rows'[f].staged = rows[f].staged /\ Keeps(c)
      BY <1>2, <1>3, <1>5, TransitionWrites
    <2>2. FileSays(f)'
      BY <1>1, <1>2, <2>1 DEF FileSays, Writing
    <2>3. \A g \in Files : g < f => rows'[g].state = "published"
      BY <1>2, <2>1 DEF Writing, Files
    <2>4. ActorC(c)'
      BY <1>1, <1>2, <1>5, <2>1, <2>3, AtPublish DEF Writing, Keeps
    <2>5. s \in Undoable \union Withdrawn
      BY DEF Undoable
    <2> QED
      BY <1>1, <1>2, <2>1, <2>2, <2>4, <2>5, WorkC DEF Writing
  <1>6. CASE Transition(c, f, "replacement_backed_up", "publish", f)
    BY <1>3, <1>5, <1>6
  <1>7. CASE Transition(c, f, "published", After(f), then)
    BY <1>3, <1>5, <1>7
  <1> QED
    BY <1>1, <1>4, <1>6, <1>7

\* The catalog takes the bundle and its rows in one transaction.
LEMMA CommitC ==
  ASSUME TypeInv, InvA, InvB, InvC, NEW c \in Callers, Commit(c)
  PROVE  InvC' /\ Goes
  <1>1. /\ me[c].pc \in InCritical /\ me[c].pc = "commit" /\ TypeInv' /\ Others(c)
        /\ UNCHANGED fs
    BY CommitTypes DEF Commit, InCritical
  <1>2. /\ c \in Actors /\ me[c].pc \in Working /\ MeType /\ RowsType /\ bundle = "publishing"
        /\ \A g \in Files : rows[g].state = "published"
        /\ Busy(c)
    BY <1>1, CriticalFacts, WorkFacts DEF Forward
  <1>3. CASE Go(c, "refresh") /\ UNCHANGED <<bundle, catalog, rows>>
    BY <1>1, <1>3, RefreshC
  <1>4. CASE /\ bundle' = "catalog_committed"
             /\ rows' = [f \in Files |-> [rows[f] EXCEPT !.state = "catalog_committed"]]
             /\ \E pc \in {"reread", "refresh"} :
                  me' = [a \in Actors |-> [me[a] EXCEPT !.fresh = {},
                                             !.pc = IF a = c THEN pc ELSE @]]
    <2>1. me'[c].pc \in {"reread", "refresh"}
      BY <1>2, <1>4 DEF MeType, Local
    <2>2. ActorC(c)'
      BY <1>2, <1>4, <2>1, LooseC DEF Loose
    <2>3. \A g \in Files : rows'[g].state = "catalog_committed" /\ rows'[g].staged = rows[g].staged
      <3> SUFFICES ASSUME NEW g \in Files
                   PROVE  /\ rows'[g].state = "catalog_committed"
                          /\ rows'[g].staged = rows[g].staged
        OBVIOUS
      <3>1. rows'[g] = [rows[g] EXCEPT !.state = "catalog_committed"]
        BY <1>2, <1>4
      <3>2. rows[g] \in JournalRow
        BY <1>2 DEF RowsType
      <3> QED
        BY <3>1, <3>2 DEF JournalRow
    <2>4. RowsSay'
      BY <1>4, <2>3 DEF RowsSay, Committed, InCleaning
    <2>5. \A g \in Files : FileSays(g)'
      BY <1>1, <1>2, <2>3 DEF InvC, FileSays
    <2>6. Goes
      BY <1>2, <1>4, <2>3 DEF Goes, BundleMoves, RowMoves
    <2> QED
      BY <1>1, <1>2, <2>2, <2>4, <2>5, <2>6, StepC
  <1> QED
    BY <1>2, <1>3, <1>4 DEF Commit

--------------------------------------------------------------------------------
(* Into the bundle and out of it.                                           *)

\* A step of one actor that leaves rows and files alone.
LEMMA QuietC ==
  ASSUME TypeInv, InvB, InvC, NEW a \in Actors, Busy(a), Others(a), UNCHANGED <<rows, fs>>,
         RowsSay', ActorC(a)'
  PROVE  InvC'
  BY FilesStay, StepC

\* The two kinds of rows agree while neither changes.
LEMMA RowsStay ==
  ASSUME InvC, UNCHANGED <<bundle, rows>>
  PROVE  RowsSay'
  BY DEF InvC, RowsSay

\* An actor that does not move loses nothing while rows and files stay.
LEMMA ActorStays ==
  ASSUME NEW b \in Actors, me'[b] = me[b], UNCHANGED <<bundle, rows, fs>>, ActorC(b)
  PROVE  ActorC(b)'
  <1>1. Holds(b)'
    BY DEF ActorC, Holds
  <1>2. Forward(b)'
    BY DEF ActorC, Forward, Mine, At
  <1>3. Backward(b)'
    BY DEF ActorC, Backward, Mine, At, Before
  <1>4. Cleaned(b)'
    BY DEF ActorC, Cleaned, At, Tidied, Published
  <1> QED
    BY <1>1, <1>2, <1>3, <1>4 DEF ActorC

\* A caller asks for the import, and is let in.
LEMMA CallC ==
  ASSUME TypeInv, InvA, InvB, InvC, NEW c \in Callers, Call(c) \/ Admit(c)
  PROVE  InvC' /\ Goes
  <1>1. /\ c \in Actors /\ MeType /\ {"waiting", "ensure"} \subseteq PCs
        /\ UNCHANGED <<bundle, rows, fs>>
    BY CallersAct, AllPCs DEF TypeInv, Call, Admit
  <1>2. PICK pc \in {"waiting", "ensure"} : Go(c, pc)
    BY DEF Call, Admit
  <1>3. me'[c].pc = pc
    BY <1>1, <1>2, GoDoes DEF Moved
  <1>4. ActorC(c)'
    BY <1>1, <1>3, LooseC DEF Loose, Free
  <1>5. ASSUME NEW b \in Actors \ {c} PROVE ActorC(b)'
    <2>1. me'[b] = me[b] /\ ActorC(b)
      BY <1>1, <1>2 DEF Go, MeType, InvC
    <2> QED
      BY <1>1, <2>1, ActorStays
  <1> QED
    BY <1>1, <1>4, <1>5, FilesStay, RowsStay, SameBundle DEF InvC

\* The bundle's row is made sure of.
LEMMA EnsureC ==
  ASSUME TypeInv, InvA, InvB, InvC, NEW c \in Callers, EnsureBundle(c)
  PROVE  InvC' /\ Goes
  <1>1. /\ c \in Actors /\ MeType /\ {"lockCleanup", "list"} \subseteq PCs
        /\ {"ok", "refused"} \subseteq Answers
        /\ UNCHANGED <<rows, fs>> /\ Others(c)
        /\ bundle' = IF bundle = "none" THEN "preparing" ELSE bundle
    BY CallersAct, AllPCs, EntryTypes DEF TypeInv, EnsureBundle, Answers
  <1>2. Busy(c)
    BY RecovererActs DEF EnsureBundle, Busy, Inside, Entered
  <1>3. me'[c].pc \in Loose
    <2>1. \/ \E how \in {"ok", "refused"} : Leave(c, how)
          \/ \E pc \in {"lockCleanup", "list"} : Go(c, pc)
          \/ me' = [me EXCEPT ![c].pc = "mark", ![c].seen = bundle']
      BY DEF EnsureBundle
    <2>2. me'[c].pc \in {"idle", "lockCleanup", "list", "mark"}
      <3>1. CASE \E how \in {"ok", "refused"} : Leave(c, how)
        BY <1>1, <3>1, LeaveDoes
      <3>2. CASE \E pc \in {"lockCleanup", "list"} : Go(c, pc)
        BY <1>1, <3>2, GoDoes DEF Moved
      <3>3. CASE me' = [me EXCEPT ![c].pc = "mark", ![c].seen = bundle']
        BY <1>1, <3>3 DEF MeType, Local
      <3> QED
        BY <2>1, <3>1, <3>2, <3>3
    <2> QED
      BY <2>2 DEF Loose, Free
  <1>4. RowsSay'
    BY <1>1 DEF InvC, RowsSay, InCleaning
  <1> QED
    BY <1>1, <1>2, <1>3, <1>4, LooseC, QuietC, SameRows DEF BundleMoves

\* The bundle is marked as being published.
LEMMA MarkC ==
  ASSUME TypeInv, InvA, InvB, InvC, NEW c \in Callers, MarkPublishing(c)
  PROVE  InvC' /\ Goes
  <1>1. /\ c \in Actors /\ MeType /\ "list" \in PCs /\ "error" \in Answers
        /\ UNCHANGED <<rows, fs>> /\ Others(c) /\ me[c].pc = "mark" /\ Busy(c)
        /\ me[c].seen \in {"preparing", "rolled_back"}
    BY CallersAct, AllPCs, EntryTypes, FreePlaces
       DEF TypeInv, MarkPublishing, Answers, InvA, KnowsCommit
  <1>2. \/ bundle = me[c].seen /\ bundle' = "publishing" /\ Go(c, "list")
        \/ Leave(c, "error") /\ UNCHANGED bundle
    BY DEF MarkPublishing
  <1>3. me'[c].pc \in Loose
    BY <1>1, <1>2, GoDoes, LeaveDoes DEF Moved, Loose, Free
  <1>4. RowsSay' /\ BundleMoves
    BY <1>1, <1>2 DEF InvC, RowsSay, InCleaning, BundleMoves, Withdrawn
  <1> QED
    BY <1>1, <1>3, <1>4, LooseC, QuietC, SameRows

\* The caller looks at the bundle again after its work.
LEMMA LookC ==
  ASSUME TypeInv, InvA, InvB, InvC, NEW c \in Callers, Refresh(c) \/ RereadBundle(c)
  PROVE  InvC' /\ Goes
  <1>1. /\ c \in Actors /\ MeType /\ {"lockCleanup", "rollStart"} \subseteq PCs
        /\ "ok" \in Answers /\ UNCHANGED <<bundle, rows, fs>> /\ Others(c) /\ Busy(c)
        /\ BundleAt(c) /\ ActorC(c) /\ At(c) \in Files
    BY CallersAct, AllPCs, EntryTypes, PlainTypes, FreePlaces, Locals
       DEF TypeInv, Refresh, RereadBundle, Answers, InvB, InvC
  <1>2. ActorC(c)'
    <2>1. CASE Refresh(c) /\ bundle = "publishing"
      <3>1. Go(c, "rollStart") /\ me[c].rows = rows /\ Files \subseteq me[c].prep
        BY <1>1, <2>1 DEF Refresh, Committed, ActorC, Holds, Forward
      <3>2. me'[c].pc = "rollStart" /\ me'[c].rows = rows' /\ me'[c].prep = me[c].prep
        BY <1>1, <3>1, GoDoes, GoKeeps DEF Moved, Keeps
      <3> QED
        BY <1>1, <3>1, <3>2, AtRollStart
    <2>2. CASE RereadBundle(c) \/ bundle # "publishing"
      <3>1. Go(c, "lockCleanup") \/ Leave(c, "ok")
        BY <1>1, <2>2 DEF Refresh, RereadBundle, BundleAt, Committed
      <3>2. me'[c].pc \in Loose
        BY <1>1, <3>1, GoDoes, LeaveDoes DEF Moved, Loose, Free
      <3> QED
        BY <1>1, <3>2, LooseC
    <2> QED
      BY <2>1, <2>2
  <1> QED
    BY <1>1, <1>2, QuietC, RowsStay, SameBundle

--------------------------------------------------------------------------------
(* The rollback.                                                            *)

\* The files of Backward that nothing has to be undone for.
LEMMA AtLower ==
  ASSUME NEW a \in Actors, NEW f \in Files, me'[a].rows = rows',
         me'[a].pc = Lower(f), me'[a].at = LowerAt(f),
         \A g \in Files : g \notin me'[a].prep => rows'[g].state = "none",
         me'[a].bad \/ \A g \in Files : g > f \/ g = f => rows'[g].state \in Withdrawn
  PROVE  ActorC(a)'
  <1>1. CASE f = 1
    <2>1. \A g \in Files : g > f \/ g = f
      BY <1>1 DEF Files
    <2> QED
      BY <1>1, <2>1 DEF Lower, ActorC, Holds, Forward, Backward, Cleaned, Working, PreparePCs,
         InCritical, InRollback, InCleanup, Mine, At
  <1>2. CASE f # 1
    <2>1. \A g \in Files : g > f - 1 => g > f \/ g = f
      BY DEF Files
    <2>2. me'[a].pc = "roll" /\ me'[a].at = f - 1
      BY <1>2 DEF Lower, LowerAt
    <2> QED
      BY <2>1, <2>2 DEF ActorC, Holds, Forward, Backward, Cleaned, Working, PreparePCs,
         InCritical, InRollback, InCleanup, Mine, At
  <1> QED
    BY <1>1, <1>2

\* What the rollback of one file has to show at each of its steps.
LEMMA AtRollFile ==
  ASSUME NEW a \in Actors, NEW f \in Files, me'[a].rows = rows', me'[a].at = f,
         me'[a].pc \in {"rollDest", "rollArt", "rollRest", "rollTemp", "rollDone"},
         \A g \in Files : g \notin me'[a].prep => rows'[g].state = "none",
         me'[a].bad \/ \A g \in Files : g > f => rows'[g].state \in Withdrawn,
         rows'[f].state = "rollback_pending",
         me'[a].pc = "rollDest" /\ fs'[f].dest = "new" => me'[a].was,
         me'[a].pc # "rollDest" => fs'[f].dest # "new",
         me'[a].pc \in {"rollTemp", "rollDone"} =>
           /\ fs'[f].dest \in {Before(f), "foreign"} /\ fs'[f].backup = "none"
           /\ ~fs'[f].atemp,
         me'[a].pc = "rollDone" => ~fs'[f].temp
  PROVE  ActorC(a)'
  <1>1. Holds(a)' /\ Forward(a)' /\ Cleaned(a)'
    BY DEF Holds, Forward, Cleaned, Working, PreparePCs, InCritical, InRollback, InCleanup
  <1>2. Backward(a)'
    BY DEF Backward, InRollback, Mine, At, Before
  <1> QED
    BY <1>1, <1>2 DEF ActorC

\* What a rollback that works on a file has found.
LEMMA RollFacts ==
  ASSUME TypeInv, InvA, InvB, InvC, NEW a \in Actors, me[a].pc \in InRollback
  PROVE  /\ me[a].pc \in Working /\ me[a].rows = rows /\ MeType /\ RowsType /\ FsType
         /\ bundle = "publishing"
         /\ \A g \in Files : /\ g \notin me[a].prep => rows[g].state = "none"
                             /\ Mine(a, g) = rows[g].state
                             /\ rows[g].state \in Undoable \union Withdrawn
         /\ me[a].pc # "rollFinish" =>
              me[a].bad \/ \A g \in Files : g > At(a) => rows[g].state \in Withdrawn
  BY WorkFacts DEF InRollback, Working, Backward, Mine

\* The rollback begins and gets the locks, or fails to.
LEMMA RollStartC ==
  ASSUME TypeInv, InvA, InvB, InvC, NEW a \in Actors,
         RollbackStart(a) \/ LockRollback(a) \/ RollAborts(a)
  PROVE  InvC' /\ Goes
  <1>1. /\ me[a].pc \in Working /\ me[a].pc # "list" /\ TypeInv' /\ Others(a)
        /\ UNCHANGED <<rows, fs>>
        /\ {"lockRollback", "verdict", "roll"} \subseteq PCs /\ NFiles \in Files
        /\ "error" \in Answers
    BY RollbackTypes, AllPCs, Numbers
       DEF RollbackStart, LockRollback, RollAborts, Working, InRollback, Answers
  <1>2. /\ me[a].rows = rows /\ MeType /\ RowsType /\ bundle = "publishing" /\ Busy(a)
        /\ me[a].pc \in {"rollStart", "lockRollback"}
             => \A g \in Files : g \notin me[a].prep => rows[g].state = "none"
    BY <1>1, WorkFacts DEF Backward, Mine
  <1>3. CASE RollbackStart(a) /\ me[a].prep # {}
    <2>1. Go(a, "lockRollback") /\ UNCHANGED bundle /\ me[a].pc = "rollStart"
      BY <1>3 DEF RollbackStart
    <2>2. me'[a].pc = "lockRollback" /\ me'[a].rows = rows' /\ me'[a].prep = me[a].prep
      BY <1>1, <1>2, <2>1, GoDoes, GoKeeps DEF Moved, Keeps
    <2>3. ActorC(a)'
      BY <1>1, <1>2, <2>1, <2>2, AtRollStart
    <2> QED
      BY <1>1, <2>1, <2>3, IdleC
  <1>4. CASE RollbackStart(a) /\ me[a].prep = {}
    <2>1. /\ bundle' = "rolled_back" /\ me[a].pc = "rollStart"
          /\ Go(a, "verdict") \/ Leave(a, "error")
      BY <1>2, <1>4 DEF RollbackStart
    <2>2. me'[a].pc \in Loose
      BY <1>1, <1>2, <2>1, GoDoes, LeaveDoes DEF Moved, Loose, Free
    <2>3. RowsSay' /\ BundleMoves
      BY <1>1, <1>2, <1>4, <2>1 DEF RowsSay, Withdrawn, InCleaning, BundleMoves
    <2> QED
      BY <1>1, <1>2, <2>2, <2>3, LooseC, QuietC, SameRows
  <1>5. CASE LockRollback(a)
    <2>1. /\ GoAt(a, "roll", NFiles) /\ UNCHANGED bundle /\ me[a].pc = "lockRollback"
      BY <1>5 DEF LockRollback
    <2>2. /\ me'[a].pc = "roll" /\ me'[a].rows = rows' /\ me'[a].prep = me[a].prep
          /\ me'[a].at = NFiles
      BY <1>1, <1>2, <2>1, GoAtDoes, GoKeeps DEF Moved, Keeps
    <2>3. \A g \in Files : ~(g > NFiles)
      BY ConstantsOK DEF Files
    <2>4. ActorC(a)'
      BY <1>1, <1>2, <2>1, <2>2, <2>3 DEF ActorC, Holds, Forward, Backward, Cleaned, Working,
         PreparePCs, InCritical, InRollback, InCleanup, Mine, At
    <2> QED
      BY <1>1, <2>1, <2>4, IdleC
  <1>6. CASE RollAborts(a)
    <2>1. UNCHANGED bundle /\ me'[a].pc \in {"attention", "idle"}
      BY <1>2, <1>6, RaiseDoes DEF RollAborts
    <2>2. ActorC(a)'
      BY <2>1, LooseC DEF Loose, Free
    <2> QED
      BY <1>1, <2>1, <2>2, IdleC
  <1> QED
    BY <1>3, <1>4, <1>5, <1>6

\* The rollback passes a file over, or ends.
LEMMA RollSkipC ==
  ASSUME TypeInv, InvA, InvB, InvC, NEW a \in Actors, RollSkip(a) \/ RollFinish(a)
  PROVE  InvC' /\ Goes
  <1>0. PICK f \in Files : f = At(a)
    BY Locals DEF TypeInv
  <1>1. /\ me[a].pc \in InRollback /\ TypeInv' /\ Others(a) /\ UNCHANGED <<rows, fs>>
        /\ Lower(f) \in PCs /\ LowerAt(f) \in Files /\ "verdict" \in PCs /\ "error" \in Answers
    BY RollTypes, LowerTypes, AllPCs
       DEF RollSkip, RollFinish, RollbackImportBundle, InRollback, Answers
  <1>2. CASE RollSkip(a)
    <2>1. /\ GoAt(a, Lower(f), LowerAt(f)) /\ UNCHANGED bundle /\ me[a].pc = "roll"
          /\ f \notin me[a].prep \/ Mine(a, f) \notin Undoable
      BY <1>0, <1>2 DEF RollSkip
    <2>2. /\ me'[a].pc = Lower(f) /\ me'[a].at = LowerAt(f) /\ me'[a].rows = rows'
          /\ me'[a].prep = me[a].prep /\ me'[a].bad = me[a].bad
      BY <1>1, <2>1, RollFacts, GoAtDoes, GoKeeps DEF Moved, Keeps
    <2>3. rows[f].state \in Withdrawn
      BY <1>1, <2>1, RollFacts DEF Withdrawn
    <2>4. ActorC(a)'
      BY <1>0, <1>1, <2>1, <2>2, <2>3, RollFacts, AtLower
    <2> QED
      BY <1>1, <2>1, <2>4, RollFacts, IdleC
  <1>3. CASE RollFinish(a)
    <2>1. /\ bundle' = IF me[a].bad THEN "needs_attention" ELSE "rolled_back"
          /\ me[a].pc = "rollFinish" /\ (Go(a, "verdict") \/ Leave(a, "error"))
      BY <1>1, <1>3, RollFacts DEF RollFinish
    <2>2. me'[a].pc \in Loose
      BY <1>1, <2>1, RollFacts, GoDoes, LeaveDoes DEF Moved, Loose, Free
    <2>3. ~me[a].bad => \A g \in Files : rows[g].state \in Withdrawn
      BY <1>1, <2>1, RollFacts, WorkFacts DEF Backward
    <2>4. RowsSay' /\ BundleMoves
      BY <1>1, <2>1, <2>3, RollFacts DEF RowsSay, InCleaning, BundleMoves, Recoverable
    <2> QED
      BY <1>1, <2>2, <2>4, RollFacts, WorkFacts, LooseC, QuietC, SameRows
  <1> QED
    BY <1>2, <1>3

\* The rollback of a file is marked, or its row is given up.
LEMMA RollMarkC ==
  ASSUME TypeInv, InvA, InvB, InvC, NEW a \in Actors, RollMark(a)
  PROVE  InvC' /\ Goes
  <1>0. PICK f \in Files : f = At(a)
    BY Locals DEF TypeInv
  <1> DEFINE was == WasPublished(a, f)
  <1>1. /\ me[a].pc \in InRollback /\ me[a].pc = "roll" /\ TypeInv' /\ Others(a)
        /\ UNCHANGED <<bundle, fs>> /\ f \in me[a].prep /\ Mine(a, f) \in Undoable
        /\ Lower(f) \in PCs /\ LowerAt(f) \in Files
    BY <1>0, RollMarkDoes, LowerTypes DEF RollMark, InRollback
  <1>2. /\ me[a].pc \in Working /\ me[a].rows = rows /\ MeType /\ RowsType /\ me[a] \in Local
        /\ \A g \in Files : g \notin me[a].prep => rows[g].state = "none"
        /\ rows[f].state \in Undoable /\ FileSays(f) /\ rows[f] \in JournalRow
        /\ me[a].bad \/ \A g \in Files : g > f => rows[g].state \in Withdrawn
        /\ me[a].at = f
    BY <1>0, <1>1, RollFacts, WorkFacts, Locals DEF TypeInv
  <1>3. fs[f].dest = "new" => was
    BY <1>2 DEF WasPublished, Exact, FileSays
  <1> HIDE DEF was
  <1>4. CASE me' = [me EXCEPT ![a].was = was, ![a].pc = "rollDest"] /\ UNCHANGED rows
             /\ Mine(a, f) = "rollback_pending"
    <2>1. /\ me'[a].rows = rows' /\ me'[a].pc = "rollDest" /\ me'[a].was = was
          /\ me'[a].prep = me[a].prep /\ me'[a].bad = me[a].bad /\ me'[a].at = f
      BY <1>2, <1>4 DEF MeType, Local
    <2>2. ActorC(a)'
      BY <1>1, <1>2, <1>3, <1>4, <2>1, AtRollFile DEF Mine
    <2> QED
      BY <1>1, <1>2, <1>4, <2>2, IdleC
  <1>5. CASE /\ rows' = [rows EXCEPT ![f].state = "rollback_pending"]
             /\ me' = [b \in Actors |->
                         IF b = a THEN [me[a] EXCEPT !.rows[f].state = "rollback_pending",
                                                     !.was = was, !.pc = "rollDest"]
                         ELSE [me[b] EXCEPT !.fresh = @ \ {f}]]
    <2>1. /\ me'[a].rows = rows' /\ me'[a].pc = "rollDest" /\ me'[a].was = was
          /\ me'[a].prep = me[a].prep /\ me'[a].bad = me[a].bad /\ me'[a].at = f
      BY <1>2, <1>5 DEF Local
    <2>2. /\ rows'[f].state = "rollback_pending" /\ rows'[f].staged = rows[f].staged
          /\ \A g \in Files \ {f} : rows'[g] = rows[g]
      BY <1>2, <1>5 DEF RowsType, JournalRow
    <2>3. \A g \in Files : g > f => g # f
      BY DEF Files
    <2>4. ActorC(a)'
      BY <1>1, <1>2, <1>3, <2>1, <2>2, <2>3, AtRollFile
    <2>5. FileSays(f)' /\ rows[f].state # "needs_attention"
          /\ rows'[f].state \in Undoable \union Withdrawn
      BY <1>1, <1>2, <2>2 DEF FileSays, Undoable
    <2> QED
      BY <1>1, <1>2, <2>2, <2>4, <2>5, WorkC
  <1>6. CASE /\ me' = [me EXCEPT ![a].bad = TRUE, ![a].pc = Lower(f), ![a].at = LowerAt(f)]
             /\ UNCHANGED rows
    <2>1. /\ me'[a].rows = rows' /\ me'[a].pc = Lower(f) /\ me'[a].at = LowerAt(f)
          /\ me'[a].prep = me[a].prep /\ me'[a].bad
      BY <1>2, <1>6 DEF MeType, Local
    <2>2. ActorC(a)'
      BY <1>1, <1>2, <1>6, <2>1, AtLower
    <2> QED
      BY <1>1, <1>2, <1>6, <2>2, IdleC
  <1> QED
    BY <1>0, <1>4, <1>5, <1>6 DEF RollMark, was

InRollFile == {"rollDest", "rollArt", "rollRest", "rollTemp", "rollDone"}

\* What is known of the file that the rollback works on.
LEMMA RollFileFacts ==
  ASSUME TypeInv, InvA, InvB, InvC, NEW a \in Actors, NEW f \in Files, f = At(a),
         me[a].pc \in InRollFile
  PROVE  /\ me[a].pc \in InRollback /\ me[a].pc \in Working /\ me[a].rows = rows
         /\ me[a].at = f /\ me[a] \in Local
         /\ MeType /\ RowsType /\ FsType /\ fs[f] \in FileState /\ rows[f] \in JournalRow
         /\ \A g \in Files : g \notin me[a].prep => rows[g].state = "none"
         /\ me[a].bad \/ \A g \in Files : g > f => rows[g].state \in Withdrawn
         /\ rows[f].state = "rollback_pending" /\ FileSays(f)
         /\ me[a].pc = "rollDest" /\ fs[f].dest = "new" => me[a].was
         /\ me[a].pc # "rollDest" => fs[f].dest # "new"
         /\ me[a].pc \in {"rollTemp", "rollDone"} =>
              /\ fs[f].dest \in {Before(f), "foreign"} /\ fs[f].backup = "none" /\ ~fs[f].atemp
         /\ me[a].pc = "rollDone" => ~fs[f].temp
  <1>1. me[a].pc \in InRollback /\ me[a].pc \in Working /\ me[a].pc \notin {"roll", "rollFinish"}
    BY DEF InRollFile, InRollback, Working
  <1>2. Backward(a) /\ FileSays(f) /\ rows[f] \in JournalRow /\ fs[f] \in FileState
    BY <1>1, WorkFacts
  <1>3. rows[f].state = "rollback_pending"
    BY <1>1, <1>2, RollFacts DEF Backward
  <1>4. /\ me[a].pc = "rollDest" /\ fs[f].dest = "new" => me[a].was
        /\ me[a].pc # "rollDest" => fs[f].dest # "new"
        /\ me[a].pc \in {"rollTemp", "rollDone"} =>
             /\ fs[f].dest \in {Before(f), "foreign"} /\ fs[f].backup = "none" /\ ~fs[f].atemp
        /\ me[a].pc = "rollDone" => ~fs[f].temp
    BY <1>2 DEF Backward, InRollFile
  <1>5. me[a].at = f /\ me[a] \in Local
    BY RollFacts, Locals DEF TypeInv
  <1> QED
    BY <1>1, <1>2, <1>3, <1>4, <1>5, RollFacts

\* The file is given up: the covers beside it may have gone.
LEMMA GivesUpC ==
  ASSUME TypeInv, InvA, InvB, InvC, NEW a \in Actors, NEW f \in Files, f = At(a),
         me[a].pc \in InRollFile, RollGivesUp(a), TypeInv', Others(a),
         \A g \in Files \ {f} : fs'[g] = fs[g],
         fs'[f].dest = fs[f].dest, fs'[f].backup = fs[f].backup, fs'[f].aside = fs[f].aside,
         fs'[f].bin = fs[f].bin, fs'[f].temp = fs[f].temp
  PROVE  InvC' /\ Goes
  <1>1. /\ me[a].pc \in Working /\ me[a].rows = rows /\ me[a] \in Local /\ MeType /\ RowsType
        /\ \A g \in Files : g \notin me[a].prep => rows[g].state = "none"
        /\ rows[f].state = "rollback_pending" /\ FileSays(f) /\ rows[f] \in JournalRow
        /\ Lower(f) \in PCs /\ LowerAt(f) \in Files /\ bundle' = bundle
    BY RollFileFacts, LowerTypes DEF RollGivesUp
  <1>2. CASE /\ rows' = [rows EXCEPT ![f].state = "needs_attention"]
             /\ me' = [b \in Actors |->
                         IF b = a THEN [me[a] EXCEPT !.rows[f].state = "needs_attention",
                                          !.bad = TRUE, !.pc = Lower(f), !.at = LowerAt(f)]
                         ELSE [me[b] EXCEPT !.fresh = @ \ {f}]]
    <2>1. /\ me'[a].rows = rows' /\ me'[a].pc = Lower(f) /\ me'[a].at = LowerAt(f)
          /\ me'[a].prep = me[a].prep /\ me'[a].bad
      BY <1>1, <1>2 DEF Local
    <2>2. /\ rows'[f].state = "needs_attention" /\ rows'[f].staged = rows[f].staged
          /\ \A g \in Files \ {f} : rows'[g] = rows[g]
      BY <1>1, <1>2 DEF RowsType, JournalRow
    <2>3. f \in me[a].prep
      BY <1>1
    <2>4. ActorC(a)'
      BY <1>1, <2>1, <2>2, <2>3, AtLower
    <2>5. FileSays(f)' /\ rows'[f].state \in Undoable \union Withdrawn
      BY <1>1, <2>2 DEF FileSays, Withdrawn
    <2> QED
      BY <1>1, <2>2, <2>4, <2>5, WorkC
  <1>3. CASE /\ me' = [me EXCEPT ![a].bad = TRUE, ![a].pc = Lower(f), ![a].at = LowerAt(f)]
             /\ UNCHANGED rows
    <2>1. /\ me'[a].rows = rows' /\ me'[a].pc = Lower(f) /\ me'[a].at = LowerAt(f)
          /\ me'[a].prep = me[a].prep /\ me'[a].bad
      BY <1>1, <1>3 DEF MeType, Local
    <2>2. ActorC(a)'
      BY <1>1, <1>3, <2>1, AtLower
    <2>3. FileSays(f)' /\ rows'[f].state \in Undoable \union Withdrawn
      BY <1>1, <1>3 DEF FileSays, Undoable
    <2> QED
      BY <1>1, <1>3, <2>2, <2>3, WorkC
  <1> QED
    BY <1>2, <1>3 DEF RollGivesUp

\* Undoing a file fails: its row needs attention and the rollback goes on.
LEMMA RollFailsC ==
  ASSUME TypeInv, InvA, InvB, InvC, NEW a \in Actors, RollFails(a)
  PROVE  InvC' /\ Goes
  <1>0. PICK f \in Files : f = At(a)
    BY Locals DEF TypeInv
  <1>1. me[a].pc \in InRollFile /\ RollGivesUp(a) /\ UNCHANGED fs /\ TypeInv' /\ Others(a)
    BY RollTypes DEF RollFails, InRollFile
  <1> QED
    BY <1>0, <1>1, GivesUpC

\* A directory operation of the rollback goes well.
LEMMA RollOnC ==
  ASSUME TypeInv, InvA, InvB, InvC, NEW a \in Actors, NEW f \in Files, f = At(a),
         me[a].pc \in InRollFile, TypeInv', Others(a),
         NEW pc \in {"rollArt", "rollRest", "rollTemp", "rollDone"}, Go(a, pc),
         UNCHANGED <<bundle, rows>>,
         \A g \in Files \ {f} : fs'[g] = fs[g],
         fs'[f].aside = fs[f].aside, fs'[f].bin = fs[f].bin,
         fs'[f].dest # "new",
         f \notin Upgrades => fs'[f].backup = "none" /\ fs'[f].dest # "old",
         pc \in {"rollTemp", "rollDone"} =>
           /\ fs'[f].dest \in {Before(f), "foreign"} /\ fs'[f].backup = "none"
           /\ ~fs'[f].atemp,
         pc = "rollDone" => ~fs'[f].temp
  PROVE  InvC' /\ Goes
  <1>1. /\ me[a].pc \in Working /\ me[a].rows = rows /\ MeType /\ me[a].at = f
        /\ \A g \in Files : g \notin me[a].prep => rows[g].state = "none"
        /\ me[a].bad \/ \A g \in Files : g > f => rows[g].state \in Withdrawn
        /\ rows[f].state = "rollback_pending" /\ FileSays(f) /\ pc \in PCs
    BY RollFileFacts, AllPCs
  <1>2. /\ me'[a].rows = rows' /\ me'[a].pc = pc /\ me'[a].at = f /\ me'[a].prep = me[a].prep
        /\ me'[a].bad = me[a].bad
    BY <1>1, GoDoes, GoKeeps DEF Moved, Keeps
  <1>3. ActorC(a)'
    BY <1>1, <1>2, AtRollFile
  <1>4. FileSays(f)' /\ rows'[f].state \in Undoable \union Withdrawn
    BY <1>1 DEF FileSays, Undoable
  <1> QED
    BY <1>1, <1>3, <1>4, WorkC

\* What the rollback does to a file's entries.
LEMMA RollFsC ==
  ASSUME TypeInv, InvA, InvB, InvC, NEW a \in Actors,
         RollDest(a) \/ RollArt(a) \/ RollRest(a) \/ RollTemp(a)
  PROVE  InvC' /\ Goes
  <1>0. PICK f \in Files : f = At(a)
    BY Locals DEF TypeInv
  <1>1. me[a].pc \in InRollFile /\ TypeInv' /\ Others(a)
    BY RollTypes DEF RollDest, RollArt, RollRest, RollTemp, RollbackImportBundle, InRollFile
  <1>2. /\ me[a].pc \in Working /\ me[a].rows = rows /\ fs[f] \in FileState /\ FileSays(f)
        /\ me[a].pc = "rollDest" /\ fs[f].dest = "new" => me[a].was
        /\ me[a].pc # "rollDest" => fs[f].dest # "new"
        /\ me[a].pc \in {"rollTemp", "rollDone"} =>
             /\ fs[f].dest \in {Before(f), "foreign"} /\ fs[f].backup = "none" /\ ~fs[f].atemp
        /\ fs \in [Files -> FileState]
    BY <1>0, <1>1, RollFileFacts DEF FsType
  <1>3. f \in Upgrades => fs[f].dest = "old" \/ fs[f].backup = "old"
    BY <1>2, WorkFacts
  <1>4. CASE RollDest(a)
    <2> DEFINE present == me[a].was /\ fs[f].dest # "none" /\ me[a].rows[f].staged
    <2>1. CASE present /\ fs[f].dest # "new"
      <3>1. RollGivesUp(a) /\ UNCHANGED fs
        BY <1>0, <1>4, <2>1 DEF RollDest
      <3> QED
        BY <1>0, <1>1, <3>1, GivesUpC
    <2>2. CASE ~(present /\ fs[f].dest # "new")
      <3>1. /\ fs' = IF present THEN [fs EXCEPT ![f].dest = "none"] ELSE fs
            /\ Go(a, "rollArt") /\ UNCHANGED <<bundle, rows>> /\ me[a].pc = "rollDest"
        BY <1>0, <1>4, <2>2 DEF RollDest
      <3>2. fs[f].dest = "new" => present
        BY <1>2, <3>1 DEF FileSays
      <3> HIDE DEF present
      <3>3. /\ \A g \in Files \ {f} : fs'[g] = fs[g]
            /\ fs'[f].aside = fs[f].aside /\ fs'[f].bin = fs[f].bin
            /\ fs'[f].backup = fs[f].backup
            /\ fs'[f].dest = IF present THEN "none" ELSE fs[f].dest
        BY <1>2, <3>1 DEF FileState
      <3>4. /\ fs'[f].dest # "new"
            /\ f \notin Upgrades => fs'[f].backup = "none" /\ fs'[f].dest # "old"
        BY <1>2, <3>2, <3>3 DEF FileSays
      <3> QED
        BY <1>0, <1>1, <3>1, <3>3, <3>4, RollOnC
    <2> QED
      BY <2>1, <2>2
  <1>5. CASE RollArt(a)
    <2> DEFINE present == me[a].was /\ f \in Artworks /\ fs[f].adest # "none"
    <2>1. CASE present /\ fs[f].adest # "mine"
      <3>1. RollGivesUp(a) /\ UNCHANGED fs
        BY <1>0, <1>5, <2>1 DEF RollArt
      <3> QED
        BY <1>0, <1>1, <3>1, GivesUpC
    <2>2. CASE ~(present /\ fs[f].adest # "mine")
      <3>1. /\ fs' = IF present THEN [fs EXCEPT ![f].adest = "none"] ELSE fs
            /\ Go(a, "rollRest") /\ UNCHANGED <<bundle, rows>> /\ me[a].pc = "rollArt"
        BY <1>0, <1>5, <2>2 DEF RollArt
      <3> HIDE DEF present
      <3>2. /\ \A g \in Files \ {f} : fs'[g] = fs[g]
            /\ fs'[f].aside = fs[f].aside /\ fs'[f].bin = fs[f].bin
            /\ fs'[f].backup = fs[f].backup /\ fs'[f].dest = fs[f].dest
        BY <1>2, <3>1 DEF FileState
      <3>3. /\ fs'[f].dest # "new"
            /\ f \notin Upgrades => fs'[f].backup = "none" /\ fs'[f].dest # "old"
        BY <1>2, <3>1, <3>2 DEF FileSays
      <3> QED
        BY <1>0, <1>1, <3>1, <3>2, <3>3, RollOnC
    <2> QED
      BY <2>1, <2>2
  <1>6. CASE RollRest(a)
    <2>1. CASE fs[f].backup \notin {"none", "old"}
      <3>1. RollGivesUp(a) /\ fs' = [fs EXCEPT ![f].atemp = FALSE]
        BY <1>0, <1>6, <2>1 DEF RollRest
      <3>2. /\ \A g \in Files \ {f} : fs'[g] = fs[g]
            /\ fs'[f].aside = fs[f].aside /\ fs'[f].bin = fs[f].bin /\ fs'[f].temp = fs[f].temp
            /\ fs'[f].backup = fs[f].backup /\ fs'[f].dest = fs[f].dest
        BY <1>2, <3>1 DEF FileState
      <3> QED
        BY <1>0, <1>1, <3>1, <3>2, GivesUpC
    <2>2. CASE fs[f].backup \in {"none", "old"}
      <3>1. /\ fs' = [fs EXCEPT ![f].atemp = FALSE, ![f].backup = "none",
                              ![f].dest = IF fs[f].backup = "old" THEN "old" ELSE @]
            /\ Go(a, "rollTemp") /\ UNCHANGED <<bundle, rows>> /\ me[a].pc = "rollRest"
        BY <1>0, <1>6, <2>2 DEF RollRest
      <3>2. /\ \A g \in Files \ {f} : fs'[g] = fs[g]
            /\ fs'[f].aside = fs[f].aside /\ fs'[f].bin = fs[f].bin /\ fs'[f].atemp = FALSE
            /\ fs'[f].backup = "none"
            /\ fs'[f].dest = IF fs[f].backup = "old" THEN "old" ELSE fs[f].dest
        BY <1>2, <3>1 DEF FileState
      <3>3. fs'[f].dest \in {Before(f), "foreign"}
        BY <1>2, <1>3, <2>2, <3>1, <3>2 DEF FileSays, FileState, Content, Before
      <3>4. /\ fs'[f].dest # "new"
            /\ f \notin Upgrades => fs'[f].dest # "old"
        BY <3>3 DEF Before
      <3> QED
        BY <1>0, <1>1, <3>1, <3>2, <3>3, <3>4, RollOnC
    <2> QED
      BY <2>1, <2>2
  <1>7. CASE RollTemp(a)
    <2>1. /\ fs' = [fs EXCEPT ![f].temp = FALSE]
          /\ Go(a, "rollDone") /\ UNCHANGED <<bundle, rows>> /\ me[a].pc = "rollTemp"
      BY <1>0, <1>7 DEF RollTemp
    <2>2. /\ \A g \in Files \ {f} : fs'[g] = fs[g]
          /\ fs'[f].aside = fs[f].aside /\ fs'[f].bin = fs[f].bin /\ fs'[f].temp = FALSE
          /\ fs'[f].backup = fs[f].backup /\ fs'[f].dest = fs[f].dest
          /\ fs'[f].atemp = fs[f].atemp
      BY <1>2, <2>1 DEF FileState
    <2>3. /\ fs'[f].dest \in {Before(f), "foreign"} /\ fs'[f].backup = "none" /\ ~fs'[f].atemp
          /\ fs'[f].dest # "new"
          /\ f \notin Upgrades => fs'[f].dest # "old"
      BY <1>2, <2>1, <2>2 DEF Before
    <2> QED
      BY <1>0, <1>1, <2>1, <2>2, <2>3, RollOnC
  <1> QED
    BY <1>4, <1>5, <1>6, <1>7

\* The undone file is recorded as rolled back.
LEMMA RollDoneC ==
  ASSUME TypeInv, InvA, InvB, InvC, NEW a \in Actors, RollDone(a)
  PROVE  InvC' /\ Goes
  <1>0. PICK f \in Files : f = At(a)
    BY Locals DEF TypeInv
  <1>1. me[a].pc \in InRollFile /\ me[a].pc = "rollDone" /\ TypeInv' /\ Others(a) /\ UNCHANGED fs
    BY RollTypes DEF RollDone, RollbackImportBundle, InRollFile
  <1>2. CASE ~Current(a, f)
    <2>1. RollGivesUp(a)
      BY <1>0, <1>2 DEF RollDone
    <2> QED
      BY <1>0, <1>1, <2>1, GivesUpC
  <1>3. CASE Current(a, f)
    <2>1. /\ Transition(a, f, "rolled_back", Lower(f), LowerAt(f)) /\ bundle' = bundle
          /\ "rolled_back" \in RowStates /\ Lower(f) \in PCs /\ LowerAt(f) \in Files
      BY <1>0, <1>3, AllStates, LowerTypes DEF RollDone
    <2>2. /\ me[a].pc \in Working /\ me[a].rows = rows /\ MeType /\ RowsType
          /\ \A g \in Files : g \notin me[a].prep => rows[g].state = "none"
          /\ me[a].bad \/ \A g \in Files : g > f => rows[g].state \in Withdrawn
          /\ rows[f].state = "rollback_pending" /\ FileSays(f)
          /\ fs[f].dest \in {Before(f), "foreign"} /\ fs[f].backup = "none" /\ ~fs[f].atemp
          /\ ~fs[f].temp
      BY <1>0, <1>1, RollFileFacts
    <2>3. fs[f].src /\ fs[f].aside = (f \in Moves)
      <3>1. fs[f].aside \in BOOLEAN /\ fs[f].src /\ (f \in Moves => fs[f].aside)
        BY <2>2, WorkFacts DEF FileState
      <3> QED
        BY <2>2, <3>1 DEF FileSays
    <2>4. /\ Writing(a, f, "rolled_back", Lower(f), LowerAt(f)) /\ Keeps(a)
          /\ rows'[f].staged = rows[f].staged
      BY <2>1, <2>2, TransitionWrites
    <2>5. Untouched(f)
      BY <2>2, <2>3 DEF Untouched
    <2>6. FileSays(f)'
      <3>1. Untouched(f)'
        BY <1>1, <2>5 DEF Untouched, Before
      <3> QED
        BY <1>1, <2>2, <2>4, <3>1 DEF FileSays, Writing
    <2>7. \A g \in Files : g \notin me'[a].prep => rows'[g].state = "none"
      BY <2>2, <2>4 DEF Writing, Keeps
    <2>8. "rolled_back" \in Withdrawn
      BY DEF Withdrawn
    <2>9. me'[a].bad \/ \A g \in Files : g > f \/ g = f => rows'[g].state \in Withdrawn
      BY <2>2, <2>4, <2>8 DEF Writing, Keeps
    <2>10. ActorC(a)'
      BY <2>4, <2>7, <2>9, AtLower DEF Writing
    <2> QED
      BY <1>1, <2>1, <2>2, <2>4, <2>6, <2>8, <2>10, WorkC DEF Writing
  <1> QED
    BY <1>2, <1>3

\* A step of the rollback, whichever it is.
LEMMA RollC ==
  ASSUME TypeInv, InvA, InvB, InvC, NEW a \in Actors,
         \/ RollbackStart(a) \/ LockRollback(a) \/ RollAborts(a)
         \/ RollbackImportBundle(a) \/ RollFails(a)
  PROVE  InvC' /\ Goes
  BY RollStartC, RollSkipC, RollMarkC, RollFsC, RollDoneC, RollFailsC DEF RollbackImportBundle

--------------------------------------------------------------------------------
(* The cleanup.                                                             *)

\* What an actor that is tidying up may rely on.
LEMMA CleanFacts ==
  ASSUME TypeInv, InvA, InvB, InvC, NEW a \in Actors, NEW f \in Files, f = At(a),
         me[a].pc \in {"lockCleanup"} \union InCleanup
  PROVE  /\ Busy(a) /\ bundle \in InCleaning /\ MeType /\ RowsType /\ FsType /\ me[a].at = f
         /\ \A g \in Files : /\ fs[g].dest = "new" /\ rows[g].state \in Committed /\ FileSays(g)
                             /\ rows[g] \in JournalRow /\ fs[g] \in FileState
         /\ \A g \in Files : /\ g \in Upgrades => fs[g].backup = "old" \/ fs[g].bin
                             /\ g \in Moves => fs[g].aside \/ fs[g].bin
         /\ me[a].pc \in InCleanup => me[a].rows = rows
         /\ Cleaned(a)
  <1>1. Busy(a) /\ bundle \in InCleaning
    BY FreePlaces DEF InvB, BundleAt
  <1>2. catalog
    BY <1>1 DEF InvA, CommitKnown, Committed, InCleaning
  <1>3. \A g \in Files : fs[g].dest = "new" /\ rows[g].state \in Committed /\ FileSays(g)
    BY <1>1, <1>2 DEF InvB, Delivered, InvC, RowsSay
  <1>4. /\ me[a].pc \in InCleanup => me[a].rows = rows
        /\ Cleaned(a) /\ me[a].at = f /\ MeType /\ RowsType /\ FsType
        /\ \A g \in Files : rows[g] \in JournalRow /\ fs[g] \in FileState
    BY Locals DEF InvC, ActorC, Holds, TypeInv, RowsType, FsType
  <1>5. \A g \in Files : /\ g \in Upgrades => fs[g].backup = "old" \/ fs[g].bin
                         /\ g \in Moves => fs[g].aside \/ fs[g].bin
    BY <1>3 DEF InvA, OriginalKept
  <1> QED
    BY <1>1, <1>3, <1>4, <1>5

\* A step of the cleanup that changes at most the entries of one file.
LEMMA CleanStepC ==
  ASSUME TypeInv, InvA, InvB, InvC, NEW a \in Actors, NEW f \in Files, Busy(a), Others(a),
         UNCHANGED <<bundle, rows>>, \A g \in Files \ {f} : fs'[g] = fs[g],
         FileSays(f)', ActorC(a)'
  PROVE  InvC' /\ Goes
  <1>1. \A g \in Files : FileSays(g)'
    BY DEF InvC, FileSays, Untouched, Tidied, Published
  <1> QED
    BY <1>1, RowsStay, StepC, SameBundle

\* The cleanup leaves a file tidied up, or counted as failed.
LEMMA NextCleanC ==
  ASSUME TypeInv, NEW a \in Actors, NEW f \in Files, f = At(a),
         NEW failed \in SUBSET Files, NextClean(a, failed),
         me[a].rows = rows, UNCHANGED rows,
         f \in failed \/ Tidied(f)',
         \A g \in Files : g < f => g \in me[a].failed \/ Tidied(g)'
  PROVE  ActorC(a)'
  <1>1. me[a] \in Local /\ me[a].at = f /\ MeType
    BY Locals DEF TypeInv
  <1>2. /\ me'[a].failed = me[a].failed \union failed /\ me'[a].rows = rows'
        /\ me'[a].pc = IF f = NFiles THEN "cleanFinish" ELSE "clean"
        /\ f # NFiles => me'[a].at = f + 1
    BY <1>1 DEF NextClean, MeType, Local
  <1>3. /\ f = NFiles => \A g \in Files : g < f \/ g = f
        /\ f # NFiles => \A g \in Files : g < f + 1 => g < f \/ g = f
    BY ConstantsOK DEF Files
  <1>4. CASE f = NFiles
    <2>1. \A g \in Files : g \in me'[a].failed \/ Tidied(g)'
      BY <1>2, <1>3, <1>4
    <2>2. me'[a].pc = "cleanFinish"
      BY <1>2, <1>4
    <2>3. Holds(a)' /\ Forward(a)' /\ Backward(a)'
      BY <1>2, <2>2 DEF Holds, Forward, Backward, Working, PreparePCs, InCritical, InRollback
    <2> QED
      BY <2>1, <2>2, <2>3 DEF ActorC, Cleaned
  <1>5. CASE f # NFiles
    <2>1. \A g \in Files : g < me'[a].at => g \in me'[a].failed \/ Tidied(g)'
      BY <1>2, <1>3, <1>5
    <2>2. me'[a].pc = "clean"
      BY <1>2, <1>5
    <2>3. Holds(a)' /\ Forward(a)' /\ Backward(a)'
      BY <1>2, <2>2 DEF Holds, Forward, Backward, Working, PreparePCs, InCritical, InRollback
    <2> QED
      BY <2>1, <2>2, <2>3 DEF ActorC, Cleaned, At
  <1> QED
    BY <1>4, <1>5

\* What the cleanup does to a file's entries.
LEMMA CleanC ==
  ASSUME TypeInv, InvA, InvB, InvC, NEW a \in Actors,
         LockCleanup(a) \/ CleanSource(a) \/ CleanReplaced(a) \/ CleanFails(a)
  PROVE  InvC' /\ Goes
  <1>0. PICK f \in Files : f = At(a)
    BY Locals DEF TypeInv
  <1>1. /\ me[a].pc \in {"lockCleanup"} \union InCleanup /\ TypeInv' /\ Others(a)
        /\ UNCHANGED <<bundle, rows>>
        /\ me[a].pc \notin {"lockCleanup"} => me[a].pc \in InCleanup
    BY CleanTypes DEF LockCleanup, CleanSource, CleanReplaced, CleanFails, InCleanup
  <1>2. /\ Busy(a) /\ bundle \in InCleaning /\ MeType /\ RowsType /\ me[a].at = f
        /\ rows[f].state \in Committed /\ FileSays(f) /\ fs[f].dest = "new"
        /\ me[a].pc \in InCleanup => me[a].rows = rows
        /\ me[a].pc \in {"clean", "cleanReplaced"} =>
             \A g \in Files : g < f => g \in me[a].failed \/ Tidied(g)
        /\ me[a].pc = "cleanReplaced" => ~fs[f].src
        /\ fs \in [Files -> FileState] /\ fs[f] \in FileState
        /\ f \in Upgrades => fs[f].backup = "old" \/ fs[f].bin
        /\ f \in Moves => fs[f].aside \/ fs[f].bin
        /\ {} \in SUBSET Files /\ {f} \in SUBSET Files
        /\ {"clean", "cleanReplaced"} \subseteq PCs
    BY <1>0, <1>1, CleanFacts, AllPCs DEF Cleaned, FsType
  <1>3. CASE LockCleanup(a)
    <2>1. Listed(a, "clean", {}) /\ UNCHANGED fs
      BY <1>3 DEF LockCleanup
    <2>2. me'[a].rows = rows' /\ me'[a].pc = "clean" /\ me'[a].at = 1
      BY <1>1, <1>2, <2>1, ListedDoes
    <2>3. \A g \in Files : ~(g < 1)
      BY DEF Files
    <2>4. ActorC(a)'
      BY <2>2, <2>3 DEF ActorC, Holds, Forward, Backward, Cleaned, Working, PreparePCs,
         InCritical, InRollback, InCleanup, At
    <2> QED
      BY <1>1, <1>2, <2>1, <2>4, QuietC, RowsStay, SameBundle
  <1>4. ASSUME NEW failed \in {{}, {f}}, NextClean(a, failed), me[a].pc \in InCleanup,
               me[a].pc \in {"clean", "cleanReplaced"},
               f \in failed \/ Tidied(f)', \A g \in Files \ {f} : fs'[g] = fs[g], FileSays(f)'
        PROVE  InvC' /\ Goes
    <2>1. \A g \in Files : g < f => g # f
      BY DEF Files
    <2>2. \A g \in Files : g < f => g \in me[a].failed \/ Tidied(g)'
      BY <1>2, <1>4, <2>1 DEF Tidied, Published
    <2>3. failed \in SUBSET Files
      BY <1>4
    <2>4. ActorC(a)'
      BY <1>0, <1>1, <1>2, <1>4, <2>2, <2>3, NextCleanC
    <2> QED
      BY <1>1, <1>2, <1>4, <2>4, CleanStepC
  <1>5. ASSUME UNCHANGED fs PROVE FileSays(f)' /\ (Tidied(f) => Tidied(f)')
    BY <1>1, <1>2, <1>5 DEF FileSays, Untouched, Tidied, Published
  <1>6. CASE CleanSource(a) /\ Mine(a, f) \in {"none", "completed"}
    <2>1. NextClean(a, {}) /\ UNCHANGED fs /\ me[a].pc = "clean" /\ me[a].pc \in InCleanup
      BY <1>0, <1>6 DEF CleanSource, InCleanup
    <2>2. Tidied(f)
      BY <1>2, <1>6, <2>1 DEF Mine, FileSays, Committed
    <2> QED
      BY <1>4, <1>5, <2>1, <2>2
  <1>7. CASE CleanSource(a) /\ Mine(a, f) \notin {"none", "completed"}
    <2>1. /\ fs' = [fs EXCEPT ![f].src = FALSE] /\ Go(a, "cleanReplaced") /\ me[a].pc = "clean"
          /\ me[a].pc \in InCleanup
      BY <1>0, <1>7 DEF CleanSource, InCleanup
    <2>2. /\ \A g \in Files \ {f} : fs'[g] = fs[g]
          /\ fs'[f].dest = fs[f].dest /\ fs'[f].backup = fs[f].backup
          /\ fs'[f].aside = fs[f].aside /\ fs'[f].bin = fs[f].bin /\ fs'[f].temp = fs[f].temp
          /\ fs'[f].src = FALSE
      BY <1>2, <2>1 DEF FileState
    <2>3. rows[f].state \in Committed \ {"completed"}
      BY <1>2, <1>7, <2>1 DEF Mine
    <2>4. FileSays(f)'
      BY <1>1, <1>2, <2>2, <2>3 DEF FileSays, Committed
    <2>5. /\ me'[a].rows = rows' /\ me'[a].pc = "cleanReplaced" /\ me'[a].at = f
          /\ me'[a].failed = me[a].failed
      BY <1>1, <1>2, <2>1, GoDoes, GoKeeps DEF Moved, Keeps
    <2>6. \A g \in Files : g < f => g # f
      BY DEF Files
    <2>7. \A g \in Files : g < f => g \in me[a].failed \/ Tidied(g)'
      BY <1>2, <2>1, <2>2, <2>6 DEF Tidied, Published
    <2>8. ActorC(a)'
      BY <2>2, <2>5, <2>7 DEF ActorC, Holds, Forward, Backward, Cleaned, Working, PreparePCs,
         InCritical, InRollback, InCleanup, At
    <2> QED
      BY <1>1, <1>2, <2>2, <2>4, <2>8, CleanStepC
  <1>8. CASE CleanReplaced(a) /\ fs[f].backup \in {"none", "old"}
    <2> DEFINE kept == fs[f].bin \/ fs[f].backup = "old" \/ fs[f].aside
    <2>1. /\ fs' = [fs EXCEPT ![f].backup = "none", ![f].aside = FALSE, ![f].bin = kept]
          /\ NextClean(a, {}) /\ me[a].pc = "cleanReplaced" /\ me[a].pc \in InCleanup
      BY <1>0, <1>2, <1>8 DEF CleanReplaced, InCleanup
    <2>2. kept = (f \in Upgrades \union Moves)
      BY <1>2 DEF FileSays, FileState
    <2> HIDE DEF kept
    <2>3. /\ \A g \in Files \ {f} : fs'[g] = fs[g]
          /\ fs'[f].dest = fs[f].dest /\ fs'[f].backup = "none"
          /\ fs'[f].aside = FALSE /\ fs'[f].bin = kept /\ fs'[f].temp = fs[f].temp
          /\ fs'[f].src = fs[f].src
      BY <1>2, <2>1 DEF FileState
    <2>4. Tidied(f)'
      BY <1>2, <2>1, <2>2, <2>3 DEF Tidied, Published
    <2>5. FileSays(f)'
      BY <1>1, <1>2, <2>2, <2>3, <2>4 DEF FileSays, Committed
    <2> QED
      BY <1>4, <2>1, <2>3, <2>4, <2>5
  <1>9. CASE CleanFails(a) \/ (CleanReplaced(a) /\ fs[f].backup \notin {"none", "old"})
    <2>1. NextClean(a, {f}) /\ UNCHANGED fs /\ me[a].pc \in {"clean", "cleanReplaced"}
          /\ me[a].pc \in InCleanup
      BY <1>0, <1>9 DEF CleanFails, CleanReplaced, InCleanup
    <2> QED
      BY <1>4, <1>5, <2>1
  <1> QED
    BY <1>0, <1>3, <1>6, <1>7, <1>8, <1>9

\* The cleanup is cancelled between two files.
LEMMA CleanCancelledC ==
  ASSUME TypeInv, InvA, InvB, InvC, NEW c \in Callers, CleanCancelled(c)
  PROVE  InvC' /\ Goes
  <1>1. /\ c \in Actors /\ TypeInv' /\ Others(c) /\ UNCHANGED <<bundle, rows, fs>> /\ MeType
        /\ Leave(c, "cancelled") /\ "cancelled" \in Answers /\ me[c].pc \in InCleanup
        /\ Busy(c)
    BY CallersAct, CleanCancelledTypes, FreePlaces DEF CleanCancelled, Answers, TypeInv
  <1>2. me'[c].pc \in Loose
    BY <1>1, LeaveDoes DEF Loose, Free
  <1> QED
    BY <1>1, <1>2, LooseC, QuietC, RowsStay, SameBundle

\* An exception takes an actor out.
LEMMA UnhandledC ==
  ASSUME TypeInv, InvA, InvB, InvC, NEW a \in Actors, Unhandled(a)
  PROVE  InvC' /\ Goes
  <1>1. /\ TypeInv' /\ Others(a) /\ UNCHANGED <<bundle, rows, fs>> /\ Busy(a)
        /\ me'[a].pc \in Loose
    BY UnhandledTypes, UnhandledBusy DEF Loose, Free
  <1> QED
    BY <1>1, LooseC, QuietC, RowsStay, SameBundle

\* The cleanup's outcome is recorded.
LEMMA CleanFinishC ==
  ASSUME TypeInv, InvA, InvB, InvC, NEW a \in Actors, CleanFinish(a)
  PROVE  InvC' /\ Goes
  <1>0. PICK f \in Files : f = At(a)
    BY Locals DEF TypeInv
  <1> DEFINE done == {g \in Files : Mine(a, g) # "none"} \ me[a].failed
             st(g) == IF g \in done /\ rows[g].state \in {"catalog_committed", "cleanup_pending"}
                      THEN "completed"
                      ELSE IF g \in me[a].failed /\ rows[g].state = "catalog_committed"
                      THEN "cleanup_pending" ELSE rows[g].state
  <1>1. me[a].pc = "cleanFinish" /\ me[a].pc \in InCleanup /\ TypeInv' /\ Others(a) /\ UNCHANGED fs
    BY CleanFinishTypes DEF CleanFinish, InCleanup
  <1>2. /\ Busy(a) /\ bundle \in InCleaning /\ me[a].rows = rows
        /\ \A g \in Files : /\ rows[g].state \in Committed /\ FileSays(g)
                            /\ rows[g] \in JournalRow
                            /\ g \in me[a].failed \/ Tidied(g)
    BY <1>0, <1>1, CleanFacts DEF Cleaned
  <1>3. /\ bundle' = IF me[a].failed = {} THEN "completed" ELSE "cleanup_pending"
        /\ rows' = [g \in Files |-> [rows[g] EXCEPT !.state = st(g)]]
        /\ me' = [b \in Actors |->
                    IF b # a THEN [me[b] EXCEPT !.fresh = {g \in @ : st(g) = rows[g].state}]
                    ELSE IF a # Recoverer THEN Blank("ok")
                    ELSE IF bundle' = "completed" \/ booted THEN Blank("none")
                    ELSE [Blank("none") EXCEPT !.pc = "escalate"]]
    BY <1>2 DEF CleanFinish, InCleaning
  <1>4. ASSUME NEW g \in Files
        PROVE  /\ st(g) \in Committed
               /\ st(g) = "completed" => Tidied(g)
               /\ g \notin me[a].failed => st(g) = "completed"
    BY <1>2 DEF Committed, Mine, FileSays
  <1> HIDE DEF st
  <1>5. \A g \in Files : rows'[g].state = st(g) /\ rows'[g].staged = rows[g].staged
    BY <1>2, <1>3 DEF JournalRow
  <1>6. RowsSay'
    BY <1>3, <1>4, <1>5 DEF RowsSay, InCleaning
  <1>7. \A g \in Files : FileSays(g)'
    <2> SUFFICES ASSUME NEW g \in Files PROVE FileSays(g)'
      OBVIOUS
    <2>1. /\ st(g) \in Committed /\ (st(g) = "completed" => Tidied(g)) /\ FileSays(g)
          /\ rows'[g].state = st(g) /\ rows'[g].staged = rows[g].staged
      BY <1>2, <1>4, <1>5
    <2> QED
      BY <1>1, <2>1 DEF FileSays, Committed, Tidied, Published
  <1>8. me'[a].pc \in {"idle", "escalate"}
    BY <1>3 DEF Blank
  <1>9. ActorC(a)'
    BY <1>8, LooseC DEF Loose, Free
  <1>10. Goes
    BY <1>2, <1>3, <1>4, <1>5 DEF Goes, BundleMoves, RowMoves, Committed
  <1> QED
    BY <1>1, <1>2, <1>6, <1>7, <1>9, <1>10, StepC

--------------------------------------------------------------------------------
(* Recovery, administrator and environment.                                 *)

\* Recovery lists the bundles, looks at one, and judges what came of it.
LEMMA RecoverC ==
  ASSUME TypeInv, InvA, InvB, InvC,
         RecoverList \/ RecoverCheck \/ RecoverVerdict \/ Boot
  PROVE  InvC' /\ Goes
  <1> DEFINE r == Recoverer
  <1>1. /\ r \in Actors /\ MeType /\ UNCHANGED <<bundle, rows, fs>> /\ Others(r)
        /\ {"check", "lockCleanup", "journals", "attention"} \subseteq PCs /\ "none" \in Answers
    BY RecovererActs, RecovererTypes, AllPCs
       DEF TypeInv, RecoverList, RecoverCheck, RecoverVerdict, Boot, RecovererStep, Answers
  <1>2. CASE RecoverList \/ Boot
    <2>1. \A b \in Actors \ {r} : me'[b] = me[b]
      BY <1>1, <1>2 DEF RecoverList, Boot, MeType
    <2>2. me'[r].pc = "check" \/ me'[r] = me[r]
      BY <1>1, <1>2 DEF RecoverList, Boot, MeType, Local
    <2>3. \A b \in Actors : ActorC(b)'
      BY <1>1, <2>1, <2>2, LooseC, ActorStays DEF Loose, InvC
    <2> QED
      BY <1>1, <2>3, FilesStay, RowsStay, SameBundle DEF InvC
  <1>3. CASE RecoverCheck \/ RecoverVerdict
    <2>1. /\ Busy(r)
          /\ \/ \E pc \in {"lockCleanup", "journals", "attention"} : Go(r, pc)
             \/ Leave(r, "none")
      BY <1>3 DEF RecoverCheck, RecoverVerdict, Busy
    <2>2. me'[r].pc \in Loose
      BY <1>1, <2>1, GoDoes, LeaveDoes DEF Moved, Loose, Free
    <2> QED
      BY <1>1, <2>1, <2>2, LooseC, QuietC, RowsStay, SameBundle
  <1> QED
    BY <1>2, <1>3

\* Recovery reads the journal of a bundle that was never committed.
LEMMA RecoverJournalsC ==
  ASSUME TypeInv, InvA, InvB, InvC, RecoverJournals
  PROVE  InvC' /\ Goes
  <1> DEFINE r == Recoverer
  <1>1. /\ r \in Actors /\ MeType /\ RowsType /\ UNCHANGED <<rows, fs>> /\ Others(r) /\ Busy(r)
        /\ {"rollStart", "attention"} \subseteq PCs /\ "none" \in Answers
        /\ Journaled \in SUBSET Files
        /\ bundle = me[r].seen /\ bundle \in {"preparing", "publishing"}
    BY RecovererActs, RecovererTypes, AllPCs
       DEF TypeInv, RecoverJournals, RecovererStep, Answers, Busy, Journaled, InvB, BundleAt
  <1>2. CASE Listed(r, "rollStart", Journaled) /\ UNCHANGED bundle
    <2>1. me'[r].rows = rows' /\ me'[r].pc = "rollStart"
      BY <1>1, <1>2, ListedDoes
    <2>2. me'[r].prep = Journaled
      BY <1>1, <1>2, ListedKeeps
    <2>3. \A g \in Files : g \notin Journaled => rows'[g].state = "none"
      BY <1>1 DEF Journaled
    <2> QED
      BY <1>1, <1>2, <2>1, <2>2, <2>3, AtRollStart, QuietC, RowsStay, SameBundle
  <1>3. CASE Journaled = {} /\ bundle' = "rolled_back" /\ Leave(r, "none")
    <2>1. me'[r].pc \in Loose
      BY <1>1, <1>3, LeaveDoes DEF Loose, Free
    <2>2. \A f \in Files : rows[f].state = "none"
      BY <1>3 DEF Journaled
    <2>3. RowsSay' /\ BundleMoves
      BY <1>1, <1>3, <2>2 DEF RowsSay, InCleaning, Withdrawn, BundleMoves
    <2> QED
      BY <1>1, <2>1, <2>3, LooseC, QuietC, SameRows
  <1>4. CASE Go(r, "attention") /\ UNCHANGED bundle
    <2>1. me'[r].pc \in Loose
      BY <1>1, <1>4, GoDoes DEF Moved, Loose, Free
    <2> QED
      BY <1>1, <1>4, <2>1, LooseC, QuietC, RowsStay, SameBundle
  <1> QED
    BY <1>2, <1>3, <1>4 DEF RecoverJournals

\* Recovery marks a bundle that it could not settle.
LEMMA AttentionC ==
  ASSUME TypeInv, InvA, InvB, InvC, MarkNeedsAttention
  PROVE  InvC' /\ Goes
  <1> DEFINE r == Recoverer
             shut == {"completed", "rolled_back", "needs_attention", "resolved"}
             touched == {f \in Files : rows[f].state \notin shut \union {"none"}}
  <1>1. /\ r \in Actors /\ UNCHANGED fs /\ Others(r) /\ Busy(r)
        /\ bundle' = IF bundle \in shut THEN bundle ELSE "needs_attention"
        /\ rows' = [f \in Files |-> IF f \in touched
                                    THEN [rows[f] EXCEPT !.state = "needs_attention"]
                                    ELSE rows[f]]
        /\ me'[r].pc = "idle"
    BY RecovererActs, RecovererTypes DEF MarkNeedsAttention, RecovererStep, Busy, Blank
  <1>2. \A f \in Files : rows[f] \in JournalRow /\ FileSays(f)
    BY DEF TypeInv, RowsType, InvC
  <1>3. \A f \in Files :
          /\ rows'[f].staged = rows[f].staged
          /\ rows'[f].state = IF f \in touched THEN "needs_attention" ELSE rows[f].state
    BY <1>1, <1>2 DEF JournalRow
  <1>4. bundle \in {"completed", "rolled_back"} => \A f \in Files : f \notin touched
    BY DEF InvC, RowsSay, Withdrawn
  <1> HIDE DEF touched
  <1>5. RowsSay'
    BY <1>1, <1>3, <1>4 DEF InvC, RowsSay, InCleaning
  <1>6. \A f \in Files : FileSays(f)'
    <2> SUFFICES ASSUME NEW f \in Files PROVE FileSays(f)'
      OBVIOUS
    <2>1. FileSays(f) /\ rows'[f].staged = rows[f].staged
          /\ rows'[f].state \in {"needs_attention", rows[f].state}
      BY <1>2, <1>3
    <2> QED
      BY <1>1, <2>1 DEF FileSays, Untouched, Tidied, Published
  <1>7. ActorC(r)'
    BY <1>1, LooseC DEF Loose, Free
  <1>8. BundleMoves
    BY <1>1, AllStates DEF BundleMoves, Recoverable, TypeInv, BundleType
  <1>9. RowMoves
    <2>1. \A f \in Files : rows[f].state = "needs_attention" => f \notin touched
      BY DEF touched
    <2> QED
      BY <1>1, <1>3, <1>4, <2>1 DEF RowMoves
  <1> QED
    BY <1>1, <1>5, <1>6, <1>7, <1>8, <1>9, StepC DEF Goes

\* An administrator resolves what needs attention.
LEMMA ResolveC ==
  ASSUME TypeInv, InvA, InvB, InvC, Resolve
  PROVE  InvC' /\ Goes
  <1> DEFINE pending == {f \in Files : rows[f].state = "needs_attention"}
  <1>1. /\ bundle = "needs_attention" /\ bundle' = "resolved" /\ UNCHANGED fs
        /\ rows' = [f \in Files |-> IF f \in pending THEN [rows[f] EXCEPT !.state = "resolved"]
                                    ELSE rows[f]]
        /\ \A a \in Actors : me'[a].pc = me[a].pc
    BY ResolveTypes DEF Resolve, Same
  <1>2. \A f \in Files : rows[f] \in JournalRow /\ FileSays(f)
    BY DEF TypeInv, RowsType, InvC
  <1>3. \A f \in Files :
          /\ rows'[f].staged = rows[f].staged
          /\ rows'[f].state = IF f \in pending THEN "resolved" ELSE rows[f].state
    BY <1>1, <1>2 DEF JournalRow
  <1>4. RowsSay'
    BY <1>1 DEF RowsSay, InCleaning
  <1>5. \A f \in Files : FileSays(f)'
    <2> SUFFICES ASSUME NEW f \in Files PROVE FileSays(f)'
      OBVIOUS
    <2>1. FileSays(f) /\ rows'[f].staged = rows[f].staged
          /\ rows'[f].state \in {"resolved", rows[f].state}
      BY <1>2, <1>3
    <2> QED
      BY <1>1, <2>1 DEF FileSays, Untouched, Tidied, Published
  <1>6. ASSUME NEW a \in Actors PROVE ActorC(a)'
    <2>1. BundleAt(a)
      BY DEF InvB
    <2>2. me'[a].pc \notin Working \union {"refresh"} \union InCleanup
      BY <1>1, <2>1 DEF BundleAt, InCleaning
    <2> QED
      BY <2>2 DEF ActorC, Holds, Forward, Backward, Cleaned, Working, PreparePCs,
         InCritical, InRollback, InCleanup
  <1>7. Goes
    BY <1>1, <1>3 DEF Goes, BundleMoves, RowMoves
  <1> QED
    BY <1>4, <1>5, <1>6, <1>7 DEF InvC

\* The process stops and starts again.
LEMMA CrashC ==
  ASSUME TypeInv, InvA, InvB, InvC, Crash
  PROVE  InvC' /\ Goes
  <1>1. UNCHANGED <<bundle, rows, fs>> /\ \A a \in Actors : me'[a].pc = "idle"
    BY CrashTypes DEF Crash, Blank
  <1>2. \A a \in Actors : ActorC(a)'
    BY <1>1, LooseC DEF Loose, Free
  <1> QED
    BY <1>1, <1>2, FilesStay, RowsStay, SameBundle DEF InvC

\* Somebody else puts a file at a free destination.
LEMMA OccupyC ==
  ASSUME TypeInv, InvA, InvB, InvC, NEW f \in Files, Occupy(f)
  PROVE  InvC' /\ Goes
  <1>1. UNCHANGED <<bundle, rows, me>>
    BY DEF Occupy
  <1>2. ASSUME NEW g \in Files
        PROVE  /\ fs'[g].dest = fs[g].dest \/ (fs[g].dest = "none" /\ fs'[g].dest = "foreign")
               /\ fs'[g].backup = fs[g].backup /\ fs'[g].aside = fs[g].aside
               /\ fs'[g].bin = fs[g].bin /\ fs'[g].temp = fs[g].temp /\ fs'[g].src = fs[g].src
               /\ fs'[g].atemp = fs[g].atemp
    <2>1. \/ fs[f].dest = "none" /\ fs' = [fs EXCEPT ![f].dest = "foreign"]
          \/ fs' = [fs EXCEPT ![f].adest = "foreign"]
      BY DEF Occupy
    <2> QED
      BY <2>1 DEF TypeInv, FsType, FileState
  <1>3. ASSUME NEW g \in Files PROVE FileSays(g)' /\ (Tidied(g) => Tidied(g)')
    <2>1. FileSays(g)
      BY DEF InvC
    <2> QED
      BY <1>1, <1>2, <2>1 DEF FileSays, Untouched, Tidied, Published, Before
  <1>4. ASSUME NEW a \in Actors PROVE ActorC(a)'
    <2>1. ActorC(a) /\ At(a) \in Files /\ At(a)' = At(a)
      BY <1>1, Locals DEF InvC, TypeInv, At
    <2>2. Holds(a)' /\ Forward(a)'
      BY <1>1, <2>1 DEF ActorC, Holds, Forward, Mine, At
    <2>3. Backward(a)'
      BY <1>1, <1>2, <2>1 DEF ActorC, Backward, Mine, Before
    <2>4. Cleaned(a)'
      BY <1>1, <1>2, <1>3, <2>1 DEF ActorC, Cleaned
    <2> QED
      BY <2>2, <2>3, <2>4 DEF ActorC
  <1> QED
    BY <1>1, <1>3, <1>4, RowsStay, SameBundle DEF InvC

\* The invariant is inductive, and every step moves the bundle as Goes allows.
LEMMA StepInvC ==
  ASSUME TypeInv, InvA, InvB, InvC, PeriodicRecovery = FALSE, [Next]_vars
  PROVE  InvC' /\ Goes
  <1>1. ASSUME NEW a \in Actors, ActorStep(a) PROVE InvC' /\ Goes
    <2>1. CASE a \in Callers /\ CallerStep(a)
      <3>1. CASE CriticalSection(a)
        BY <2>1, <3>1, BoundaryC, RecheckC, AlreadyPublishedC, PublishC, JournalC, CommitC
           DEF CriticalSection
      <3>2. CASE ~CriticalSection(a)
        BY <2>1, <3>2, CallC, EnsureC, MarkC, ListC, PrepareC, StagedC, PreparationFailedC,
           LockPublishC, LookC DEF CallerStep
      <3> QED
        BY <3>1, <3>2
    <2>2. CASE a \in Callers /\ (Call(a) \/ LockCancelled(a) \/ PublishFails(a) \/ CleanCancelled(a))
      BY <2>2, CallC, LockPublishC, CleanCancelledC
    <2>3. CASE WorkerStep(a) \/ RollFails(a) \/ RollAborts(a) \/ CleanFails(a)
      BY <2>3, RollC, CleanC, CleanFinishC DEF WorkerStep, ResumeImportCleanup
    <2>4. CASE a = Recoverer /\ RecovererStep
      BY <2>4, RecoverC, RecoverJournalsC, AttentionC DEF RecovererStep
    <2>5. CASE Unhandled(a)
      BY <2>5, UnhandledC
    <2> QED
      BY <1>1, <2>1, <2>2, <2>3, <2>4, <2>5 DEF ActorStep
  <1>2. CASE Next
    BY <1>1, <1>2, NextByActor, ResolveC, CrashC, OccupyC
  <1>3. CASE UNCHANGED vars
    <2>1. UNCHANGED <<bundle, rows, fs, me>>
      BY <1>3 DEF vars
    <2> QED
      BY <2>1, ActorStays, FilesStay, RowsStay, SameBundle DEF InvC
  <1> QED
    BY <1>2, <1>3

--------------------------------------------------------------------------------
(* The refinement: an outcome that is reported is the truth about the       *)
(* shelf, and it moves as AtomicPublication says.                           *)

Marked == \E f \in Files : rows[f].state = "needs_attention"

\* The shelf that belongs to an outcome.
ShelfOf(outcome) ==
  CASE outcome \in {"open", "withdrawn"}       -> "before"
    [] outcome \in {"attention", "resolved"}   -> "unknown"
    [] outcome = "committed"                   -> "after"
    [] outcome = "done"                        -> "tidy"

\* What a reader makes of each state of the bundle.
LEMMA OutcomeCases ==
  /\ bundle = "resolved" => Outcome = "resolved"
  /\ bundle # "resolved" /\ (bundle = "needs_attention" \/ Marked) => Outcome = "attention"
  /\ ~Marked =>
       /\ bundle = "completed" => Outcome = "done"
       /\ bundle \in InCleaning => Outcome = "committed"
       /\ bundle = "rolled_back" => Outcome = "withdrawn"
       /\ bundle \in {"none", "preparing", "publishing"} => Outcome = "open"
  BY DEF Outcome, Marked, Committed, InCleaning

\* The shelf is what the outcome says.
Truthful == Shelf = ShelfOf(Outcome)

\* The shelf is always the one that the outcome announces.
LEMMA Honest ==
  ASSUME TypeInv, InvA, InvB, InvC
  PROVE  Truthful
  <1>1. Outcome \in {"open", "committed", "done", "withdrawn", "attention", "resolved"}
    BY DEF Outcome
  <1>2. ASSUME Outcome = "withdrawn" PROVE \A f \in Files : Untouched(f)
    <2>1. bundle = "rolled_back" /\ \A f \in Files : rows[f].state # "needs_attention"
      BY <1>2 DEF Outcome, Committed
    <2> QED
      BY <2>1 DEF InvC, RowsSay, FileSays, Withdrawn
  <1>3. ASSUME Outcome = "committed" PROVE \A f \in Files : Published(f)
    <2>1. bundle \in Committed
      BY <1>3 DEF Outcome
    <2> QED
      BY <2>1 DEF InvA, InvB, CommitKnown, Delivered, Published
  <1>4. ASSUME Outcome = "done" PROVE \A f \in Files : Tidied(f)
    <2>1. bundle = "completed"
      BY <1>4 DEF Outcome
    <2> QED
      BY <2>1 DEF InvC, RowsSay, FileSays
  <1> QED
    BY <1>1, <1>2, <1>3, <1>4 DEF Truthful, Shelf, ShelfOf

\* Every move of the bundle is a step of AtomicPublication, or none.
LEMMA StepAtomic ==
  ASSUME TypeInv, InvC, InvC', Goes
  PROVE  \/ Outcome' = Outcome
         \/ Outcome = "open" /\ Outcome' \in {"committed", "withdrawn"}
         \/ Outcome = "committed" /\ Outcome' = "done"
         \/ Outcome = "withdrawn" /\ Outcome' = "open"
         \/ Outcome \in {"open", "committed"} /\ Outcome' = "attention"
         \/ Outcome = "attention" /\ Outcome' = "resolved"
  <1>1. /\ Marked => Marked' \/ bundle' = "resolved"
        /\ Marked' => \/ Marked \/ (bundle = "publishing" /\ bundle' = "publishing")
                      \/ bundle' = "needs_attention" \/ bundle = "resolved"
    BY DEF Goes, RowMoves, Marked
  <1>2. /\ bundle \in {"none", "preparing", "completed"} \union InCleaning => ~Marked
        /\ bundle' \in {"none", "preparing", "completed"} \union InCleaning => ~Marked'
    BY DEF InvC, RowsSay, Marked, Committed
  <1>3. /\ bundle' = "resolved" => Outcome' = "resolved"
        /\ bundle' # "resolved" /\ (bundle' = "needs_attention" \/ Marked')
             => Outcome' = "attention"
        /\ ~Marked' =>
             /\ bundle' = "completed" => Outcome' = "done"
             /\ bundle' \in InCleaning => Outcome' = "committed"
             /\ bundle' = "rolled_back" => Outcome' = "withdrawn"
             /\ bundle' \in {"none", "preparing", "publishing"} => Outcome' = "open"
    BY DEF Outcome, Marked, Committed, InCleaning
  <1> HIDE DEF Marked
  <1>4. CASE bundle' = bundle
    BY <1>1, <1>3, <1>4, OutcomeCases, AllStates DEF TypeInv, BundleType, InCleaning
  <1>5. CASE bundle = "none" /\ bundle' = "preparing"
    BY <1>2, <1>3, <1>5, OutcomeCases
  <1>6. CASE bundle \in {"preparing", "rolled_back"} /\ bundle' = "publishing"
    BY <1>1, <1>3, <1>6, OutcomeCases
  <1>7. CASE bundle \in {"preparing", "publishing"} /\ bundle' = "rolled_back"
    BY <1>1, <1>3, <1>7, OutcomeCases
  <1>8. CASE bundle = "publishing" /\ bundle' = "catalog_committed"
    BY <1>1, <1>2, <1>3, <1>8, OutcomeCases DEF InCleaning
  <1>9. CASE bundle \in InCleaning /\ bundle' \in {"cleanup_pending", "completed"}
    BY <1>1, <1>2, <1>3, <1>9, OutcomeCases DEF InCleaning
  <1>10. CASE bundle \in {"none"} \union Recoverable /\ bundle' = "needs_attention"
    BY <1>1, <1>3, <1>10, OutcomeCases DEF Recoverable, InCleaning
  <1>11. CASE bundle = "needs_attention" /\ bundle' = "resolved"
    BY <1>3, <1>11, OutcomeCases
  <1> QED
    BY <1>4, <1>5, <1>6, <1>7, <1>8, <1>9, <1>10, <1>11 DEF Goes, BundleMoves

\* Where recovery runs only at startup, publishing a bundle of any number of files, by
\* any number of callers and through any crashes and failures, looks to a reader like
\* the one step that AtomicPublication describes: never half of the bundle under an
\* outcome that calls it published, tidied up or withdrawn.
THEOREM Implements == PeriodicRecovery = FALSE => (Spec => AtomicallyPublished)
  <1> SUFFICES ASSUME PeriodicRecovery = FALSE PROVE Spec => AtomicallyPublished
    OBVIOUS
  <1>1. Init => TypeInv /\ InvA /\ InvB /\ InvC
    BY InitTypes, InitA, InitB, InitC
  <1>2. TypeInv /\ InvA /\ InvB /\ InvC /\ [Next]_vars
          => TypeInv' /\ InvA' /\ InvB' /\ InvC' /\ Goes
    BY StepTypes, StepInvA, StepInvB, StepInvC
  <1>3. TypeInv /\ InvA /\ InvB /\ InvC => Truthful
    BY Honest
  <1>4. Init => Atomic!Init
    <2> SUFFICES ASSUME Init PROVE Atomic!Init
      OBVIOUS
    <2>1. bundle = "none" /\ ~Marked
      BY DEF Init, Marked, NoRow, Row
    <2>2. Outcome = "open"
      BY <2>1, OutcomeCases
    <2> QED
      BY <2>2 DEF Shelf, Atomic!Init
  <1>5. TypeInv /\ InvC /\ InvC' /\ Goes /\ Truthful /\ Truthful' => [Atomic!Next]_Atomic!vars
    <2> SUFFICES ASSUME TypeInv, InvC, InvC', Goes,
                        Shelf = ShelfOf(Outcome), Shelf' = ShelfOf(Outcome')
                 PROVE  [Atomic!Next]_Atomic!vars
      BY DEF Truthful, ShelfOf
    <2>1. CASE Outcome' = Outcome
      BY <2>1 DEF Atomic!vars
    <2>2. CASE Outcome = "open" /\ Outcome' \in {"committed", "withdrawn"}
      BY <2>2 DEF Atomic!Next, Atomic!Commit, Atomic!Withdraw, ShelfOf
    <2>3. CASE Outcome = "committed" /\ Outcome' = "done"
      BY <2>3 DEF Atomic!Next, Atomic!Finish, ShelfOf
    <2>4. CASE Outcome = "withdrawn" /\ Outcome' = "open"
      BY <2>4 DEF Atomic!Next, Atomic!Retry, ShelfOf
    <2>5. CASE Outcome \in {"open", "committed"} /\ Outcome' = "attention"
      BY <2>5 DEF Atomic!Next, Atomic!GiveUp, ShelfOf
    <2>6. CASE Outcome = "attention" /\ Outcome' = "resolved"
      BY <2>6 DEF Atomic!Next, Atomic!Resolve, ShelfOf
    <2> QED
      BY <2>1, <2>2, <2>3, <2>4, <2>5, <2>6, StepAtomic
  <1> QED
    BY <1>1, <1>2, <1>3, <1>4, <1>5, PTL DEF Spec, AtomicallyPublished, Atomic!Spec
================================================================================
