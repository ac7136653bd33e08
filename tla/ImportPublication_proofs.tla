------------------------ MODULE ImportPublication_proofs ------------------------
(* Theorems about ImportPublication, for every number of files, callers,    *)
(* crashes, faults, foreign files and calls.                                *)
EXTENDS ImportPublication, TLAPS

--------------------------------------------------------------------------------
(* Types, in the pieces that the actions change together.                   *)

JournalRow == [state : RowStates, staged : BOOLEAN]
FileState == [src : BOOLEAN, temp : BOOLEAN, dest : Content, backup : Content,
              aside : BOOLEAN, bin : BOOLEAN, atemp : BOOLEAN,
              adest : {"none", "mine", "foreign"}]
Answers == {"none", "ok", "error", "refused", "cancelled"}
Local == [pc : PCs, at : Files, seen : BundleStates, rows : [Files -> JournalRow],
          fresh : SUBSET Files, prep : SUBSET Files,
          was : BOOLEAN, bad : BOOLEAN, failed : SUBSET Files, answer : Answers]

BundleType == bundle \in BundleStates /\ catalog \in BOOLEAN /\ booted \in BOOLEAN
RowsType   == rows \in [Files -> JournalRow]
FsType     == fs \in [Files -> FileState]
MeType     == me \in [Actors -> Local]
SpentType  == spent \in [crashes : Nat, faults : Nat, foreign : Nat, calls : Nat]
TypeInv    == BundleType /\ RowsType /\ FsType /\ MeType /\ SpentType

\* The parts of the type invariant together.
LEMMA TypeInvTypes == TypeInv <=> TypeOK
  BY DEF TypeInv, TypeOK, BundleType, RowsType, FsType, MeType, SpentType, JournalRow,
     FileState, Answers, Local

\* The places of an actor, one by one.
LEMMA AllPCs ==
  PCs = {"idle", "waiting", "check", "journals", "verdict", "attention", "escalate",
         "mark", "list", "refresh", "reread", "rollStart", "lockPublish", "lockRollback",
         "lockCleanup", "ensure", "prepare", "staged", "prepFailed",
         "boundary", "recheck", "publish", "backedUp", "moved", "placed", "commit",
         "roll", "rollDest", "rollArt", "rollRest", "rollTemp", "rollDone", "rollFinish",
         "clean", "cleanReplaced", "cleanFinish"}
  BY DEF PCs, Entered, PreparePCs, InCritical, InRollback, InCleanup

\* The states of the rows, one by one.
LEMMA AllStates ==
  /\ BundleStates = {"none", "preparing", "publishing", "rolled_back", "needs_attention",
                     "resolved", "catalog_committed", "cleanup_pending", "completed"}
  /\ RowStates = {"planned", "staged", "validated", "replacement_backed_up", "published",
                  "rollback_pending", "catalog_committed", "cleanup_pending", "completed",
                  "none", "rolled_back", "needs_attention", "resolved"}
  BY DEF BundleStates, RowStates, Committed, Undoable

\* The order of the files.
LEMMA Numbers ==
  /\ 1 \in Files /\ NFiles \in Files
  /\ \A f \in Files : f # NFiles => f + 1 \in Files
  /\ \A f \in Files : LowerAt(f) \in Files
  BY ConstantsOK DEF Files, LowerAt

\* Journal rows.
LEMMA RowTypes ==
  /\ NoRow \in JournalRow
  /\ \A s \in RowStates, b \in BOOLEAN : Row(s, b) \in JournalRow
  /\ \A r \in JournalRow, s \in RowStates : [r EXCEPT !.state = s] \in JournalRow
  BY AllStates DEF NoRow, Row, JournalRow

\* An actor that has just come in.
LEMMA BlankTypes ==
  /\ \A how \in Answers : Blank(how) \in Local
  /\ [Blank("none") EXCEPT !.pc = "escalate"] \in Local
  BY Numbers, AllPCs, AllStates, RowTypes DEF Blank, Local, Answers

\* The initial state is well typed.
LEMMA InitTypes == Init => TypeInv
  <1> SUFFICES ASSUME Init PROVE TypeInv
    OBVIOUS
  <1> USE DEF Init
  <1>1. BundleType
    BY AllStates DEF BundleType
  <1>2. RowsType
    BY RowTypes DEF RowsType
  <1>3. FsType
    <2>1. \A f \in Files : Before(f) \in Content
      BY DEF Before, Content
    <2> QED
      BY <2>1 DEF FsType, FileState, Content
  <1>4. MeType
    BY BlankTypes DEF MeType, Answers
  <1>5. SpentType
    BY DEF SpentType
  <1> QED
    BY <1>1, <1>2, <1>3, <1>4, <1>5 DEF TypeInv

--------------------------------------------------------------------------------
(* What the helpers do to the actors.                                       *)

Same(b) == /\ me'[b].pc = me[b].pc /\ me'[b].at = me[b].at /\ me'[b].seen = me[b].seen
           /\ me'[b].rows = me[b].rows /\ me'[b].answer = me[b].answer
Others(a) == \A b \in Actors \ {a} : Same(b)

\* a goes to pc and to the file at; it reads nothing.
Moved(a, pc, at) ==
  /\ me'[a].pc = pc /\ me'[a].at = at /\ me'[a].seen = me[a].seen
  /\ me'[a].rows = me[a].rows /\ me'[a].answer = me[a].answer
  /\ Others(a)

\* What going on does to an actor.
LEMMA GoDoes ==
  ASSUME MeType, NEW a \in Actors, NEW pc \in PCs, Go(a, pc)
  PROVE  MeType' /\ Moved(a, pc, me[a].at)
  <1> DEFINE new == [me[a] EXCEPT !.pc = pc]
  <1>1. me[a] \in Local /\ me' = [me EXCEPT ![a] = new]
    BY DEF Go, MeType
  <1>2. /\ new \in Local /\ new.pc = pc /\ new.at = me[a].at /\ new.seen = me[a].seen
        /\ new.rows = me[a].rows /\ new.answer = me[a].answer
    BY <1>1 DEF Local
  <1> HIDE DEF new
  <1> QED
    BY <1>1, <1>2 DEF MeType, Moved, Others, Same

\* What going on to another file does.
LEMMA GoAtDoes ==
  ASSUME MeType, NEW a \in Actors, NEW pc \in PCs, NEW at \in Files, GoAt(a, pc, at)
  PROVE  MeType' /\ Moved(a, pc, at)
  <1> DEFINE new == [me[a] EXCEPT !.pc = pc, !.at = at]
  <1>1. me[a] \in Local /\ me' = [me EXCEPT ![a] = new]
    BY DEF GoAt, MeType
  <1>2. /\ new \in Local /\ new.pc = pc /\ new.at = at /\ new.seen = me[a].seen
        /\ new.rows = me[a].rows /\ new.answer = me[a].answer
    BY <1>1 DEF Local
  <1> HIDE DEF new
  <1> QED
    BY <1>1, <1>2 DEF MeType, Moved, Others, Same

\* What leaving with an answer does.
LEMMA LeaveDoes ==
  ASSUME MeType, NEW a \in Actors, NEW how \in Answers, Leave(a, how)
  PROVE  MeType' /\ me'[a] = Blank(how) /\ me'[a].pc = "idle" /\ me'[a].seen = "none"
         /\ me'[a].answer = how /\ Others(a)
  BY BlankTypes DEF Leave, MeType, Others, Same, Blank

\* What writing a journal row does.
LEMMA StoredDoes ==
  ASSUME MeType, RowsType, NEW a \in Actors, NEW f \in Files, NEW row \in JournalRow,
         NEW pc \in PCs, NEW at \in Files, Stored(a, f, row, pc, at)
  PROVE  /\ MeType' /\ RowsType'
         /\ me'[a].pc = pc /\ me'[a].at = at /\ me'[a].seen = me[a].seen
         /\ me'[a].rows = [me[a].rows EXCEPT ![f] = row]
         /\ me'[a].answer = me[a].answer
         /\ Others(a)
         /\ rows' = [rows EXCEPT ![f] = row]
  <1>1. RowsType'
    BY DEF Stored, RowsType
  <1>2. [me[a] EXCEPT !.rows[f] = row, !.fresh = @ \union {f}, !.pc = pc, !.at = at] \in Local
    BY DEF MeType, Local
  <1>3. \A b \in Actors : [me[b] EXCEPT !.fresh = @ \ {f}] \in Local
    BY DEF MeType, Local
  <1>4. MeType'
    BY <1>2, <1>3 DEF Stored, MeType
  <1> QED
    BY <1>1, <1>4 DEF Stored, MeType, Local, Others, Same

\* What a transition of a journal row does.
LEMMA TransitionDoes ==
  ASSUME MeType, RowsType, NEW a \in Actors, NEW f \in Files, NEW s \in RowStates,
         NEW pc \in PCs, NEW at \in Files, Transition(a, f, s, pc, at)
  PROVE  /\ MeType' /\ RowsType'
         /\ me'[a].pc = pc /\ me'[a].at = at /\ me'[a].seen = me[a].seen
         /\ \A g \in Files \ {f} : me'[a].rows[g] = me[a].rows[g]
         /\ me'[a].rows[f].state = s
         /\ me'[a].answer = me[a].answer
         /\ Others(a)
  <1> DEFINE row == [rows[f] EXCEPT !.state = s]
  <1>1. row \in JournalRow /\ row.state = s
    BY RowTypes DEF RowsType, JournalRow
  <1>2. me[a].rows \in [Files -> JournalRow]
    BY DEF MeType, Local
  <1>3. Stored(a, f, row, pc, at)
    BY DEF Transition
  <1> HIDE DEF row
  <1>4. /\ MeType' /\ RowsType'
        /\ me'[a].pc = pc /\ me'[a].at = at /\ me'[a].seen = me[a].seen
        /\ me'[a].rows = [me[a].rows EXCEPT ![f] = row]
        /\ me'[a].answer = me[a].answer
        /\ Others(a)
    BY <1>1, <1>3, StoredDoes
  <1> QED
    BY <1>1, <1>2, <1>4

\* What reading the journal rows does.
LEMMA ListedDoes ==
  ASSUME MeType, RowsType, NEW a \in Actors, NEW pc \in PCs, NEW prep \in SUBSET Files,
         Listed(a, pc, prep)
  PROVE  /\ MeType' /\ me'[a].pc = pc /\ me'[a].at = 1 /\ me'[a].seen = me[a].seen
         /\ me'[a].rows = rows /\ me'[a].answer = me[a].answer /\ Others(a)
  <1> DEFINE new == [me[a] EXCEPT !.rows = rows, !.fresh = Files, !.prep = prep,
                                  !.pc = pc, !.at = 1, !.bad = FALSE, !.failed = {}]
  <1>1. me[a] \in Local
    BY DEF MeType
  <1>2. new \in Local
    BY <1>1, Numbers DEF RowsType, Local
  <1>3. /\ new.pc = pc /\ new.at = 1 /\ new.seen = me[a].seen /\ new.rows = rows
        /\ new.answer = me[a].answer
    BY <1>1 DEF Local
  <1>4. me' = [me EXCEPT ![a] = new]
    BY DEF Listed, MeType
  <1> HIDE DEF new
  <1> QED
    BY <1>2, <1>3, <1>4 DEF MeType, Others, Same

\* An actor whose local state is replaced by another.
LEMMA ReplacedDoes ==
  ASSUME MeType, NEW a \in Actors, NEW new \in Local, me' = [me EXCEPT ![a] = new]
  PROVE  MeType' /\ me'[a] = new /\ Others(a)
  BY DEF MeType, Others, Same

\* Updates of an actor's record are well typed.
LEMMA LocalUpdates ==
  ASSUME NEW l \in Local
  PROVE  /\ \A pc \in PCs, s \in BundleStates : [l EXCEPT !.pc = pc, !.seen = s] \in Local
         /\ \A p \in SUBSET Files, pc \in PCs, at \in Files :
              /\ [l EXCEPT !.prep = p, !.pc = pc, !.at = at] \in Local
              /\ [l EXCEPT !.failed = p, !.pc = pc, !.at = at] \in Local
         /\ \A r \in [Files -> JournalRow], q, p \in SUBSET Files, pc \in PCs :
              [l EXCEPT !.rows = r, !.fresh = q, !.prep = p, !.pc = pc] \in Local
         /\ \A b \in BOOLEAN, pc \in PCs : [l EXCEPT !.was = b, !.pc = pc] \in Local
         /\ \A b \in BOOLEAN, pc \in PCs, at \in Files :
              [l EXCEPT !.bad = b, !.pc = pc, !.at = at] \in Local
         /\ \A q \in SUBSET Files, pc \in PCs : [l EXCEPT !.fresh = q, !.pc = pc] \in Local
         /\ \A q \in SUBSET Files : [l EXCEPT !.fresh = q] \in Local
         /\ \A r \in [Files -> JournalRow], b \in BOOLEAN, pc \in PCs :
              [l EXCEPT !.rows = r, !.was = b, !.pc = pc] \in Local
         /\ \A r \in [Files -> JournalRow], b \in BOOLEAN, pc \in PCs, at \in Files :
              [l EXCEPT !.rows = r, !.bad = b, !.pc = pc, !.at = at] \in Local
  BY DEF Local

\* What an exception does to the actor that meets it.
LEMMA RaiseDoes ==
  ASSUME MeType, NEW a \in Actors, Raise(a)
  PROVE  /\ MeType' /\ Others(a) /\ me'[a].pc \in {"attention", "idle"}
         /\ me'[a].seen \in {"none", me[a].seen}
         /\ a = Recoverer => me'[a].pc = "attention" /\ me'[a].answer = me[a].answer
         /\ a # Recoverer => me'[a] = Blank("error")
  BY GoDoes, LeaveDoes, AllPCs DEF Raise, Moved, Answers

\* A file of the bundle keeps its type when one of its entries changes.
LEMMA FileTypes ==
  ASSUME FsType, NEW f \in Files
  PROVE  /\ fs[f] \in FileState
         /\ \A new \in FileState : [fs EXCEPT ![f] = new] \in [Files -> FileState]
         /\ fs[f].dest \in Content /\ fs[f].backup \in Content /\ fs[f].src \in BOOLEAN
         /\ fs[f].aside \in BOOLEAN /\ fs[f].bin \in BOOLEAN /\ fs[f].temp \in BOOLEAN
         /\ fs[f].atemp \in BOOLEAN /\ fs[f].adest \in {"none", "mine", "foreign"}
  BY DEF FsType, FileState

\* Updates of a file's entries are well typed.
LEMMA FileUpdates ==
  ASSUME NEW g \in FileState
  PROVE  /\ \A b, d \in BOOLEAN : [g EXCEPT !.temp = b, !.atemp = d] \in FileState
         /\ \A b \in BOOLEAN : /\ [g EXCEPT !.temp = b] \in FileState
                               /\ [g EXCEPT !.atemp = b] \in FileState
                               /\ [g EXCEPT !.src = b] \in FileState
         /\ \A x \in Content : [g EXCEPT !.dest = x] \in FileState
         /\ \A z \in {"none", "mine", "foreign"} : [g EXCEPT !.adest = z] \in FileState
         /\ \A b \in BOOLEAN, z \in {"none", "mine", "foreign"} :
              [g EXCEPT !.atemp = b, !.adest = z] \in FileState
         /\ \A x, y \in Content : [g EXCEPT !.dest = x, !.backup = y] \in FileState
         /\ \A b \in BOOLEAN, x \in Content : [g EXCEPT !.temp = b, !.dest = x] \in FileState
         /\ \A b \in BOOLEAN, x, y \in Content :
              [g EXCEPT !.atemp = b, !.backup = x, !.dest = y] \in FileState
         /\ \A x \in Content, b, d \in BOOLEAN :
              [g EXCEPT !.backup = x, !.aside = b, !.bin = d] \in FileState
  BY DEF FileState

\* What happens to the directories of one file.
LEMMA FileDoes ==
  ASSUME FsType, NEW f \in Files, NEW new \in FileState, fs' = [fs EXCEPT ![f] = new]
  PROVE  FsType' /\ fs'[f] = new /\ \A g \in Files \ {f} : fs'[g] = fs[g]
  BY DEF FsType

--------------------------------------------------------------------------------
(* Every step keeps the types, and an actor leaves the others where they    *)
(* are.                                                                     *)

\* What is left alone stays well typed.
LEMMA Frames ==
  ASSUME TypeInv
  PROVE  /\ bundle' = bundle /\ catalog' = catalog /\ booted' = booted => BundleType'
         /\ rows' = rows => RowsType'
         /\ fs' = fs => FsType'
         /\ me' = me => MeType'
         /\ spent' = spent => SpentType'
         /\ Fault => SpentType'
  BY DEF TypeInv, BundleType, RowsType, FsType, MeType, SpentType, Fault

\* Callers are actors.
LEMMA CallersAct == \A c \in Callers : c \in Actors
  BY DEF Actors

\* Recovery is an actor, and no caller.
LEMMA RecovererActs == Recoverer \in Actors /\ Recoverer \notin Callers
  BY ConstantsOK DEF Actors

\* Where an actor works, and on what.
LEMMA Locals ==
  ASSUME MeType, NEW a \in Actors
  PROVE  /\ me[a] \in Local /\ me[a].at \in Files /\ At(a) \in Files /\ me[a].pc \in PCs
         /\ me[a].seen \in BundleStates /\ me[a].rows \in [Files -> JournalRow]
         /\ me[a].fresh \in SUBSET Files /\ me[a].prep \in SUBSET Files
         /\ me[a].failed \in SUBSET Files /\ me[a].answer \in Answers
         /\ At(a) = me[a].at
  BY DEF MeType, Local, At

\* The steps of a caller that only take it to another place.
LEMMA PlainTypes ==
  ASSUME TypeInv, NEW c \in Callers,
         \/ Call(c) \/ Admit(c) \/ LockCancelled(c) \/ PublishFails(c) \/ Refresh(c)
         \/ LockPublish(c) \/ AlreadyPublished(c)
  PROVE  TypeInv' /\ Others(c)
  <1> USE Frames, AllPCs, CallersAct, Locals, Numbers DEF TypeInv
  <1>1. CASE Call(c)
    <2>1. Go(c, "waiting") /\ SpentType'
      BY <1>1 DEF Call, SpentType
    <2> QED
      BY <1>1, <2>1, GoDoes DEF Call, Moved
  <1>2. CASE Admit(c)
    BY <1>2, GoDoes DEF Admit, Moved
  <1>3. CASE LockCancelled(c)
    BY <1>3, GoDoes DEF LockCancelled, Moved
  <1>4. CASE PublishFails(c)
    BY <1>4, GoDoes DEF PublishFails, Moved
  <1>5. CASE Refresh(c)
    BY <1>5, GoDoes DEF Refresh, Moved
  <1>6. CASE LockPublish(c)
    BY <1>6, GoAtDoes DEF LockPublish, Moved
  <1>7. CASE AlreadyPublished(c)
    <2>1. /\ After(At(c)) \in PCs
          /\ (IF At(c) = NFiles THEN 1 ELSE At(c) + 1) \in Files
      BY DEF After
    <2> QED
      BY <1>7, <2>1, GoAtDoes DEF AlreadyPublished, Moved
  <1> QED
    BY <1>1, <1>2, <1>3, <1>4, <1>5, <1>6, <1>7

\* The steps of a caller before and after its work are well typed.
LEMMA EntryTypes ==
  ASSUME TypeInv, NEW c \in Callers,
         \/ EnsureBundle(c) \/ MarkPublishing(c) \/ ListJournals(c) \/ RereadBundle(c)
  PROVE  TypeInv' /\ Others(c)
  <1> USE Frames, AllPCs, AllStates, CallersAct, Locals DEF TypeInv
  <1>1. CASE EnsureBundle(c)
    <2>1. BundleType' /\ bundle' \in BundleStates
      BY <1>1 DEF EnsureBundle, BundleType
    <2>2. MeType' /\ Others(c)
      <3>1. \/ \E how \in {"ok", "refused"} : Leave(c, how)
            \/ \E pc \in {"lockCleanup", "list"} : Go(c, pc)
            \/ me' = [me EXCEPT ![c].pc = "mark", ![c].seen = bundle']
        BY <1>1, <2>1 DEF EnsureBundle, Committed
      <3>2. CASE \E how \in {"ok", "refused"} : Leave(c, how)
        BY <3>2, LeaveDoes DEF Answers
      <3>3. CASE \E pc \in {"lockCleanup", "list"} : Go(c, pc)
        BY <3>3, GoDoes DEF Moved
      <3>4. CASE me' = [me EXCEPT ![c].pc = "mark", ![c].seen = bundle']
        <4>1. [me[c] EXCEPT !.pc = "mark", !.seen = bundle'] \in Local
          <5>1. me[c] \in Local /\ "mark" \in PCs
            OBVIOUS
          <5>2. \A s \in BundleStates : [me[c] EXCEPT !.pc = "mark", !.seen = s] \in Local
            BY ONLY <5>1, LocalUpdates
          <5> QED
            BY <2>1, <5>2
        <4>2. me' = [me EXCEPT ![c] = [me[c] EXCEPT !.pc = "mark", !.seen = bundle']]
          BY <3>4 DEF MeType
        <4> QED
          BY <4>1, <4>2, ReplacedDoes
      <3> QED
        BY <3>1, <3>2, <3>3, <3>4
    <2> QED
      BY <1>1, <2>1, <2>2 DEF EnsureBundle
  <1>2. CASE MarkPublishing(c)
    <2>1. CASE bundle = me[c].seen
      BY <1>2, <2>1, GoDoes DEF MarkPublishing, Moved, BundleType
    <2>2. CASE bundle # me[c].seen
      BY <1>2, <2>2, LeaveDoes DEF MarkPublishing, Answers
    <2> QED
      BY <2>1, <2>2
  <1>3. CASE ListJournals(c)
    BY <1>3, ListedDoes DEF ListJournals
  <1>4. CASE RereadBundle(c)
    <2>1. CASE bundle = "completed"
      BY <1>4, <2>1, LeaveDoes DEF RereadBundle, Answers
    <2>2. CASE bundle # "completed"
      BY <1>4, <2>2, GoDoes DEF RereadBundle, Moved
    <2> QED
      BY <2>1, <2>2
  <1> QED
    BY <1>1, <1>2, <1>3, <1>4

\* A compare-and-swap of a journal row is well typed.
LEMMA SwapTypes ==
  ASSUME TypeInv, NEW c \in Callers, NEW f \in Files, NEW s \in RowStates, NEW pc \in PCs,
         Swap(c, f, s, pc)
  PROVE  TypeInv' /\ Others(c)
  <1> USE Frames, AllPCs, CallersAct DEF TypeInv, Swap
  <1>1. CASE Current(c, f)
    BY <1>1, TransitionDoes
  <1>2. CASE ~Current(c, f)
    BY <1>2, GoDoes DEF Moved
  <1> QED
    BY <1>1, <1>2

\* The steps of preparation are well typed.
LEMMA PrepareTypes ==
  ASSUME TypeInv, NEW c \in Callers, NEW f \in Files, PrepareImportFile(c, f)
  PROVE  TypeInv' /\ Others(c)
  <1> USE Frames, AllPCs, AllStates, CallersAct, Locals, Numbers, RowTypes DEF TypeInv
  <1>1. CASE Replan(c, f)
    BY <1>1, SwapTypes DEF Replan
  <1>2. CASE PlanFile(c, f)
    <2>1. \/ Stored(c, f, Row("planned", FALSE), "prepare", f)
          \/ Go(c, "prepFailed") /\ UNCHANGED rows
      BY <1>2 DEF PlanFile
    <2>2. CASE Stored(c, f, Row("planned", FALSE), "prepare", f)
      BY <1>2, <2>2, StoredDoes DEF PlanFile
    <2>3. CASE Go(c, "prepFailed") /\ UNCHANGED rows
      BY <1>2, <2>3, GoDoes DEF PlanFile, Moved
    <2> QED
      BY <2>1, <2>2, <2>3
  <1>3. CASE Stage(c, f)
    <2>1. [fs[f] EXCEPT !.temp = TRUE, !.atemp = f \in Artworks] \in FileState
      <3>1. \A b \in BOOLEAN : [fs[f] EXCEPT !.temp = TRUE, !.atemp = b] \in FileState
        BY ONLY FsType, FileTypes, FileUpdates
      <3>2. (f \in Artworks) \in BOOLEAN
        OBVIOUS
      <3> QED
        BY <3>1, <3>2
    <2>2. fs' = [fs EXCEPT ![f] = [fs[f] EXCEPT !.temp = TRUE, !.atemp = f \in Artworks]]
      BY <1>3 DEF Stage, FsType
    <2>3. FsType'
      BY <2>1, <2>2 DEF FsType
    <2> QED
      BY <1>3, <2>3, GoDoes DEF Stage, Moved
  <1>4. CASE StageFails(c, f)
    <2>1. [fs[f] EXCEPT !.atemp = f \in Artworks] \in FileState
      <3>1. \A b \in BOOLEAN : [fs[f] EXCEPT !.atemp = b] \in FileState
        BY ONLY FsType, FileTypes, FileUpdates
      <3>2. (f \in Artworks) \in BOOLEAN
        OBVIOUS
      <3> QED
        BY <3>1, <3>2
    <2>2. FsType' /\ SpentType'
      BY <1>4, <2>1 DEF StageFails, FsType
    <2> QED
      BY <1>4, <2>2, GoDoes DEF StageFails, Moved
  <1>5. CASE Validate(c, f)
    <2>1. CASE fs[f].temp
      BY <1>5, <2>1, SwapTypes DEF Validate
    <2>2. CASE ~fs[f].temp
      BY <1>5, <2>2, GoDoes DEF Validate, Moved
    <2> QED
      BY <2>1, <2>2
  <1>6. CASE Prepared(c, f)
    <2>1. me' = [me EXCEPT ![c].prep = @ \union {f},
                      ![c].pc = IF f = NFiles THEN "lockPublish" ELSE @,
                      ![c].at = IF f = NFiles THEN 1 ELSE @ + 1] /\ f = At(c)
      BY <1>6 DEF Prepared, Preparing
    <2>2. (IF f = NFiles THEN 1 ELSE me[c].at + 1) \in Files
      BY <2>1 DEF At
    <2> DEFINE new == [me[c] EXCEPT !.prep = @ \union {f},
                         !.pc = IF f = NFiles THEN "lockPublish" ELSE @,
                         !.at = IF f = NFiles THEN 1 ELSE @ + 1]
    <2>3. new \in Local
      <3>1. /\ me[c].prep \union {f} \in SUBSET Files /\ me[c] \in Local
            /\ (IF f = NFiles THEN "lockPublish" ELSE me[c].pc) \in PCs
        OBVIOUS
      <3>2. \A p \in SUBSET Files, pc \in PCs, at \in Files :
              [me[c] EXCEPT !.prep = p, !.pc = pc, !.at = at] \in Local
        BY ONLY <3>1, LocalUpdates
      <3> QED
        BY ONLY <2>2, <3>1, <3>2
    <2>4. me' = [me EXCEPT ![c] = new]
      BY <2>1 DEF MeType
    <2>5. MeType' /\ Others(c)
      BY <2>3, <2>4, ReplacedDoes
    <2> QED
      BY <1>6, <2>5 DEF Prepared
  <1>7. CASE Unpublishable(c, f)
    BY <1>7, GoDoes DEF Unpublishable, Moved
  <1> QED
    BY <1>1, <1>2, <1>3, <1>4, <1>5, <1>6, <1>7 DEF PrepareImportFile

\* Recording the staged copy, or that preparation failed, is well typed.
LEMMA StagedTypes ==
  ASSUME TypeInv, NEW c \in Callers, JournalStaged(c) \/ PreparationFailed(c)
  PROVE  TypeInv' /\ Others(c)
  <1> USE Frames, AllPCs, AllStates, CallersAct, Locals, RowTypes DEF TypeInv
  <1>1. CASE JournalStaged(c)
    <2>1. CASE Current(c, At(c))
      <3>1. Stored(c, At(c), Row("staged", TRUE), "prepare", At(c))
        BY <1>1, <2>1 DEF JournalStaged
      <3>2. Row("staged", TRUE) \in JournalRow
        BY ONLY RowTypes, AllStates
      <3>3. MeType /\ RowsType /\ c \in Actors /\ At(c) \in Files /\ "prepare" \in PCs
        OBVIOUS
      <3>4. MeType' /\ RowsType' /\ Others(c)
        BY ONLY <3>1, <3>2, <3>3, StoredDoes
      <3> QED
        BY <1>1, <3>4 DEF JournalStaged
    <2>2. CASE ~Current(c, At(c))
      BY <1>1, <2>2, GoDoes DEF JournalStaged, Moved
    <2> QED
      BY <2>1, <2>2
  <1>2. CASE PreparationFailed(c)
    <2>1. [f \in Files |-> IF f \in me[c].prep THEN me[c].rows[f] ELSE rows[f]]
            \in [Files -> JournalRow]
      BY DEF RowsType
    <2> DEFINE read == [f \in Files |-> IF f \in me[c].prep THEN me[c].rows[f] ELSE rows[f]]
               new == [me[c] EXCEPT !.rows = read, !.fresh = @ \union (Files \ me[c].prep),
                                    !.prep = @ \union Journaled, !.pc = "rollStart"]
    <2>2. read \in [Files -> JournalRow]
      BY <2>1
    <2> HIDE DEF read
    <2>3. new \in Local
      <3>1. me[c].fresh \union (Files \ me[c].prep) \in SUBSET Files
        OBVIOUS
      <3>2. me[c].prep \union Journaled \in SUBSET Files
        BY DEF Journaled
      <3>3. me[c] \in Local /\ "rollStart" \in PCs
        OBVIOUS
      <3> QED
        BY ONLY <2>2, <3>1, <3>2, <3>3, LocalUpdates
    <2>4. me' = [me EXCEPT ![c] = new]
      BY <1>2 DEF PreparationFailed, MeType, read
    <2>5. MeType' /\ Others(c)
      BY <2>3, <2>4, ReplacedDoes
    <2> QED
      BY <1>2, <2>5 DEF PreparationFailed
  <1> QED
    BY <1>1, <1>2

\* What placing the artwork does to a file's entries.
LEMMA CoverPlacedDoes ==
  ASSUME FsType, NEW f \in Files, fs' = CoverPlaced(f)
  PROVE  /\ FsType' /\ \A g \in Files \ {f} : fs'[g] = fs[g]
         /\ fs'[f].dest = fs[f].dest /\ fs'[f].backup = fs[f].backup
         /\ fs'[f].src = fs[f].src /\ fs'[f].aside = fs[f].aside /\ fs'[f].bin = fs[f].bin
  <1> DEFINE z == IF f \in Artworks THEN "mine" ELSE fs[f].adest
             new == [fs[f] EXCEPT !.atemp = FALSE, !.adest = z]
  <1>1. fs[f] \in FileState /\ z \in {"none", "mine", "foreign"}
    BY FileTypes
  <1> HIDE DEF z
  <1>2. new \in FileState
    BY ONLY <1>1, FileUpdates
  <1>3. /\ new.dest = fs[f].dest /\ new.backup = fs[f].backup /\ new.src = fs[f].src
        /\ new.aside = fs[f].aside /\ new.bin = fs[f].bin
    BY <1>1 DEF FileState
  <1>4. fs' = [fs EXCEPT ![f] = new]
    BY DEF CoverPlaced, FsType, z
  <1> HIDE DEF new
  <1> QED
    BY <1>2, <1>3, <1>4, FileDoes

\* The boundary check is well typed.
LEMMA BoundaryTypes ==
  ASSUME TypeInv, NEW c \in Callers, Boundary(c)
  PROVE  TypeInv' /\ Others(c)
  <1> DEFINE f == At(c)
             next == IF f = NFiles THEN "recheck" ELSE "boundary"
             then == IF f = NFiles THEN 1 ELSE f + 1
  <1>1. /\ f \in Files /\ next \in PCs /\ then \in Files /\ "refresh" \in PCs /\ c \in Actors
        /\ "published" \in RowStates /\ "replacement_backed_up" \in RowStates
    BY Locals, Numbers, AllPCs, AllStates, CallersAct DEF TypeInv
  <1>2. /\ fs' = CoverPlaced(f) \/ fs' = fs
        /\ \/ \E s \in {"published", "replacement_backed_up"} : Transition(c, f, s, next, then)
           \/ Go(c, "refresh") /\ UNCHANGED rows
           \/ GoAt(c, next, then) /\ UNCHANGED rows
        /\ UNCHANGED <<bundle, catalog, booted, spent>>
    BY DEF Boundary
  <1> HIDE DEF f, next, then
  <1>3. FsType'
    BY <1>1, <1>2, Frames, CoverPlacedDoes DEF TypeInv
  <1>4. MeType' /\ RowsType' /\ Others(c)
    <2>1. CASE \E s \in {"published", "replacement_backed_up"} : Transition(c, f, s, next, then)
      BY <1>1, <2>1, TransitionDoes DEF TypeInv
    <2>2. CASE Go(c, "refresh") /\ UNCHANGED rows
      BY <1>1, <2>2, GoDoes, Frames DEF TypeInv, Moved
    <2>3. CASE GoAt(c, next, then) /\ UNCHANGED rows
      BY <1>1, <2>3, GoAtDoes, Frames DEF TypeInv, Moved
    <2> QED
      BY <1>2, <2>1, <2>2, <2>3
  <1> QED
    BY <1>2, <1>3, <1>4, Frames DEF TypeInv

\* The second check is well typed.
LEMMA RecheckTypes ==
  ASSUME TypeInv, NEW c \in Callers, Recheck(c)
  PROVE  TypeInv' /\ Others(c)
  <1>1. c \in Actors /\ {"publish", "refresh"} \subseteq PCs /\ 1 \in Files
    BY Numbers, AllPCs, CallersAct
  <1>2. CASE \A f \in Files : FileOK(c, f)
    <2>1. \A f \in Files : [fs[f] EXCEPT !.atemp = FALSE] \in FileState /\ fs[f] \in FileState
      BY FileTypes, FileUpdates DEF TypeInv
    <2>2. FsType'
      BY <1>2, <2>1 DEF Recheck, FsType
    <2> QED
      BY <1>1, <1>2, <2>2, GoAtDoes, Frames DEF Recheck, Moved, TypeInv
  <1>3. CASE ~\A f \in Files : FileOK(c, f)
    BY <1>1, <1>3, GoDoes, Frames DEF Recheck, Moved, TypeInv
  <1> QED
    BY <1>2, <1>3

\* The steps on a file's entries are well typed.
LEMMA PublishTypes ==
  ASSUME TypeInv, NEW c \in Callers, BackUp(c) \/ Move(c) \/ PublishArtifacts(c)
  PROVE  TypeInv' /\ Others(c)
  <1> DEFINE f == At(c)
  <1>1. /\ c \in Actors /\ {"refresh", "backedUp", "moved", "placed"} \subseteq PCs
        /\ f \in Files /\ fs[f] \in FileState /\ fs[f].dest \in Content /\ FALSE \in BOOLEAN
        /\ {"none", "new"} \subseteq Content
    BY Locals, AllPCs, CallersAct, FileTypes DEF TypeInv, Content
  <1>2. /\ \/ fs' = fs
           \/ fs' = [fs EXCEPT ![f].dest = "none", ![f].backup = fs[f].dest]
           \/ fs' = [fs EXCEPT ![f].temp = FALSE, ![f].dest = "new"]
           \/ fs' = CoverPlaced(f)
        /\ \E pc \in {"refresh", "backedUp", "moved", "placed"} : Go(c, pc)
        /\ UNCHANGED <<bundle, rows, catalog, booted, spent>>
    BY DEF BackUp, Move, PublishArtifacts
  <1> HIDE DEF f
  <1>3. FsType'
    <2>1. CASE fs' = [fs EXCEPT ![f].dest = "none", ![f].backup = fs[f].dest]
      <3>1. [fs[f] EXCEPT !.dest = "none", !.backup = fs[f].dest] \in FileState
        BY ONLY <1>1, FileUpdates
      <3> QED
        BY <2>1, <3>1, <1>1 DEF TypeInv, FsType
    <2>2. CASE fs' = [fs EXCEPT ![f].temp = FALSE, ![f].dest = "new"]
      <3>1. [fs[f] EXCEPT !.temp = FALSE, !.dest = "new"] \in FileState
        BY ONLY <1>1, FileUpdates
      <3> QED
        BY <2>2, <3>1, <1>1 DEF TypeInv, FsType
    <2> QED
      BY <1>1, <1>2, <2>1, <2>2, CoverPlacedDoes, Frames DEF TypeInv
  <1> QED
    BY <1>1, <1>2, <1>3, GoDoes, Frames DEF TypeInv, Moved

\* The steps on a file's row are well typed.
LEMMA JournalTypes ==
  ASSUME TypeInv, NEW c \in Callers, JournalBackUp(c) \/ JournalPublished(c)
  PROVE  TypeInv' /\ Others(c)
  <1> DEFINE f == At(c)
             then == IF f = NFiles THEN 1 ELSE f + 1
  <1>1. /\ c \in Actors /\ {"refresh", "publish", After(f)} \subseteq PCs
        /\ f \in Files /\ then \in Files
        /\ {"replacement_backed_up", "published"} \subseteq RowStates
    BY Locals, AllPCs, AllStates, CallersAct, Numbers DEF TypeInv, After
  <1>2. /\ \/ Transition(c, f, "replacement_backed_up", "publish", f)
           \/ Transition(c, f, "published", After(f), then)
           \/ Go(c, "refresh") /\ UNCHANGED rows
        /\ UNCHANGED <<bundle, catalog, fs, booted, spent>>
    BY DEF JournalBackUp, JournalPublished, ToRefresh
  <1> HIDE DEF f, then
  <1>3. MeType' /\ RowsType' /\ Others(c)
    <2>1. CASE Transition(c, f, "replacement_backed_up", "publish", f)
      BY <1>1, <2>1, TransitionDoes DEF TypeInv
    <2>2. CASE Transition(c, f, "published", After(f), then)
      BY <1>1, <2>2, TransitionDoes DEF TypeInv
    <2>3. CASE Go(c, "refresh") /\ UNCHANGED rows
      BY <1>1, <2>3, GoDoes, Frames DEF TypeInv, Moved
    <2> QED
      BY <1>2, <2>1, <2>2, <2>3
  <1> QED
    BY <1>2, <1>3, Frames DEF TypeInv

\* The commit is well typed.
LEMMA CommitTypes ==
  ASSUME TypeInv, NEW c \in Callers, Commit(c)
  PROVE  TypeInv' /\ Others(c)
  <1>1. c \in Actors /\ {"refresh", "reread"} \subseteq PCs
    BY AllPCs, CallersAct
  <1>2. CASE Go(c, "refresh") /\ UNCHANGED <<bundle, catalog, rows>>
    <2>1. Fault \/ UNCHANGED spent
      BY <1>2 DEF Commit
    <2> QED
      BY <1>1, <1>2, <2>1, GoDoes, Frames DEF Commit, TypeInv, Moved
  <1>3. CASE /\ bundle' = "catalog_committed" /\ catalog' = TRUE
             /\ rows' = [f \in Files |-> [rows[f] EXCEPT !.state = "catalog_committed"]]
             /\ \E pc \in {"reread", "refresh"} :
                  /\ me' = [a \in Actors |-> [me[a] EXCEPT !.fresh = {},
                                                !.pc = IF a = c THEN pc ELSE @]]
                  /\ IF pc = "refresh" THEN Fault ELSE UNCHANGED spent
             /\ UNCHANGED <<fs, booted>>
    <2>1. BundleType' /\ SpentType' /\ FsType'
      BY <1>3, AllStates, Frames DEF BundleType, TypeInv
    <2>2. RowsType'
      BY <1>3, RowTypes, AllStates DEF RowsType, TypeInv
    <2>3. PICK pc \in {"reread", "refresh"} :
            me' = [a \in Actors |-> [me[a] EXCEPT !.fresh = {}, !.pc = IF a = c THEN pc ELSE @]]
      BY <1>3
    <2>4. \A a \in Actors : [me[a] EXCEPT !.fresh = {}, !.pc = IF a = c THEN pc ELSE @] \in Local
      BY <1>1, <2>3 DEF TypeInv, MeType, Local
    <2>5. MeType' /\ Others(c)
      BY <2>3, <2>4 DEF TypeInv, MeType, Local, Others, Same
    <2> QED
      BY <2>1, <2>2, <2>5 DEF TypeInv
  <1> QED
    BY <1>2, <1>3 DEF Commit

\* Where the rollback goes after a file.
LEMMA LowerTypes ==
  ASSUME NEW f \in Files
  PROVE  Lower(f) \in PCs /\ LowerAt(f) \in Files /\ Lower(f) \in {"roll", "rollFinish"}
  BY Numbers, AllPCs DEF Lower

\* What giving a file up does.
LEMMA RollGivesUpDoes ==
  ASSUME TypeInv, NEW a \in Actors, RollGivesUp(a)
  PROVE  /\ MeType' /\ RowsType' /\ BundleType' /\ Others(a)
         /\ me'[a].pc = Lower(At(a)) /\ me'[a].at = LowerAt(At(a))
         /\ me'[a].seen = me[a].seen /\ me'[a].answer = me[a].answer
         /\ bundle' = bundle /\ catalog' = catalog /\ booted' = booted
  <1> DEFINE f == At(a)
             row == [rows[f] EXCEPT !.state = "needs_attention"]
             mine == [me[a].rows[f] EXCEPT !.state = "needs_attention"]
  <1>1. /\ f \in Files /\ Lower(f) \in PCs /\ LowerAt(f) \in Files /\ TRUE \in BOOLEAN
        /\ me[a] \in Local /\ me[a].rows \in [Files -> JournalRow]
        /\ row \in JournalRow /\ mine \in JournalRow
        /\ \A b \in Actors : [me[b] EXCEPT !.fresh = @ \ {f}] \in Local
    <2>1. f \in Files /\ me[a] \in Local /\ me[a].rows \in [Files -> JournalRow]
      BY Locals DEF TypeInv
    <2>2. row \in JournalRow /\ mine \in JournalRow
      BY <2>1, RowTypes, AllStates DEF TypeInv, RowsType
    <2>3. \A b \in Actors : [me[b] EXCEPT !.fresh = @ \ {f}] \in Local
      BY DEF TypeInv, MeType, Local
    <2> QED
      BY <2>1, <2>2, <2>3, LowerTypes
  <1>2. UNCHANGED <<bundle, catalog, booted>> /\ BundleType'
    BY Frames DEF RollGivesUp, TypeInv
  <1>3. CASE Current(a, f)
    <2> DEFINE new == [me[a] EXCEPT !.rows = [me[a].rows EXCEPT ![f] = mine], !.bad = TRUE,
                                    !.pc = Lower(f), !.at = LowerAt(f)]
    <2>1. [me[a].rows EXCEPT ![f] = mine] \in [Files -> JournalRow]
      BY <1>1
    <2>2. new \in Local
      BY ONLY <1>1, <2>1, LocalUpdates
    <2>3. me' = [b \in Actors |-> IF b = a THEN new ELSE [me[b] EXCEPT !.fresh = @ \ {f}]]
      BY <1>1, <1>3 DEF RollGivesUp, Local
    <2>4. /\ new.pc = Lower(f) /\ new.at = LowerAt(f) /\ new.seen = me[a].seen
          /\ new.answer = me[a].answer
      BY <1>1 DEF Local
    <2>5. MeType'
      BY <1>1, <2>2, <2>3 DEF MeType
    <2>6. Others(a)
      BY <2>3 DEF Others, Same, TypeInv, MeType, Local
    <2>7. RowsType'
      BY <1>1, <1>3 DEF RollGivesUp, RowsType, TypeInv
    <2> QED
      BY <1>2, <2>3, <2>4, <2>5, <2>6, <2>7
  <1>4. CASE ~Current(a, f)
    <2> DEFINE new == [me[a] EXCEPT !.bad = TRUE, !.pc = Lower(f), !.at = LowerAt(f)]
    <2>1. new \in Local
      BY ONLY <1>1, LocalUpdates
    <2>2. me' = [me EXCEPT ![a] = new] /\ rows' = rows
      BY <1>4 DEF RollGivesUp, TypeInv, MeType
    <2>3. /\ new.pc = Lower(f) /\ new.at = LowerAt(f) /\ new.seen = me[a].seen
          /\ new.answer = me[a].answer
      BY <1>1 DEF Local
    <2> HIDE DEF new
    <2> QED
      BY <1>2, <2>1, <2>2, <2>3, ReplacedDoes, Frames DEF TypeInv
  <1> QED
    BY <1>3, <1>4

\* What marking a file for rollback does.
LEMMA RollMarkDoes ==
  ASSUME TypeInv, NEW a \in Actors, RollMark(a)
  PROVE  /\ TypeInv' /\ Others(a)
         /\ me'[a].seen = me[a].seen /\ me'[a].answer = me[a].answer
         /\ me'[a].pc \in {"rollDest", "roll", "rollFinish"}
         /\ bundle' = bundle /\ catalog' = catalog /\ booted' = booted /\ fs' = fs
  <1> DEFINE f == At(a)
             was == WasPublished(a, f)
             row == [rows[f] EXCEPT !.state = "rollback_pending"]
             mine == [me[a].rows[f] EXCEPT !.state = "rollback_pending"]
  <1>1. /\ f \in Files /\ {Lower(f), "rollDest"} \subseteq PCs /\ LowerAt(f) \in Files
        /\ TRUE \in BOOLEAN /\ was \in BOOLEAN /\ Lower(f) \in {"roll", "rollFinish"}
        /\ me[a] \in Local /\ me[a].rows \in [Files -> JournalRow]
        /\ row \in JournalRow /\ mine \in JournalRow
        /\ \A b \in Actors : [me[b] EXCEPT !.fresh = @ \ {f}] \in Local
    <2>1. f \in Files /\ me[a] \in Local /\ me[a].rows \in [Files -> JournalRow]
      BY Locals DEF TypeInv
    <2>2. row \in JournalRow /\ mine \in JournalRow
      BY <2>1, RowTypes, AllStates DEF TypeInv, RowsType
    <2>3. \A b \in Actors : [me[b] EXCEPT !.fresh = @ \ {f}] \in Local
      BY DEF TypeInv, MeType, Local
    <2>4. was \in BOOLEAN
      <3>1. me[a].rows[f].staged \in BOOLEAN
        BY <2>1 DEF JournalRow
      <3> QED
        BY <3>1 DEF WasPublished, Exact
    <2> QED
      BY <2>1, <2>2, <2>3, <2>4, LowerTypes, AllPCs
  <1>2. UNCHANGED <<bundle, catalog, fs, booted, spent>>
    BY DEF RollMark
  <1>3. /\ rows' = rows \/ rows' = [rows EXCEPT ![f] = row]
        /\ \/ me' = [me EXCEPT ![a] = [me[a] EXCEPT !.was = was, !.pc = "rollDest"]]
           \/ me' = [b \in Actors |->
                       IF b = a
                       THEN [me[a] EXCEPT !.rows = [me[a].rows EXCEPT ![f] = mine],
                                          !.was = was, !.pc = "rollDest"]
                       ELSE [me[b] EXCEPT !.fresh = @ \ {f}]]
           \/ me' = [me EXCEPT ![a] = [me[a] EXCEPT !.bad = TRUE, !.pc = Lower(f),
                                                    !.at = LowerAt(f)]]
    BY <1>1 DEF RollMark, TypeInv, MeType, RowsType, Local
  <1> HIDE DEF was, mine, row
  <1>4. RowsType'
    BY <1>1, <1>3 DEF RowsType, TypeInv
  <1>5. /\ MeType' /\ Others(a) /\ me'[a].seen = me[a].seen /\ me'[a].answer = me[a].answer
        /\ me'[a].pc \in {"rollDest", "roll", "rollFinish"}
    <2>1. CASE me' = [me EXCEPT ![a] = [me[a] EXCEPT !.was = was, !.pc = "rollDest"]]
      <3> DEFINE new == [me[a] EXCEPT !.was = was, !.pc = "rollDest"]
      <3>1. new \in Local
        <4>1. "rollDest" \in PCs
          BY <1>1
        <4> QED
          BY ONLY <1>1, <4>1, LocalUpdates
      <3>2. new.pc = "rollDest" /\ new.seen = me[a].seen /\ new.answer = me[a].answer
        BY <1>1 DEF Local
      <3> HIDE DEF new
      <3> QED
        BY <2>1, <3>1, <3>2, ReplacedDoes DEF TypeInv, new
    <2>2. CASE me' = [b \in Actors |->
                       IF b = a
                       THEN [me[a] EXCEPT !.rows = [me[a].rows EXCEPT ![f] = mine],
                                          !.was = was, !.pc = "rollDest"]
                       ELSE [me[b] EXCEPT !.fresh = @ \ {f}]]
      <3> DEFINE new == [me[a] EXCEPT !.rows = [me[a].rows EXCEPT ![f] = mine],
                                      !.was = was, !.pc = "rollDest"]
      <3>1. new \in Local
        <4>1. "rollDest" \in PCs /\ [me[a].rows EXCEPT ![f] = mine] \in [Files -> JournalRow]
          BY <1>1
        <4> QED
          BY ONLY <1>1, <4>1, LocalUpdates
      <3>2. new.pc = "rollDest" /\ new.seen = me[a].seen /\ new.answer = me[a].answer
        BY <1>1 DEF Local
      <3>3. me' = [b \in Actors |-> IF b = a THEN new ELSE [me[b] EXCEPT !.fresh = @ \ {f}]]
        BY <2>2
      <3> HIDE DEF new
      <3>4. MeType'
        BY <1>1, <3>1, <3>3 DEF MeType
      <3>5. Others(a)
        BY <3>3 DEF Others, Same, TypeInv, MeType, Local
      <3> QED
        BY <3>2, <3>3, <3>4, <3>5
    <2>3. CASE me' = [me EXCEPT ![a] = [me[a] EXCEPT !.bad = TRUE, !.pc = Lower(f),
                                                     !.at = LowerAt(f)]]
      <3> DEFINE new == [me[a] EXCEPT !.bad = TRUE, !.pc = Lower(f), !.at = LowerAt(f)]
      <3>1. new \in Local
        <4>1. Lower(f) \in PCs
          BY <1>1
        <4> QED
          BY ONLY <1>1, <4>1, LocalUpdates
      <3>2. new.pc = Lower(f) /\ new.seen = me[a].seen /\ new.answer = me[a].answer
        BY <1>1 DEF Local
      <3> HIDE DEF new
      <3> QED
        BY <1>1, <2>3, <3>1, <3>2, ReplacedDoes DEF TypeInv, new
    <2> QED
      BY <1>3, <2>1, <2>2, <2>3
  <1> QED
    BY <1>2, <1>4, <1>5, Frames DEF TypeInv

\* The directory operations of a rollback.
LEMMA RollFsTypes ==
  ASSUME TypeInv, NEW a \in Actors, RollDest(a) \/ RollArt(a) \/ RollRest(a) \/ RollTemp(a)
  PROVE  /\ FsType' /\ \A g \in Files \ {At(a)} : fs'[g] = fs[g]
         /\ \/ RollGivesUp(a) /\ UNCHANGED spent
            \/ /\ \E pc \in {"rollArt", "rollRest", "rollTemp", "rollDone"} : Go(a, pc)
               /\ UNCHANGED <<bundle, rows, catalog, booted, spent>>
  <1> DEFINE f == At(a)
  <1>1. /\ f \in Files /\ fs[f] \in FileState /\ FALSE \in BOOLEAN /\ fs[f].dest \in Content
        /\ {"none", "old"} \subseteq Content
    BY Locals, FileTypes DEF TypeInv, Content
  <1>2. /\ [fs[f] EXCEPT !.dest = "none"] \in FileState
        /\ [fs[f] EXCEPT !.adest = "none"] \in FileState
        /\ [fs[f] EXCEPT !.atemp = FALSE] \in FileState
        /\ [fs[f] EXCEPT !.temp = FALSE] \in FileState
    <2>1. "none" \in Content /\ "none" \in {"none", "mine", "foreign"}
      BY <1>1
    <2> QED
      BY ONLY <1>1, <2>1, FileUpdates
  <1>3. [fs[f] EXCEPT !.atemp = FALSE, !.backup = "none",
                      !.dest = IF fs[f].backup = "old" THEN "old" ELSE @] \in FileState
    <2>1. "none" \in Content /\ (IF fs[f].backup = "old" THEN "old" ELSE fs[f].dest) \in Content
      BY <1>1
    <2> QED
      BY ONLY <1>1, <2>1, FileUpdates
  <1>4. \/ fs' = fs
        \/ fs' = [fs EXCEPT ![f] = [fs[f] EXCEPT !.dest = "none"]]
        \/ fs' = [fs EXCEPT ![f] = [fs[f] EXCEPT !.adest = "none"]]
        \/ fs' = [fs EXCEPT ![f] = [fs[f] EXCEPT !.atemp = FALSE]]
        \/ fs' = [fs EXCEPT ![f] = [fs[f] EXCEPT !.temp = FALSE]]
        \/ fs' = [fs EXCEPT ![f] = [fs[f] EXCEPT !.atemp = FALSE, !.backup = "none",
                              !.dest = IF fs[f].backup = "old" THEN "old" ELSE @]]
    BY <1>1 DEF RollDest, RollArt, RollRest, RollTemp, TypeInv, FsType
  <1>5. FsType' /\ \A g \in Files \ {f} : fs'[g] = fs[g]
    BY <1>1, <1>2, <1>3, <1>4 DEF FsType, TypeInv
  <1> QED
    BY <1>5 DEF RollDest, RollArt, RollRest, RollTemp

\* The steps of the rollback inside the locks are well typed.
LEMMA RollTypes ==
  ASSUME TypeInv, NEW a \in Actors, RollbackImportBundle(a) \/ RollFails(a)
  PROVE  TypeInv' /\ Others(a)
  <1>1. /\ {"rollArt", "rollRest", "rollTemp", "rollDone", "verdict"} \subseteq PCs
        /\ At(a) \in Files /\ Lower(At(a)) \in PCs /\ LowerAt(At(a)) \in Files
        /\ "rolled_back" \in RowStates /\ "error" \in Answers
    BY AllPCs, AllStates, Locals, LowerTypes DEF TypeInv, Answers
  <1>2. CASE RollSkip(a)
    BY <1>1, <1>2, GoAtDoes, Frames DEF RollSkip, TypeInv, Moved
  <1>3. CASE RollMark(a)
    BY <1>3, RollMarkDoes
  <1>4. CASE RollDest(a) \/ RollArt(a) \/ RollRest(a) \/ RollTemp(a)
    BY <1>1, <1>4, RollFsTypes, RollGivesUpDoes, GoDoes, Frames DEF TypeInv, Moved
  <1>5. CASE RollDone(a)
    <2>1. CASE Current(a, At(a))
      <3>1. MeType' /\ RowsType' /\ Others(a)
        BY <1>1, <1>5, <2>1, TransitionDoes DEF RollDone, TypeInv
      <3> QED
        BY <1>5, <2>1, <3>1, Frames DEF RollDone, TypeInv
    <2>2. CASE ~Current(a, At(a))
      BY <1>5, <2>2, RollGivesUpDoes, Frames DEF RollDone, TypeInv
    <2> QED
      BY <2>1, <2>2
  <1>6. CASE RollFails(a)
    BY <1>6, RollGivesUpDoes, Frames DEF RollFails, TypeInv
  <1>7. CASE RollFinish(a)
    <2>1. BundleType'
      BY <1>7, AllStates DEF RollFinish, TypeInv, BundleType
    <2>2. MeType' /\ Others(a)
      BY <1>1, <1>7, GoDoes, LeaveDoes DEF RollFinish, TypeInv, Moved
    <2> QED
      BY <1>7, <2>1, <2>2, Frames DEF RollFinish, TypeInv
  <1> QED
    BY <1>2, <1>3, <1>4, <1>5, <1>6, <1>7 DEF RollbackImportBundle

\* The rollback is well typed.
LEMMA RollbackTypes ==
  ASSUME TypeInv, NEW a \in Actors, RollbackStart(a) \/ LockRollback(a) \/ RollAborts(a)
  PROVE  TypeInv' /\ Others(a)
  <1>1. {"lockRollback", "verdict", "roll"} \subseteq PCs /\ NFiles \in Files /\ "error" \in Answers
    BY AllPCs, Numbers DEF Answers
  <1>2. CASE RollbackStart(a)
    <2>1. BundleType'
      BY <1>2, AllStates DEF RollbackStart, TypeInv, BundleType
    <2>2. MeType' /\ Others(a)
      BY <1>1, <1>2, GoDoes, LeaveDoes DEF RollbackStart, TypeInv, Moved
    <2> QED
      BY <1>2, <2>1, <2>2, Frames DEF RollbackStart, TypeInv
  <1>3. CASE LockRollback(a)
    BY <1>1, <1>3, GoAtDoes, Frames DEF LockRollback, TypeInv, Moved
  <1>4. CASE RollAborts(a)
    BY <1>4, RaiseDoes, Frames DEF RollAborts, TypeInv
  <1> QED
    BY <1>2, <1>3, <1>4

\* Where the cleanup goes after a file.
LEMMA NextCleanDoes ==
  ASSUME TypeInv, NEW a \in Actors, NEW failed \in SUBSET Files, NextClean(a, failed)
  PROVE  /\ MeType' /\ Others(a) /\ me'[a].pc \in {"clean", "cleanFinish"}
         /\ me'[a].seen = me[a].seen /\ me'[a].answer = me[a].answer
  <1> DEFINE next == IF At(a) = NFiles THEN "cleanFinish" ELSE "clean"
             then == IF At(a) = NFiles THEN 1 ELSE At(a) + 1
             lost == me[a].failed \union failed
             new == [me[a] EXCEPT !.failed = lost, !.pc = next, !.at = then]
  <1>1. next \in PCs /\ then \in Files /\ lost \in SUBSET Files /\ me[a] \in Local
    BY AllPCs, Locals, Numbers DEF TypeInv
  <1>2. new \in Local
    BY ONLY <1>1, LocalUpdates
  <1>3. me' = [me EXCEPT ![a] = new]
    BY DEF NextClean, At, TypeInv, MeType
  <1>4. new.pc \in {"clean", "cleanFinish"} /\ new.seen = me[a].seen /\ new.answer = me[a].answer
    BY <1>1 DEF Local
  <1> HIDE DEF new
  <1> QED
    BY <1>2, <1>3, <1>4, ReplacedDoes DEF TypeInv

\* The steps of the cleanup on a file are well typed.
LEMMA CleanTypes ==
  ASSUME TypeInv, NEW a \in Actors,
         \/ LockCleanup(a) \/ CleanSource(a) \/ CleanReplaced(a) \/ CleanFails(a)
  PROVE  TypeInv' /\ Others(a)
  <1> DEFINE f == At(a)
  <1>1. /\ f \in Files /\ {f} \in SUBSET Files /\ {} \in SUBSET Files /\ FALSE \in BOOLEAN
        /\ "cleanReplaced" \in PCs /\ "clean" \in PCs /\ fs[f] \in FileState
    BY Locals, AllPCs, FileTypes DEF TypeInv
  <1>2. CASE LockCleanup(a)
    BY <1>1, <1>2, ListedDoes, Frames DEF LockCleanup, TypeInv
  <1>3. CASE CleanSource(a)
    <2>1. [fs[f] EXCEPT !.src = FALSE] \in FileState
      BY ONLY <1>1, FileUpdates
    <2>2. FsType'
      BY <1>1, <1>3, <2>1 DEF CleanSource, FsType, TypeInv
    <2> QED
      BY <1>1, <1>3, <2>2, NextCleanDoes, GoDoes, Frames DEF CleanSource, TypeInv, Moved
  <1>4. CASE CleanReplaced(a)
    <2> DEFINE kept == fs[f].bin \/ fs[f].backup = "old" \/ fs[f].aside
    <2>1. [fs[f] EXCEPT !.backup = "none", !.aside = FALSE, !.bin = kept] \in FileState
      <3>1. kept \in BOOLEAN /\ "none" \in Content
        BY <1>1 DEF Content, FileState
      <3> HIDE DEF kept
      <3> QED
        BY ONLY <1>1, <3>1, FileUpdates
    <2>2. fs' = fs \/ fs' = [fs EXCEPT ![f] = [fs[f] EXCEPT !.backup = "none", !.aside = FALSE,
                                                            !.bin = kept]]
      BY <1>1, <1>4 DEF CleanReplaced, FsType, TypeInv
    <2> HIDE DEF kept
    <2>3. FsType'
      BY <1>1, <2>1, <2>2 DEF FsType, TypeInv
    <2> QED
      BY <1>1, <1>4, <2>3, NextCleanDoes, Frames DEF CleanReplaced, TypeInv
  <1>5. CASE CleanFails(a)
    BY <1>1, <1>5, NextCleanDoes, Frames DEF CleanFails, TypeInv
  <1> QED
    BY <1>2, <1>3, <1>4, <1>5

\* A cancelled cleanup is well typed.
LEMMA CleanCancelledTypes ==
  ASSUME TypeInv, NEW c \in Callers, CleanCancelled(c)
  PROVE  TypeInv' /\ Others(c)
  BY CallersAct, LeaveDoes, Frames DEF CleanCancelled, TypeInv, Answers

\* An actor that an exception takes out leaves everything else as it is.
LEMMA UnhandledTypes ==
  ASSUME TypeInv, NEW a \in Actors, Unhandled(a)
  PROVE  /\ TypeInv' /\ Others(a) /\ UNCHANGED <<bundle, rows, catalog, fs, booted>>
         /\ me'[a].pc \in {"attention", "idle"} /\ me'[a].seen \in {me[a].seen, "none"}
  BY RaiseDoes, Frames DEF Unhandled, TypeInv

\* The cleanup's end is well typed.
LEMMA CleanFinishTypes ==
  ASSUME TypeInv, NEW a \in Actors, CleanFinish(a)
  PROVE  TypeInv' /\ Others(a)
  <1> DEFINE done == {f \in Files : Mine(a, f) # "none"} \ me[a].failed
             st(f) == IF f \in done /\ rows[f].state \in {"catalog_committed", "cleanup_pending"}
                      THEN "completed"
                      ELSE IF f \in me[a].failed /\ rows[f].state = "catalog_committed"
                      THEN "cleanup_pending" ELSE rows[f].state
  <1>1. CASE bundle \in {"catalog_committed", "cleanup_pending"}
    <2>1. /\ bundle' = IF me[a].failed = {} THEN "completed" ELSE "cleanup_pending"
          /\ rows' = [f \in Files |-> [rows[f] EXCEPT !.state = st(f)]]
          /\ me' = [b \in Actors |->
                      IF b # a THEN [me[b] EXCEPT !.fresh = {f \in @ : st(f) = rows[f].state}]
                      ELSE IF a # Recoverer THEN Blank("ok")
                      ELSE IF bundle' = "completed" \/ booted THEN Blank("none")
                      ELSE [Blank("none") EXCEPT !.pc = "escalate"]]
          /\ UNCHANGED <<catalog, fs, booted, spent>>
      BY <1>1 DEF CleanFinish
    <2>2. \A f \in Files : st(f) \in RowStates
      BY AllStates DEF TypeInv, RowsType, JournalRow
    <2> HIDE DEF st
    <2>3. RowsType'
      BY <2>1, <2>2, RowTypes DEF TypeInv, RowsType
    <2>4. \A b \in Actors : [me[b] EXCEPT !.fresh = {f \in @ : st(f) = rows[f].state}] \in Local
      <3> SUFFICES ASSUME NEW b \in Actors
                   PROVE  [me[b] EXCEPT !.fresh = {f \in @ : st(f) = rows[f].state}] \in Local
        OBVIOUS
      <3>1. me[b] \in Local /\ {f \in me[b].fresh : st(f) = rows[f].state} \in SUBSET Files
        BY Locals DEF TypeInv
      <3> QED
        BY ONLY <3>1, LocalUpdates
    <2>5. MeType'
      BY <2>1, <2>4, BlankTypes DEF MeType, Answers
    <2>6. Others(a)
      BY <2>1 DEF Others, Same, TypeInv, MeType, Local
    <2>7. BundleType'
      BY <2>1, AllStates DEF TypeInv, BundleType
    <2> QED
      BY <2>1, <2>3, <2>5, <2>6, <2>7, Frames DEF TypeInv
  <1>2. CASE bundle \notin {"catalog_committed", "cleanup_pending"}
    BY <1>2, RaiseDoes, Frames DEF CleanFinish, TypeInv
  <1> QED
    BY <1>1, <1>2

\* The steps of recovery are well typed.
LEMMA RecovererTypes ==
  ASSUME TypeInv, RecovererStep
  PROVE  TypeInv' /\ Others(Recoverer)
  <1> DEFINE r == Recoverer
  <1>1. /\ r \in Actors /\ {"check", "journals", "lockCleanup", "rollStart", "attention"} \subseteq PCs
        /\ Journaled \in SUBSET Files /\ "none" \in Answers
    BY RecovererActs, AllPCs DEF Journaled, Answers
  <1>2. CASE RecoverList
    <2> DEFINE new == [me[r] EXCEPT !.pc = "check", !.seen = bundle]
    <2>1. new \in Local
      <3>1. me[r] \in Local /\ "check" \in PCs /\ bundle \in BundleStates
        BY <1>1, Locals DEF TypeInv, BundleType
      <3> QED
        BY ONLY <3>1, LocalUpdates
    <2>2. me' = [me EXCEPT ![r] = new]
      BY <1>2 DEF RecoverList, TypeInv, MeType
    <2> HIDE DEF new
    <2> QED
      BY <1>1, <1>2, <2>1, <2>2, ReplacedDoes, Frames DEF RecoverList, TypeInv
  <1>3. CASE RecoverCheck
    BY <1>1, <1>3, GoDoes, LeaveDoes, Frames DEF RecoverCheck, TypeInv, Moved
  <1>4. CASE RecoverJournals
    <2>1. BundleType'
      BY <1>4, AllStates DEF RecoverJournals, TypeInv, BundleType
    <2>2. MeType' /\ Others(r)
      BY <1>1, <1>4, GoDoes, LeaveDoes, ListedDoes DEF RecoverJournals, TypeInv, Moved
    <2> QED
      BY <1>4, <2>1, <2>2, Frames DEF RecoverJournals, TypeInv
  <1>5. CASE RecoverVerdict
    BY <1>1, <1>5, GoDoes, LeaveDoes, Frames DEF RecoverVerdict, TypeInv, Moved
  <1>6. CASE MarkNeedsAttention
    <2>1. PICK touched \in SUBSET Files :
            /\ rows' = [f \in Files |-> IF f \in touched
                                        THEN [rows[f] EXCEPT !.state = "needs_attention"]
                                        ELSE rows[f]]
            /\ me' = [a \in Actors |-> IF a = Recoverer THEN Blank("none")
                                       ELSE [me[a] EXCEPT !.fresh = @ \ touched]]
      BY <1>6 DEF MarkNeedsAttention
    <2>2. \A a \in Actors : [me[a] EXCEPT !.fresh = @ \ touched] \in Local
      BY DEF TypeInv, MeType, Local
    <2>3. MeType' /\ Others(r)
      BY <1>1, <2>1, <2>2, BlankTypes DEF MeType, Local, TypeInv, Others, Same
    <2>4. RowsType'
      <3>1. \A f \in Files : rows[f] \in JournalRow
                            /\ [rows[f] EXCEPT !.state = "needs_attention"] \in JournalRow
        BY RowTypes, AllStates DEF TypeInv, RowsType
      <3> QED
        BY <2>1, <3>1 DEF RowsType
    <2>5. bundle' \in {bundle, "needs_attention"} /\ UNCHANGED <<catalog, fs, booted, spent>>
      BY <1>6 DEF MarkNeedsAttention
    <2>6. BundleType'
      BY <2>5, AllStates DEF BundleType, TypeInv
    <2> QED
      BY <2>3, <2>4, <2>5, <2>6, Frames DEF TypeInv
  <1>7. CASE Boot
    BY <1>7, Frames DEF Boot, TypeInv, BundleType, Others, Same
  <1> QED
    BY <1>2, <1>3, <1>4, <1>5, <1>6, <1>7 DEF RecovererStep

\* Resolving is well typed.
LEMMA ResolveTypes ==
  ASSUME TypeInv, Resolve
  PROVE  TypeInv' /\ \A a \in Actors : Same(a)
  <1>1. PICK pending \in SUBSET Files :
          /\ rows' = [f \in Files |-> IF f \in pending THEN [rows[f] EXCEPT !.state = "resolved"]
                                      ELSE rows[f]]
          /\ me' = [a \in Actors |-> [me[a] EXCEPT !.fresh = @ \ pending]]
    BY DEF Resolve
  <1>2. \A a \in Actors : [me[a] EXCEPT !.fresh = @ \ pending] \in Local
    BY DEF TypeInv, MeType, Local
  <1>3. MeType' /\ \A a \in Actors : Same(a)
    BY <1>1, <1>2 DEF MeType, Local, TypeInv, Same
  <1>4. RowsType'
    <2>1. \A f \in Files : rows[f] \in JournalRow
                          /\ [rows[f] EXCEPT !.state = "resolved"] \in JournalRow
      BY RowTypes, AllStates DEF TypeInv, RowsType
    <2> QED
      BY <1>1, <2>1 DEF RowsType
  <1>5. bundle' = "resolved" /\ UNCHANGED <<catalog, fs, booted, spent>>
    BY DEF Resolve
  <1>6. BundleType'
    BY <1>5, AllStates DEF BundleType, TypeInv
  <1> QED
    BY <1>3, <1>4, <1>5, <1>6, Frames DEF TypeInv

\* A crash is well typed.
LEMMA CrashTypes ==
  ASSUME TypeInv, Crash
  PROVE  TypeInv' /\ \A a \in Actors : me'[a] = Blank("none")
  <1>1. MeType' /\ \A a \in Actors : me'[a] = Blank("none")
    BY BlankTypes DEF Crash, MeType, Answers
  <1>2. BundleType'
    BY DEF Crash, BundleType, TypeInv
  <1>3. SpentType'
    BY DEF Crash, SpentType, TypeInv
  <1> QED
    BY <1>1, <1>2, <1>3, Frames DEF Crash, TypeInv

\* A foreign file is well typed.
LEMMA OccupyTypes ==
  ASSUME TypeInv, NEW f \in Files, Occupy(f)
  PROVE  TypeInv'
  <1>1. SpentType'
    BY DEF Occupy, SpentType, TypeInv
  <1>2. /\ [fs[f] EXCEPT !.dest = "foreign"] \in FileState
        /\ [fs[f] EXCEPT !.adest = "foreign"] \in FileState
    BY FileTypes, FileUpdates DEF TypeInv, Content
  <1>3. FsType'
    BY <1>2 DEF Occupy, FsType, TypeInv
  <1> QED
    BY <1>1, <1>3, Frames DEF Occupy, TypeInv

\* Every step of one actor is a step of the program that it takes alone.
ActorStep(a) ==
  \/ a \in Callers /\ (\/ Call(a) \/ CallerStep(a) \/ LockCancelled(a)
                        \/ PublishFails(a) \/ CleanCancelled(a))
  \/ WorkerStep(a) \/ RollFails(a) \/ RollAborts(a) \/ CleanFails(a) \/ Unhandled(a)
  \/ a = Recoverer /\ RecovererStep

\* The steps, sorted by who takes them.
LEMMA NextByActor ==
  Next <=> \/ \E a \in Actors : ActorStep(a)
           \/ Resolve \/ Crash \/ \E f \in Files : Occupy(f)
  BY CallersAct, RecovererActs DEF Next, ActorStep

\* A step of an actor is well typed and its own.
LEMMA ActorTypes ==
  ASSUME TypeInv, NEW a \in Actors, ActorStep(a)
  PROVE  TypeInv' /\ Others(a)
  <1>1. CASE a \in Callers /\ (Call(a) \/ LockCancelled(a) \/ PublishFails(a) \/ CleanCancelled(a))
    BY <1>1, PlainTypes, CleanCancelledTypes
  <1>2. CASE a \in Callers /\ CallerStep(a)
    <2>1. CASE CriticalSection(a)
      BY <1>2, <2>1, BoundaryTypes, RecheckTypes, PlainTypes, PublishTypes, JournalTypes,
         CommitTypes DEF CriticalSection
    <2>2. CASE ~CriticalSection(a)
      BY <1>2, <2>2, PlainTypes, EntryTypes, PrepareTypes, StagedTypes DEF CallerStep
    <2> QED
      BY <2>1, <2>2
  <1>3. CASE WorkerStep(a) \/ RollFails(a) \/ RollAborts(a) \/ CleanFails(a)
    BY <1>3, RollbackTypes, RollTypes, CleanTypes, CleanFinishTypes
       DEF WorkerStep, ResumeImportCleanup
  <1>4. CASE a = Recoverer /\ RecovererStep
    BY <1>4, RecovererTypes
  <1>5. CASE Unhandled(a)
    BY <1>5, UnhandledTypes
  <1> QED
    BY <1>1, <1>2, <1>3, <1>4, <1>5 DEF ActorStep

\* Every step is well typed.
LEMMA StepTypes ==
  ASSUME TypeInv, [Next]_vars
  PROVE  TypeInv'
  <1>1. CASE Next
    BY <1>1, NextByActor, ActorTypes, ResolveTypes, CrashTypes, OccupyTypes
  <1>2. CASE UNCHANGED vars
    BY <1>2, Frames DEF vars, TypeInv
  <1> QED
    BY <1>1, <1>2

\* The rows are in states the store knows and every actor works on a file of the
\* bundle, whatever the calls, faults, crashes and foreign files
\* (publish_import_bundle, recover_import_bundle and what they call).
THEOREM TypeCorrectness == Spec => []TypeOK
  <1>1. Init => TypeInv
    BY InitTypes
  <1>2. TypeInv /\ [Next]_vars => TypeInv'
    BY StepTypes
  <1> QED
    BY <1>1, <1>2, TypeInvTypes, PTL DEF Spec

--------------------------------------------------------------------------------
(* The replaced track. Its place, its backup and the bin change only under  *)
(* the write lease, so what a publisher has looked at under the lease stays *)
(* true while it goes on (OldAtPlace), whatever the other actors hold in    *)
(* their copies of the rows. And a cleanup, which empties the backup, is    *)
(* entered only by an actor that has seen the commit (KnowsCommit).         *)

OneWriter == \A a, b \in Actors : Writes(a) /\ Writes(b) => a = b

\* The bundle's row and the catalogue change in the same transaction.
CommitKnown ==
  /\ bundle \in Committed => catalog
  /\ catalog => bundle \in Committed \union {"needs_attention", "resolved"}

KnowsCommit(a) ==
  /\ me[a].pc \in {"lockCleanup", "reread"} \union InCleanup => catalog
  /\ me[a].seen \in Committed => catalog
  /\ me[a].pc = "mark" => me[a].seen \in {"preparing", "rolled_back"}

\* An upgrade interrupted between its backup and its journal row.
Stranded(f) == fs[f].dest = "none" /\ fs[f].backup = "old"

\* A file that its publisher has still to back up holds the old track.
OldAtPlace(c) == \A f \in Upgrades : Mine(c, f) = "validated" =>
  /\ me[c].pc = "boundary" /\ f < At(c) => ~Stranded(f)
  /\ me[c].pc = "recheck" => ~Stranded(f)
  /\ me[c].pc \in {"publish", "backedUp", "moved", "placed"} /\ f > At(c)
       => fs[f].dest = "old" \/ fs[f].bin
  /\ me[c].pc = "publish" /\ f = At(c) => fs[f].dest = "old" \/ fs[f].bin

InvA == /\ OneWriter /\ CommitKnown /\ OriginalKept
        /\ \A a \in Actors : KnowsCommit(a)
        /\ \A c \in Callers : OldAtPlace(c)

\* The first invariant holds at the start.
LEMMA InitA == Init => InvA
  <1> SUFFICES ASSUME Init PROVE InvA
    OBVIOUS
  <1>1. \A a \in Actors : me[a].pc = "idle" /\ me[a].seen = "none"
    BY DEF Init, Blank
  <1>2. OriginalKept
    <2>1. \A f \in Files : /\ fs[f].dest = Before(f) /\ fs[f].bin = FALSE
                           /\ fs[f].aside = (f \in Moves)
      BY DEF Init
    <2> QED
      BY <2>1 DEF OriginalKept, Before
  <1>3. OneWriter /\ CommitKnown /\ \A a \in Actors : KnowsCommit(a)
    BY <1>1 DEF Init, OneWriter, CommitKnown, KnowsCommit, Writes, Committed, InCritical,
       InRollback, InCleanup
  <1>4. \A c \in Callers : OldAtPlace(c)
    BY <1>1, CallersAct DEF OldAtPlace
  <1> QED
    BY <1>2, <1>3, <1>4 DEF InvA

SameShelf(f) == /\ fs'[f].dest = fs[f].dest /\ fs'[f].backup = fs[f].backup
                /\ fs'[f].aside = fs[f].aside /\ fs'[f].bin = fs[f].bin
KeepsShelf == \A f \in Files : SameShelf(f)
KeepsSource == \A f \in Files : fs'[f].src = fs[f].src

UpgradesAreFiles == \A f \in Upgrades : f \in Files

\* The upgrades are files.
LEMMA UpgradeFiles == UpgradesAreFiles
  BY ConstantsOK DEF UpgradesAreFiles

\* A step that keeps the shelf keeps the originals.
LEMMA KeptWithShelf ==
  ASSUME OriginalKept, KeepsShelf, catalog => catalog'
  PROVE  OriginalKept'
  BY DEF OriginalKept, KeepsShelf, SameShelf

\* What one actor has to show for its step: the others have nothing to lose.
LEMMA StepA ==
  ASSUME InvA, NEW a \in Actors, Others(a),
         Writes(a)' => Writes(a) \/ LeaseFree,
         catalog => catalog', CommitKnown', OriginalKept', KnowsCommit(a)',
         a \in Callers => OldAtPlace(a)',
         Writes(a) \/ KeepsShelf
  PROVE  InvA'
  <1>1. OneWriter'
    BY DEF InvA, OneWriter, Others, Same, Writes, LeaseFree
  <1>2. ASSUME NEW b \in Actors PROVE KnowsCommit(b)'
    BY <1>2 DEF InvA, KnowsCommit, Others, Same
  <1>3. ASSUME NEW c \in Callers PROVE OldAtPlace(c)'
    <2>1. c \in Actors /\ OldAtPlace(c)
      BY CallersAct DEF InvA
    <2>2. CASE c # a /\ KeepsShelf
      <3>1. Same(c)
        BY <2>1, <2>2 DEF Others
      <3> QED
        BY <2>1, <2>2, <3>1, UpgradeFiles
           DEF OldAtPlace, Same, KeepsShelf, SameShelf, Stranded, Mine, At, UpgradesAreFiles
    <2>3. CASE c # a /\ Writes(a)
      <3>1. Same(c) /\ ~Writes(c)
        BY <2>1, <2>3 DEF Others, InvA, OneWriter
      <3> QED
        BY <3>1 DEF OldAtPlace, Same, Writes, InCritical
    <2> QED
      BY <2>1, <2>2, <2>3
  <1> QED
    BY <1>1, <1>2, <1>3 DEF InvA

Calm == {"idle", "waiting", "check", "journals", "verdict", "attention", "escalate",
         "list", "refresh", "rollStart", "lockPublish", "lockRollback", "ensure",
         "prepare", "staged", "prepFailed"}

\* At a calm place an actor has only its knowledge of the commit to show.
LEMMA CalmPlaces ==
  ASSUME NEW a \in Actors, me'[a].pc \in Calm
  PROVE  /\ ~Writes(a)' /\ OldAtPlace(a)'
         /\ (me'[a].seen \in Committed => catalog') => KnowsCommit(a)'
  BY DEF Calm, Writes, OldAtPlace, KnowsCommit, InCritical, InRollback, InCleanup

\* A step to a place where nothing is at stake.
LEMMA CalmStep ==
  ASSUME InvA, NEW a \in Actors, Others(a), me'[a].pc \in Calm,
         me'[a].seen \in {me[a].seen, "none"},
         UNCHANGED catalog, CommitKnown', KeepsShelf
  PROVE  InvA'
  <1>1. OriginalKept'
    BY KeptWithShelf DEF InvA
  <1>2. KnowsCommit(a)'
    BY CalmPlaces DEF InvA, KnowsCommit, Committed
  <1> QED
    BY <1>1, <1>2, CalmPlaces, StepA

\* What is left alone for the first invariant.
LEMMA FrameA ==
  /\ fs' = fs => KeepsShelf /\ KeepsSource
  /\ InvA /\ UNCHANGED <<bundle, catalog>> => CommitKnown'
  BY DEF KeepsShelf, KeepsSource, SameShelf, InvA, CommitKnown

\* The calm steps of a caller.
LEMMA PlainA ==
  ASSUME TypeInv, InvA, NEW c \in Callers,
         Call(c) \/ Admit(c) \/ LockCancelled(c) \/ PublishFails(c) \/ ListJournals(c)
  PROVE  InvA'
  <1>1. c \in Actors /\ {"waiting", "ensure", "refresh", "prepare"} \subseteq PCs /\ {} \in SUBSET Files
    BY CallersAct, AllPCs
  <1>2. /\ (\E pc \in {"waiting", "ensure", "refresh"} : Go(c, pc)) \/ Listed(c, "prepare", {})
        /\ UNCHANGED <<bundle, catalog, fs>>
    BY DEF Call, Admit, LockCancelled, PublishFails, ListJournals
  <1>3. /\ Others(c) /\ me'[c].seen = me[c].seen
        /\ me'[c].pc \in {"waiting", "ensure", "refresh", "prepare"}
    BY <1>1, <1>2, GoDoes, ListedDoes DEF TypeInv, Moved
  <1> QED
    BY <1>1, <1>2, <1>3, FrameA, CalmStep DEF Calm

\* The steps around the work keep the first invariant.
LEMMA EntryA ==
  ASSUME TypeInv, InvA, NEW c \in Callers,
         EnsureBundle(c) \/ MarkPublishing(c) \/ Refresh(c) \/ RereadBundle(c)
  PROVE  InvA'
  <1>1. c \in Actors /\ KnowsCommit(c) /\ CommitKnown /\ Others(c)
    BY CallersAct, EntryTypes, PlainTypes DEF InvA
  <1>2. UNCHANGED <<rows, catalog, fs>> /\ OriginalKept' /\ KeepsShelf
    BY FrameA, KeptWithShelf DEF EnsureBundle, MarkPublishing, Refresh, RereadBundle, InvA
  <1>3. {"lockCleanup", "list", "rollStart", "mark"} \subseteq PCs
        /\ {"ok", "refused", "error"} \subseteq Answers
    BY AllPCs DEF Answers
  <1>4. CASE EnsureBundle(c)
    <2>1. CommitKnown'
      BY <1>1, <1>4 DEF EnsureBundle, CommitKnown, Committed
    <2>2. /\ me'[c].pc \in {"idle", "lockCleanup", "mark", "list"}
          /\ me'[c].pc = "lockCleanup" => catalog'
          /\ me'[c].pc = "mark" => me'[c].seen \in {"preparing", "rolled_back"}
          /\ me'[c].pc # "mark" => me'[c].seen \in {me[c].seen, "none"}
      <3>1. \/ \E how \in {"ok", "refused"} : Leave(c, how)
            \/ bundle' \in Committed /\ Go(c, "lockCleanup")
            \/ Go(c, "list")
            \/ /\ bundle' \in {"preparing", "rolled_back"}
               /\ me' = [me EXCEPT ![c].pc = "mark", ![c].seen = bundle']
        BY <1>4 DEF EnsureBundle
      <3>2. CASE \E how \in {"ok", "refused"} : Leave(c, how)
        BY <1>1, <1>3, <3>2, LeaveDoes DEF TypeInv
      <3>3. CASE bundle' \in Committed /\ Go(c, "lockCleanup")
        BY <1>1, <1>3, <2>1, <3>3, GoDoes DEF TypeInv, Moved, CommitKnown
      <3>4. CASE Go(c, "list")
        BY <1>1, <1>3, <3>4, GoDoes DEF TypeInv, Moved
      <3>5. CASE /\ bundle' \in {"preparing", "rolled_back"}
                 /\ me' = [me EXCEPT ![c].pc = "mark", ![c].seen = bundle']
        BY <1>1, <3>5 DEF TypeInv, MeType, Local
      <3> QED
        BY <3>1, <3>2, <3>3, <3>4, <3>5
    <2>3. KnowsCommit(c)' /\ ~Writes(c)' /\ OldAtPlace(c)'
      BY <1>1, <1>2, <2>2
         DEF KnowsCommit, Writes, OldAtPlace, InCritical, InRollback, InCleanup, Committed
    <2> QED
      BY <1>1, <1>2, <2>1, <2>3, StepA
  <1>5. CASE MarkPublishing(c)
    <2>1. CommitKnown'
      BY <1>1, <1>5 DEF MarkPublishing, CommitKnown, KnowsCommit, Committed
    <2>2. me'[c].pc \in {"idle", "list"} /\ me'[c].seen \in {me[c].seen, "none"}
      BY <1>1, <1>3, <1>5, GoDoes, LeaveDoes DEF MarkPublishing, TypeInv, Moved
    <2> QED
      BY <1>1, <1>2, <2>1, <2>2, CalmStep DEF Calm
  <1>6. CASE Refresh(c) \/ RereadBundle(c)
    <2>1. CommitKnown'
      BY <1>6, FrameA DEF Refresh, RereadBundle
    <2>2. /\ me'[c].pc \in {"idle", "rollStart", "lockCleanup"}
          /\ me'[c].seen \in {me[c].seen, "none"}
          /\ me'[c].pc = "lockCleanup" => catalog'
      BY <1>1, <1>2, <1>3, <1>6, GoDoes, LeaveDoes
         DEF Refresh, RereadBundle, TypeInv, Moved, CommitKnown, KnowsCommit
    <2>3. KnowsCommit(c)' /\ ~Writes(c)' /\ OldAtPlace(c)'
      BY <1>1, <1>2, <2>2
         DEF KnowsCommit, Writes, OldAtPlace, InCritical, InRollback, InCleanup, Committed
    <2> QED
      BY <1>1, <1>2, <2>1, <2>3, StepA
  <1> QED
    BY <1>4, <1>5, <1>6

\* The preparation leaves what a reader of the library sees as it is.
LEMMA PrepareGoes ==
  ASSUME TypeInv, NEW c \in Callers,
         \/ \E f \in Files : PrepareImportFile(c, f)
         \/ JournalStaged(c) \/ PreparationFailed(c)
  PROVE  /\ UNCHANGED <<bundle, catalog, booted>> /\ KeepsShelf /\ KeepsSource
         /\ me[c].pc \in PreparePCs
         /\ me'[c].pc \in {"prepare", "staged", "prepFailed", "lockPublish", "rollStart"}
         /\ me'[c].seen = me[c].seen
  <1>1. /\ c \in Actors /\ {"prepare", "staged", "prepFailed"} \subseteq PCs
        /\ {"planned", "validated"} \subseteq RowStates
        /\ Row("planned", FALSE) \in JournalRow /\ Row("staged", TRUE) \in JournalRow
        /\ At(c) \in Files
    BY CallersAct, AllPCs, AllStates, RowTypes, Locals DEF TypeInv
  <1>2. UNCHANGED <<bundle, catalog, booted>> /\ KeepsShelf /\ KeepsSource
    <2>1. /\ UNCHANGED <<bundle, catalog, booted>>
          /\ \/ fs' = fs
             \/ \E f \in Files :
                  \/ fs' = [fs EXCEPT ![f].temp = TRUE, ![f].atemp = f \in Artworks]
                  \/ fs' = [fs EXCEPT ![f].atemp = f \in Artworks]
      BY DEF PrepareImportFile, Replan, Swap, PlanFile, Stage, StageFails, Validate,
         Prepared, Unpublishable, JournalStaged, PreparationFailed
    <2>2. ASSUME NEW f \in Files, NEW x \in BOOLEAN, NEW y \in BOOLEAN,
                 \/ fs' = [fs EXCEPT ![f] = [fs[f] EXCEPT !.temp = x, !.atemp = y]]
                 \/ fs' = [fs EXCEPT ![f] = [fs[f] EXCEPT !.atemp = y]]
          PROVE  KeepsShelf /\ KeepsSource
      <3>1. PICK new \in {[fs[f] EXCEPT !.temp = x, !.atemp = y], [fs[f] EXCEPT !.atemp = y]} :
              fs' = [fs EXCEPT ![f] = new]
        BY <2>2
      <3>2. /\ new.dest = fs[f].dest /\ new.backup = fs[f].backup
            /\ new.aside = fs[f].aside /\ new.bin = fs[f].bin /\ new.src = fs[f].src
        BY <3>1, FileTypes DEF TypeInv, FileState
      <3> QED
        BY <3>1, <3>2 DEF KeepsShelf, KeepsSource, SameShelf, TypeInv, FsType
    <2> QED
      <3>1. CASE fs' = fs
        BY <2>1, <3>1, FrameA
      <3>2. CASE \E f \in Files :
                    \/ fs' = [fs EXCEPT ![f].temp = TRUE, ![f].atemp = f \in Artworks]
                    \/ fs' = [fs EXCEPT ![f].atemp = f \in Artworks]
        <4>1. PICK f \in Files :
                    \/ fs' = [fs EXCEPT ![f].temp = TRUE, ![f].atemp = f \in Artworks]
                    \/ fs' = [fs EXCEPT ![f].atemp = f \in Artworks]
          BY <3>2
        <4>2. \/ fs' = [fs EXCEPT ![f] = [fs[f] EXCEPT !.temp = TRUE, !.atemp = f \in Artworks]]
              \/ fs' = [fs EXCEPT ![f] = [fs[f] EXCEPT !.atemp = f \in Artworks]]
          BY <4>1 DEF TypeInv, FsType
        <4>3. (f \in Artworks) \in BOOLEAN /\ TRUE \in BOOLEAN
          OBVIOUS
        <4> QED
          BY <2>1, <2>2, <4>2, <4>3
      <3> QED
        BY <2>1, <3>1, <3>2
  <1>3. /\ me'[c].pc \in {"prepare", "staged", "prepFailed", "lockPublish", "rollStart"}
        /\ me'[c].seen = me[c].seen
    <2>1. \/ \E pc \in {"prepare", "staged", "prepFailed"} : Go(c, pc)
          \/ \E f \in Files, s \in {"planned", "validated"} : Transition(c, f, s, "prepare", f)
          \/ \E f \in Files, r \in {Row("planned", FALSE), Row("staged", TRUE)} :
               Stored(c, f, r, "prepare", f)
          \/ \E f \in Files : Prepared(c, f)
          \/ PreparationFailed(c)
      BY <1>1 DEF PrepareImportFile, Replan, Swap, PlanFile, Stage, StageFails, Validate,
         Unpublishable, JournalStaged
    <2>2. CASE \E pc \in {"prepare", "staged", "prepFailed"} : Go(c, pc)
      BY <1>1, <2>2, GoDoes DEF TypeInv, Moved
    <2>3. CASE \E f \in Files, s \in {"planned", "validated"} : Transition(c, f, s, "prepare", f)
      BY <1>1, <2>3, TransitionDoes DEF TypeInv
    <2>4. CASE \E f \in Files, r \in {Row("planned", FALSE), Row("staged", TRUE)} :
                 Stored(c, f, r, "prepare", f)
      <3>1. PICK f \in Files, r \in {Row("planned", FALSE), Row("staged", TRUE)} :
              Stored(c, f, r, "prepare", f)
        BY <2>4
      <3> QED
        BY <1>1, <3>1, Locals DEF Stored, TypeInv, Local
    <2>5. CASE \E f \in Files : Prepared(c, f)
      <3>1. PICK f \in Files : Prepared(c, f)
        BY <2>5
      <3> DEFINE new == [me[c] EXCEPT !.prep = @ \union {f},
                           !.pc = IF f = NFiles THEN "lockPublish" ELSE @,
                           !.at = IF f = NFiles THEN 1 ELSE @ + 1]
      <3>2. me' = [me EXCEPT ![c] = new] /\ me[c].pc = "prepare"
        BY <3>1 DEF Prepared, Preparing, TypeInv, MeType
      <3>3. new.seen = me[c].seen /\ new.pc \in {"prepare", "lockPublish"}
        BY <1>1, <3>2, Locals DEF TypeInv, Local
      <3> HIDE DEF new
      <3> QED
        BY <1>1, <3>2, <3>3 DEF TypeInv, MeType
    <2>6. CASE PreparationFailed(c)
      <3> DEFINE new == [me[c] EXCEPT
                           !.rows = [f \in Files |-> IF f \in me[c].prep THEN @[f] ELSE rows[f]],
                           !.fresh = @ \union (Files \ me[c].prep),
                           !.prep = @ \union Journaled, !.pc = "rollStart"]
      <3>1. me' = [me EXCEPT ![c] = new]
        BY <2>6 DEF PreparationFailed, TypeInv, MeType
      <3>2. new.seen = me[c].seen /\ new.pc = "rollStart"
        BY <1>1, Locals DEF TypeInv, Local
      <3> HIDE DEF new
      <3> QED
        BY <1>1, <3>1, <3>2 DEF TypeInv, MeType
    <2> QED
      BY <2>1, <2>2, <2>3, <2>4, <2>5, <2>6
  <1>4. me[c].pc \in PreparePCs
    BY DEF PrepareImportFile, Replan, PlanFile, Stage, StageFails, Validate, Prepared,
       Unpublishable, Preparing, JournalStaged, PreparationFailed, PreparePCs
  <1> QED
    BY <1>2, <1>3, <1>4

\* Preparation keeps the first invariant.
LEMMA PrepareA ==
  ASSUME TypeInv, InvA, NEW c \in Callers,
         \/ \E f \in Files : PrepareImportFile(c, f)
         \/ JournalStaged(c) \/ PreparationFailed(c)
  PROVE  InvA'
  BY PrepareGoes, PrepareTypes, StagedTypes, CallersAct, FrameA, CalmStep DEF Calm

\* A step of a publisher that stays in, or enters, the critical section.
LEMMA CriticalStep ==
  ASSUME InvA, NEW c \in Callers, Others(c), me'[c].pc \in InCritical,
         me'[c].seen = me[c].seen, Writes(c) \/ (LeaseFree /\ KeepsShelf),
         UNCHANGED <<bundle, catalog>>, OriginalKept', OldAtPlace(c)'
  PROVE  InvA'
  <1>1. c \in Actors /\ KnowsCommit(c)
    BY CallersAct DEF InvA
  <1>2. KnowsCommit(c)'
    BY <1>1 DEF KnowsCommit, InCritical, InCleanup
  <1> QED
    BY <1>1, <1>2, FrameA, StepA

\* Getting the locks keeps the first invariant.
LEMMA LockPublishA ==
  ASSUME TypeInv, InvA, NEW c \in Callers, LockPublish(c)
  PROVE  InvA'
  <1>1. c \in Actors /\ "boundary" \in PCs /\ 1 \in Files
    BY CallersAct, AllPCs, Numbers
  <1>2. /\ Others(c) /\ me'[c].pc = "boundary" /\ me'[c].at = 1 /\ me'[c].seen = me[c].seen
        /\ LeaseFree /\ UNCHANGED <<bundle, catalog, fs>>
    BY <1>1, GoAtDoes DEF LockPublish, TypeInv, Moved
  <1>3. OldAtPlace(c)'
    BY <1>2, UpgradeFiles DEF OldAtPlace, UpgradesAreFiles, At, Files
  <1> QED
    BY <1>1, <1>2, <1>3, FrameA, KeptWithShelf, CriticalStep DEF InCritical, InvA

\* The boundary check keeps the first invariant.
LEMMA BoundaryA ==
  ASSUME TypeInv, InvA, NEW c \in Callers, Boundary(c)
  PROVE  InvA'
  <1>0. PICK f \in Files : f = At(c)
    BY CallersAct, Locals DEF TypeInv
  <1> DEFINE next == IF f = NFiles THEN "recheck" ELSE "boundary"
             then == IF f = NFiles THEN 1 ELSE f + 1
  <1>1. /\ c \in Actors /\ f \in Files /\ next \in PCs /\ then \in Files /\ "refresh" \in PCs
        /\ {"published", "replacement_backed_up"} \subseteq RowStates
        /\ me[c].pc = "boundary" /\ f = me[c].at
    BY <1>0, Locals, Numbers, AllPCs, AllStates, CallersAct DEF TypeInv, Boundary
  <1>2. /\ fs' = CoverPlaced(f) \/ fs' = fs
        /\ UNCHANGED <<bundle, catalog>>
        /\ \/ \E s \in {"published", "replacement_backed_up"} : Transition(c, f, s, next, then)
           \/ Go(c, "refresh")
           \/ /\ GoAt(c, next, then)
              /\ ~(Mine(c, f) = "validated" /\ f \in Upgrades /\ Stranded(f))
    BY <1>0 DEF Boundary, Stranded
  <1>3. Others(c) /\ OldAtPlace(c) /\ Writes(c) /\ f \in Int /\ NFiles \in Int
        /\ f \leq NFiles /\ \A g \in Upgrades : g \in Files /\ g \in Int /\ g \leq NFiles
    BY <1>1, BoundaryTypes, UpgradeFiles, ConstantsOK
       DEF InvA, Writes, InCritical, Files, UpgradesAreFiles
  <1>4. KeepsShelf /\ OriginalKept'
    <2>1. KeepsShelf
      BY <1>1, <1>2, CoverPlacedDoes, FrameA DEF TypeInv, KeepsShelf, SameShelf
    <2> QED
      BY <1>2, <2>1, KeptWithShelf DEF InvA
  <1>5. CASE Go(c, "refresh")
    BY <1>1, <1>2, <1>4, <1>5, GoDoes, CalmStep, FrameA DEF TypeInv, Moved, Calm
  <1>6. CASE ~Go(c, "refresh")
    <2>1. /\ me'[c].pc = next /\ me'[c].at = then /\ me'[c].seen = me[c].seen
          /\ \A g \in Files \ {f} : Mine(c, g)' = Mine(c, g)
          /\ Mine(c, f)' = "validated" /\ f \in Upgrades => ~Stranded(f)
      <3>1. CASE \E s \in {"published", "replacement_backed_up"} : Transition(c, f, s, next, then)
        <4>1. PICK s \in {"published", "replacement_backed_up"} : Transition(c, f, s, next, then)
          BY <3>1
        <4>2. s \in RowStates /\ MeType /\ RowsType
          BY <1>1 DEF TypeInv
        <4> HIDE DEF next, then
        <4> QED
          BY <1>1, <4>1, <4>2, TransitionDoes DEF Mine
      <3>2. CASE GoAt(c, next, then) /\ ~(Mine(c, f) = "validated" /\ f \in Upgrades /\ Stranded(f))
        <4> HIDE DEF next, then
        <4> QED
          BY <1>1, <3>2, GoAtDoes DEF TypeInv, Moved, Mine
      <3> QED
        BY <1>2, <1>6, <3>1, <3>2
    <2>2. \A g \in Upgrades : Stranded(g)' = Stranded(g)
      BY <1>3, <1>4 DEF KeepsShelf, SameShelf, Stranded
    <2>3. ASSUME NEW g \in Upgrades, Mine(c, g)' = "validated", g = f \/ g < f
          PROVE  ~Stranded(g)'
      BY <1>1, <1>3, <2>1, <2>2, <2>3 DEF OldAtPlace, At
    <2>4. OldAtPlace(c)'
      <3>1. CASE f = NFiles
        BY <1>3, <2>1, <2>3, <3>1 DEF OldAtPlace, At
      <3>2. CASE f # NFiles
        BY <1>3, <2>1, <2>3, <3>2 DEF OldAtPlace, At
      <3> QED
        BY <3>1, <3>2
    <2>5. me'[c].pc \in InCritical
      BY <2>1 DEF InCritical
    <2> QED
      BY <1>2, <1>3, <1>4, <2>1, <2>4, <2>5, CriticalStep
  <1> QED
    BY <1>5, <1>6

\* The second check keeps the first invariant.
LEMMA RecheckA ==
  ASSUME TypeInv, InvA, NEW c \in Callers, Recheck(c)
  PROVE  InvA'
  <1>1. /\ c \in Actors /\ {"publish", "refresh"} \subseteq PCs /\ 1 \in Files /\ Others(c)
        /\ Writes(c) /\ UNCHANGED <<bundle, catalog>> /\ me[c].pc = "recheck"
    BY Numbers, AllPCs, CallersAct, RecheckTypes DEF Recheck, Writes, InCritical
  <1>2. CASE \A f \in Files : FileOK(c, f)
    <2>1. KeepsShelf /\ OriginalKept'
      <3>1. \A f \in Files : LET g == [fs[f] EXCEPT !.atemp = FALSE] IN
              /\ g.dest = fs[f].dest /\ g.backup = fs[f].backup
              /\ g.aside = fs[f].aside /\ g.bin = fs[f].bin
        BY FileTypes DEF TypeInv, FileState
      <3>2. KeepsShelf
        BY <1>2, <3>1 DEF Recheck, KeepsShelf, SameShelf
      <3> QED
        BY <1>1, <3>2, KeptWithShelf DEF InvA
    <2>2. /\ me'[c].pc = "publish" /\ me'[c].at = 1 /\ me'[c].seen = me[c].seen
          /\ me'[c].rows = me[c].rows
      BY <1>1, <1>2, GoAtDoes DEF Recheck, TypeInv, Moved
    <2>3. ASSUME NEW f \in Upgrades, Mine(c, f) = "validated"
          PROVE  fs[f].dest = "old" \/ fs[f].bin
      <3>1. f \in Files /\ FileOK(c, f) /\ ~Stranded(f)
        BY <1>1, <1>2, <2>3, UpgradeFiles DEF UpgradesAreFiles, InvA, OldAtPlace
      <3>2. fs[f].dest \in {"old", "none"}
        BY <2>3, <3>1 DEF FileOK, Before
      <3> QED
        BY <3>1, <3>2 DEF InvA, OriginalKept, Stranded
    <2>4. OldAtPlace(c)'
      BY <2>1, <2>2, <2>3, UpgradeFiles
         DEF OldAtPlace, Mine, KeepsShelf, SameShelf, UpgradesAreFiles
    <2> QED
      BY <1>1, <2>1, <2>2, <2>4, CriticalStep DEF InCritical
  <1>3. CASE ~\A f \in Files : FileOK(c, f)
    BY <1>1, <1>3, GoDoes, CalmStep, FrameA DEF Recheck, TypeInv, Moved, Calm
  <1> QED
    BY <1>2, <1>3

\* The publication of one file: its directory entries, then its journal row.
LEMMA PublishA ==
  ASSUME TypeInv, InvA, NEW c \in Callers,
         BackUp(c) \/ Move(c) \/ PublishArtifacts(c)
  PROVE  InvA'
  <1>0. PICK f \in Files : f = At(c)
    BY CallersAct, Locals DEF TypeInv
  <1>1. /\ c \in Actors /\ {"refresh", "backedUp", "moved", "placed"} \subseteq PCs
        /\ Others(c) /\ Writes(c) /\ OldAtPlace(c) /\ OriginalKept
        /\ UNCHANGED <<bundle, catalog>> /\ f = me[c].at
    BY <1>0, CallersAct, AllPCs, PublishTypes
       DEF BackUp, Move, PublishArtifacts, Writes, InCritical, InvA, At
  <1>2. PICK pc \in {"refresh", "backedUp", "moved", "placed"} : Go(c, pc)
    BY DEF BackUp, Move, PublishArtifacts
  <1>3. /\ me'[c].pc = pc /\ me'[c].at = f /\ me'[c].seen = me[c].seen
        /\ me'[c].rows = me[c].rows
    BY <1>1, <1>2, GoDoes DEF TypeInv, Moved
  <1>4. CASE pc = "refresh"
    <2>1. fs' = fs
      BY <1>1, <1>3, <1>4 DEF BackUp, Move, PublishArtifacts, Go, TypeInv, MeType, Local
    <2> QED
      BY <1>1, <1>3, <1>4, <2>1, FrameA, CalmStep DEF Calm
  <1>5. CASE pc # "refresh"
    <2>1. /\ \A g \in Files \ {f} : SameShelf(g)
          /\ fs'[f].aside = fs[f].aside /\ fs'[f].bin = fs[f].bin
          /\ \/ /\ f \in Upgrades /\ me[c].pc = "publish" /\ Mine(c, f) = "validated"
                /\ fs'[f].backup = fs[f].dest
             \/ fs[f].dest = "none" /\ fs'[f].backup = fs[f].backup
             \/ fs'[f].dest = fs[f].dest /\ fs'[f].backup = fs[f].backup
          /\ me[c].pc \in {"publish", "moved"}
      <3>1. CASE BackUp(c)
        <4>1. fs' = [fs EXCEPT ![f].dest = "none", ![f].backup = fs[f].dest]
          BY <1>0, <1>1, <1>3, <1>5, <3>1 DEF BackUp, Go, TypeInv, MeType, Local
        <4> QED
          BY <1>0, <3>1, <4>1 DEF BackUp, SameShelf, TypeInv, FsType, FileState
      <3>2. CASE Move(c)
        <4>1. fs' = [fs EXCEPT ![f].temp = FALSE, ![f].dest = "new"] /\ fs[f].dest = "none"
          BY <1>0, <1>1, <1>3, <1>5, <3>2 DEF Move, Go, TypeInv, MeType, Local
        <4> QED
          BY <3>2, <4>1 DEF Move, SameShelf, TypeInv, FsType, FileState
      <3>3. CASE PublishArtifacts(c)
        <4>1. fs' = CoverPlaced(f)
          BY <1>0, <1>1, <1>3, <1>5, <3>3 DEF PublishArtifacts, Go, TypeInv, MeType, Local
        <4> QED
          BY <3>3, <4>1, CoverPlacedDoes DEF PublishArtifacts, SameShelf, TypeInv
      <3> QED
        BY <3>1, <3>2, <3>3
    <2>2. f \in Upgrades /\ me[c].pc = "publish" /\ Mine(c, f) = "validated"
            => fs[f].dest = "old" \/ fs[f].bin
      BY <1>1 DEF OldAtPlace, At
    <2>3. OriginalKept'
      BY <1>1, <2>1, <2>2 DEF OriginalKept, SameShelf
    <2>4. OldAtPlace(c)'
      <3>1. ASSUME NEW g \in Upgrades, Mine(c, g) = "validated", g > f
            PROVE  fs[g].dest = "old" \/ fs[g].bin
        BY <1>1, <2>1, <3>1 DEF OldAtPlace, At
      <3>2. \A g \in Upgrades : g > f => SameShelf(g)
        BY <2>1, UpgradeFiles DEF UpgradesAreFiles, Files
      <3> QED
        BY <1>3, <1>5, <3>1, <3>2 DEF OldAtPlace, At, Mine, SameShelf
    <2> QED
      BY <1>1, <1>3, <1>5, <2>3, <2>4, CriticalStep DEF InCritical
  <1> QED
    BY <1>4, <1>5

\* Recording what was done keeps the first invariant.
LEMMA JournalA ==
  ASSUME TypeInv, InvA, NEW c \in Callers,
         AlreadyPublished(c) \/ JournalBackUp(c) \/ JournalPublished(c)
  PROVE  InvA'
  <1>0. PICK f \in Files : f = At(c)
    BY CallersAct, Locals DEF TypeInv
  <1> DEFINE then == IF f = NFiles THEN 1 ELSE f + 1
  <1>1. /\ c \in Actors /\ {"refresh", "publish", After(f)} \subseteq PCs
        /\ {"replacement_backed_up", "published"} \subseteq RowStates /\ then \in Files
        /\ Others(c) /\ Writes(c) /\ OldAtPlace(c) /\ OriginalKept
        /\ UNCHANGED <<bundle, catalog, fs>> /\ f = me[c].at
        /\ me[c].pc \in {"publish", "backedUp", "placed"} /\ MeType /\ RowsType
    BY <1>0, CallersAct, AllPCs, AllStates, PlainTypes, JournalTypes, Numbers
       DEF AlreadyPublished, JournalBackUp, JournalPublished, ToRefresh, Writes, InCritical,
           InvA, At, After, TypeInv
  <1>2. \/ GoAt(c, After(f), then)
        \/ Transition(c, f, "replacement_backed_up", "publish", f)
        \/ Transition(c, f, "published", After(f), then)
        \/ Go(c, "refresh")
    BY <1>0 DEF AlreadyPublished, JournalBackUp, JournalPublished, ToRefresh
  <1>3. CASE Go(c, "refresh")
    BY <1>1, <1>3, GoDoes, FrameA, CalmStep DEF Moved, Calm
  <1>4. CASE ~Go(c, "refresh")
    <2>1. /\ me'[c].seen = me[c].seen
          /\ \A g \in Files \ {f} : me'[c].rows[g] = me[c].rows[g]
          /\ \/ me'[c].pc = "commit"
             \/ me'[c].pc = "publish" /\ me'[c].at = f + 1
             \/ /\ me'[c].pc = "publish" /\ me'[c].at = f
                /\ me'[c].rows[f].state = "replacement_backed_up"
      <3> HIDE DEF then
      <3>1. CASE GoAt(c, After(f), then)
        BY <1>1, <3>1, GoAtDoes DEF Moved, After, then
      <3>2. CASE Transition(c, f, "replacement_backed_up", "publish", f)
        BY <1>1, <3>2, TransitionDoes
      <3>3. CASE Transition(c, f, "published", After(f), then)
        BY <1>1, <3>3, TransitionDoes DEF After, then
      <3> QED
        BY <1>2, <1>4, <3>1, <3>2, <3>3
    <2>2. OldAtPlace(c)'
      <3>1. ASSUME NEW g \in Upgrades, Mine(c, g) = "validated", g > f
            PROVE  fs[g].dest = "old" \/ fs[g].bin
        BY <1>1, <3>1 DEF OldAtPlace, At
      <3>2. \A g \in Upgrades : g \in Files /\ g \in Int /\ f \in Int
        BY UpgradeFiles DEF UpgradesAreFiles, Files
      <3>3. ASSUME NEW g \in Upgrades, me'[c].rows[g].state = "validated",
                   me'[c].pc = "publish", g >= me'[c].at
            PROVE  fs'[g].dest = "old" \/ fs'[g].bin
        <4>1. g > f
          BY <2>1, <3>2, <3>3
        <4> QED
          BY <1>1, <2>1, <3>1, <3>2, <3>3, <4>1 DEF Mine
      <3> QED
        BY <2>1, <3>2, <3>3 DEF OldAtPlace, At, Mine
    <2>3. me'[c].pc \in InCritical
      BY <2>1 DEF InCritical
    <2>4. OriginalKept'
      BY <1>1, FrameA, KeptWithShelf
    <2> QED
      BY <1>1, <2>1, <2>2, <2>3, <2>4, CriticalStep
  <1> QED
    BY <1>3, <1>4

\* The commit keeps the first invariant.
LEMMA CommitA ==
  ASSUME TypeInv, InvA, NEW c \in Callers, Commit(c)
  PROVE  InvA'
  <1>1. /\ c \in Actors /\ Others(c) /\ Writes(c) /\ fs' = fs /\ KeepsShelf
    BY CallersAct, CommitTypes, FrameA DEF Commit, Writes, InCritical
  <1>2. CASE Go(c, "refresh") /\ UNCHANGED <<bundle, catalog>>
    BY <1>1, <1>2, AllPCs, GoDoes, FrameA, CalmStep DEF TypeInv, Moved, Calm
  <1>3. CASE /\ bundle' = "catalog_committed" /\ catalog' = TRUE
             /\ me'[c].pc \in {"reread", "refresh"}
    <2>1. CommitKnown' /\ OriginalKept' /\ KnowsCommit(c)'
      BY <1>1, <1>3, KeptWithShelf DEF CommitKnown, KnowsCommit, Committed, InvA
    <2>2. ~Writes(c)' /\ OldAtPlace(c)'
      BY <1>3 DEF Writes, OldAtPlace, InCritical, InRollback, InCleanup
    <2> QED
      BY <1>1, <1>3, <2>1, <2>2, StepA
  <1>4. \/ Go(c, "refresh") /\ UNCHANGED <<bundle, catalog>>
        \/ /\ bundle' = "catalog_committed" /\ catalog' = TRUE
           /\ \E pc \in {"reread", "refresh"} :
                me' = [a \in Actors |-> [me[a] EXCEPT !.fresh = {}, !.pc = IF a = c THEN pc ELSE @]]
    BY DEF Commit
  <1>5. ASSUME NEW pc \in {"reread", "refresh"},
               me' = [a \in Actors |-> [me[a] EXCEPT !.fresh = {}, !.pc = IF a = c THEN pc ELSE @]]
        PROVE  me'[c].pc = pc
    BY <1>1, <1>5 DEF TypeInv, MeType, Local
  <1> QED
    BY <1>2, <1>3, <1>4, <1>5

\* A step of a rollback, which any actor may take.
LEMMA RollStep ==
  ASSUME InvA, NEW a \in Actors, Others(a), me'[a].pc \in InRollback \union Calm,
         me'[a].seen \in {me[a].seen, "none"}, Writes(a) \/ (LeaseFree /\ KeepsShelf),
         UNCHANGED catalog, CommitKnown', OriginalKept'
  PROVE  InvA'
  <1>1. KnowsCommit(a)' /\ OldAtPlace(a)'
    BY DEF KnowsCommit, OldAtPlace, InvA, InRollback, InCleanup, Calm, Committed
  <1> QED
    BY <1>1, StepA

\* Undoing a file's entries keeps the first invariant.
LEMMA RollFsA ==
  ASSUME TypeInv, InvA, NEW a \in Actors,
         RollDest(a) \/ RollArt(a) \/ RollRest(a) \/ RollTemp(a)
  PROVE  OriginalKept'
  <1>0. PICK f \in Files : f = At(a)
    BY Locals DEF TypeInv
  <1>1. \/ fs' = fs
        \/ fs[f].dest = "new" /\ fs' = [fs EXCEPT ![f] = [fs[f] EXCEPT !.dest = "none"]]
        \/ fs' = [fs EXCEPT ![f] = [fs[f] EXCEPT !.adest = "none"]]
        \/ fs' = [fs EXCEPT ![f] = [fs[f] EXCEPT !.atemp = FALSE]]
        \/ fs' = [fs EXCEPT ![f] = [fs[f] EXCEPT !.temp = FALSE]]
        \/ /\ fs[f].backup \in {"none", "old"}
           /\ fs' = [fs EXCEPT ![f] = [fs[f] EXCEPT !.atemp = FALSE, !.backup = "none",
                              !.dest = IF fs[f].backup = "old" THEN "old" ELSE @]]
    BY <1>0 DEF RollDest, RollArt, RollRest, RollTemp, TypeInv, FsType
  <1>2. /\ \A g \in Files \ {f} : SameShelf(g)
        /\ fs'[f].aside = fs[f].aside /\ fs'[f].bin = fs[f].bin
        /\ \/ fs'[f].dest = fs[f].dest /\ fs'[f].backup = fs[f].backup
           \/ fs[f].dest = "new" /\ fs'[f].backup = fs[f].backup
           \/ fs[f].backup = "old" /\ fs'[f].dest = "old"
           \/ fs[f].backup = "none" /\ fs'[f].dest = fs[f].dest
    <2>1. fs[f] \in FileState
      BY FileTypes DEF TypeInv
    <2>2. CASE fs' = fs
      BY <2>2 DEF SameShelf
    <2>3. CASE fs' # fs
      <3>1. PICK new : /\ fs' = [fs EXCEPT ![f] = new]
                       /\ new.aside = fs[f].aside /\ new.bin = fs[f].bin
                       /\ \/ new.dest = fs[f].dest /\ new.backup = fs[f].backup
                          \/ fs[f].dest = "new" /\ new.backup = fs[f].backup
                          \/ fs[f].backup = "old" /\ new.dest = "old"
                          \/ fs[f].backup = "none" /\ new.dest = fs[f].dest
        <4>1. CASE fs[f].dest = "new" /\ fs' = [fs EXCEPT ![f] = [fs[f] EXCEPT !.dest = "none"]]
          <5>1. /\ [fs[f] EXCEPT !.dest = "none"].aside = fs[f].aside
                /\ [fs[f] EXCEPT !.dest = "none"].bin = fs[f].bin
                /\ [fs[f] EXCEPT !.dest = "none"].backup = fs[f].backup
            BY <2>1 DEF FileState
          <5> QED
            BY <4>1, <5>1
        <4>2. CASE \/ fs' = [fs EXCEPT ![f] = [fs[f] EXCEPT !.adest = "none"]]
                   \/ fs' = [fs EXCEPT ![f] = [fs[f] EXCEPT !.atemp = FALSE]]
                   \/ fs' = [fs EXCEPT ![f] = [fs[f] EXCEPT !.temp = FALSE]]
          BY <2>1, <4>2 DEF FileState
        <4>3. CASE /\ fs[f].backup \in {"none", "old"}
                   /\ fs' = [fs EXCEPT ![f] = [fs[f] EXCEPT !.atemp = FALSE, !.backup = "none",
                                !.dest = IF fs[f].backup = "old" THEN "old" ELSE @]]
          <5> DEFINE new == [fs[f] EXCEPT !.atemp = FALSE, !.backup = "none",
                                !.dest = IF fs[f].backup = "old" THEN "old" ELSE @]
          <5>1. /\ new.aside = fs[f].aside /\ new.bin = fs[f].bin
                /\ new.dest = IF fs[f].backup = "old" THEN "old" ELSE fs[f].dest
            BY <2>1 DEF FileState
          <5>2. fs' = [fs EXCEPT ![f] = new]
            BY <4>3
          <5> HIDE DEF new
          <5> QED
            BY <4>3, <5>1, <5>2
        <4> QED
          BY <1>1, <2>3, <4>1, <4>2, <4>3
      <3> QED
        BY <3>1 DEF SameShelf, TypeInv, FsType
    <2> QED
      BY <2>2, <2>3
  <1>3. catalog' = catalog
    BY DEF RollDest, RollArt, RollRest, RollTemp, RollGivesUp
  <1> QED
    BY <1>2, <1>3 DEF InvA, OriginalKept, SameShelf

\* The rollback keeps the first invariant.
LEMMA RollbackA ==
  ASSUME TypeInv, InvA, NEW a \in Actors, RollbackImportBundle(a) \/ RollFails(a)
  PROVE  InvA'
  <1>1. /\ Others(a) /\ Writes(a) /\ catalog' = catalog
        /\ At(a) \in Files /\ {"verdict"} \subseteq PCs /\ "rolled_back" \in RowStates
        /\ Lower(At(a)) \in {"roll", "rollFinish"} \intersect PCs /\ LowerAt(At(a)) \in Files
        /\ {"rollArt", "rollRest", "rollTemp", "rollDone"} \subseteq PCs
        /\ "error" \in Answers /\ MeType /\ RowsType
    BY RollTypes, Locals, LowerTypes, AllPCs, AllStates
       DEF RollbackImportBundle, RollSkip, RollMark, RollDest, RollArt, RollRest, RollTemp,
           RollDone, RollFinish, RollFails, RollGivesUp, Writes, InRollback, TypeInv, Answers
  <1>2. CASE RollDest(a) \/ RollArt(a) \/ RollRest(a) \/ RollTemp(a)
    <2>1. /\ UNCHANGED bundle /\ me'[a].seen = me[a].seen
          /\ me'[a].pc \in {"rollArt", "rollRest", "rollTemp", "rollDone", "roll", "rollFinish"}
      BY <1>1, <1>2, RollFsTypes, RollGivesUpDoes, GoDoes DEF Moved
    <2> QED
      BY <1>1, <1>2, <2>1, RollFsA, FrameA, RollStep DEF InRollback
  <1>3. CASE RollSkip(a) \/ RollMark(a) \/ RollDone(a) \/ RollFails(a)
    <2>1. /\ UNCHANGED <<bundle, fs>> /\ me'[a].seen = me[a].seen
          /\ me'[a].pc \in {"roll", "rollFinish", "rollDest"}
      <3>1. CASE RollSkip(a)
        BY <1>1, <3>1, GoAtDoes DEF RollSkip, Moved
      <3>2. CASE RollMark(a)
        BY <3>2, RollMarkDoes
      <3>3. CASE RollDone(a)
        BY <1>1, <3>3, TransitionDoes, RollGivesUpDoes DEF RollDone
      <3>4. CASE RollFails(a)
        BY <1>1, <3>4, RollGivesUpDoes DEF RollFails
      <3> QED
        BY <1>3, <3>1, <3>2, <3>3, <3>4
    <2> QED
      BY <1>1, <2>1, FrameA, KeptWithShelf, RollStep DEF InRollback, InvA
  <1>4. CASE RollFinish(a)
    <2>1. CommitKnown'
      BY <1>1, <1>4 DEF RollFinish, InvA, CommitKnown, Committed
    <2>2. fs' = fs /\ me'[a].pc \in {"idle", "verdict"} /\ me'[a].seen \in {me[a].seen, "none"}
      BY <1>1, <1>4, GoDoes, LeaveDoes DEF RollFinish, Moved
    <2> QED
      BY <1>1, <2>1, <2>2, FrameA, KeptWithShelf, RollStep DEF Calm, InvA
  <1> QED
    BY <1>2, <1>3, <1>4 DEF RollbackImportBundle

\* Beginning the rollback keeps the first invariant.
LEMMA RollStartA ==
  ASSUME TypeInv, InvA, NEW a \in Actors, RollbackStart(a) \/ LockRollback(a) \/ RollAborts(a)
  PROVE  InvA'
  <1>1. /\ Others(a) /\ UNCHANGED <<catalog, fs>> /\ {"lockRollback", "verdict", "roll"} \subseteq PCs
        /\ NFiles \in Files /\ "error" \in Answers /\ MeType /\ KeepsShelf
    BY RollbackTypes, AllPCs, Numbers, FrameA
       DEF RollbackStart, LockRollback, RollAborts, TypeInv, Answers
  <1>2. CASE RollbackStart(a)
    <2>1. CommitKnown'
      BY <1>1, <1>2 DEF RollbackStart, InvA, CommitKnown, Committed
    <2>2. /\ me'[a].pc \in {"lockRollback", "verdict", "idle"}
          /\ me'[a].seen \in {me[a].seen, "none"}
      BY <1>1, <1>2, GoDoes, LeaveDoes DEF RollbackStart, Moved
    <2> QED
      BY <1>1, <2>1, <2>2, CalmStep DEF Calm
  <1>3. CASE LockRollback(a)
    <2>1. LeaseFree /\ UNCHANGED bundle /\ me'[a].pc = "roll" /\ me'[a].seen = me[a].seen
      BY <1>1, <1>3, GoAtDoes DEF LockRollback, Moved
    <2> QED
      BY <1>1, <2>1, FrameA, KeptWithShelf, RollStep DEF InRollback, InvA
  <1>4. CASE RollAborts(a)
    BY <1>1, <1>4, RaiseDoes, FrameA, CalmStep DEF RollAborts, Calm
  <1> QED
    BY <1>2, <1>3, <1>4

\* A step of a cleanup.
LEMMA CleanStep ==
  ASSUME InvA, NEW a \in Actors, Others(a), me'[a].pc \in InCleanup \union Calm,
         me'[a].seen \in {me[a].seen, "none"}, Writes(a) \/ (LeaseFree /\ KeepsShelf),
         catalog, UNCHANGED catalog, CommitKnown', OriginalKept'
  PROVE  InvA'
  <1>1. KnowsCommit(a)' /\ OldAtPlace(a)'
    BY DEF KnowsCommit, OldAtPlace, InvA, InCleanup, Calm, Committed
  <1> QED
    BY <1>1, StepA

\* The cleanup keeps the first invariant.
LEMMA CleanA ==
  ASSUME TypeInv, InvA, NEW a \in Actors,
         \/ LockCleanup(a) \/ CleanSource(a) \/ CleanReplaced(a) \/ CleanFails(a)
         \/ CleanFinish(a) \/ (a \in Callers /\ CleanCancelled(a))
  PROVE  InvA'
  <1>0. PICK f \in Files : f = At(a)
    BY Locals DEF TypeInv
  <1>1. /\ Others(a) /\ catalog /\ UNCHANGED catalog /\ {"clean", "cleanReplaced"} \subseteq PCs
        /\ {} \in SUBSET Files /\ {f} \in SUBSET Files /\ MeType /\ RowsType
        /\ "cancelled" \in Answers /\ CommitKnown /\ OriginalKept
    <2>1. Others(a) /\ UNCHANGED catalog
      BY CleanTypes, CleanFinishTypes, CleanCancelledTypes
         DEF LockCleanup, CleanSource, CleanReplaced, CleanFails, CleanFinish, CleanCancelled
    <2>2. me[a].pc \in {"lockCleanup"} \union InCleanup
      BY DEF LockCleanup, CleanSource, CleanReplaced, CleanFails, CleanFinish, CleanCancelled,
             InCleanup
    <2> QED
      BY <2>1, <2>2, AllPCs DEF InvA, KnowsCommit, TypeInv, Answers
  <1>2. CASE LockCleanup(a)
    <2>1. /\ LeaseFree /\ UNCHANGED <<bundle, fs>>
          /\ me'[a].pc = "clean" /\ me'[a].seen = me[a].seen
      BY <1>1, <1>2, ListedDoes DEF LockCleanup
    <2> QED
      BY <1>1, <2>1, FrameA, KeptWithShelf, CleanStep DEF InCleanup
  <1>3. CASE CleanSource(a) \/ CleanFails(a)
    <2>1. /\ UNCHANGED bundle /\ Writes(a)
          /\ fs' = fs \/ fs' = [fs EXCEPT ![f] = [fs[f] EXCEPT !.src = FALSE]]
          /\ \E failed \in {{}, {f}} : NextClean(a, failed) \/ Go(a, "cleanReplaced")
      BY <1>0, <1>3 DEF CleanSource, CleanFails, Writes, InCleanup, TypeInv, FsType
    <2>2. me'[a].pc \in InCleanup /\ me'[a].seen = me[a].seen
      BY <1>1, <2>1, NextCleanDoes, GoDoes DEF Moved, InCleanup
    <2>3. KeepsShelf
      BY <2>1 DEF KeepsShelf, SameShelf, TypeInv, FsType, FileState
    <2> QED
      BY <1>1, <2>1, <2>2, <2>3, FrameA, KeptWithShelf, CleanStep
  <1>4. CASE CleanReplaced(a)
    <2> DEFINE kept == fs[f].bin \/ fs[f].backup = "old" \/ fs[f].aside
    <2>1. /\ UNCHANGED bundle /\ Writes(a)
          /\ \E failed \in {{}, {f}} : NextClean(a, failed)
      BY <1>0, <1>4 DEF CleanReplaced, Writes, InCleanup
    <2>2. me'[a].pc \in InCleanup /\ me'[a].seen = me[a].seen
      BY <1>1, <2>1, NextCleanDoes DEF InCleanup
    <2>3. \/ fs' = fs
          \/ fs' = [fs EXCEPT ![f] = [fs[f] EXCEPT !.backup = "none", !.aside = FALSE,
                                                   !.bin = kept]]
      BY <1>0, <1>4 DEF CleanReplaced, TypeInv, FsType
    <2>4. OriginalKept'
      <3>1. CASE fs' = fs
        BY <1>1, <3>1, FrameA, KeptWithShelf
      <3>2. CASE fs' # fs
        <4>1. /\ \A g \in Files \ {f} : SameShelf(g)
              /\ fs'[f].dest = fs[f].dest /\ fs'[f].bin = kept
          BY <2>3, <3>2 DEF SameShelf, TypeInv, FsType, FileState
        <4> QED
          BY <1>1, <4>1 DEF OriginalKept, SameShelf
      <3> QED
        BY <3>1, <3>2
    <2> QED
      BY <1>1, <2>1, <2>2, <2>4, FrameA, CleanStep
  <1>5. CASE CleanFinish(a)
    <2>1. Writes(a) /\ fs' = fs
      BY <1>5 DEF CleanFinish, Writes, InCleanup
    <2>2. CommitKnown'
      BY <1>1, <1>5 DEF CleanFinish, CommitKnown, Committed
    <2>3. me'[a].pc \in {"idle", "escalate", "attention"} /\ me'[a].seen \in {me[a].seen, "none"}
      <3>1. CASE Raise(a)
        BY <1>1, <3>1, RaiseDoes
      <3>2. CASE ~Raise(a)
        <4>1. me'[a] \in {Blank("ok"), Blank("none"), [Blank("none") EXCEPT !.pc = "escalate"]}
          BY <1>5, <3>2 DEF CleanFinish
        <4> QED
          BY <4>1 DEF Blank
      <3> QED
        BY <3>1, <3>2
    <2> QED
      BY <1>1, <2>1, <2>2, <2>3, FrameA, KeptWithShelf, CleanStep DEF Calm
  <1>6. CASE a \in Callers /\ CleanCancelled(a)
    <2>1. /\ UNCHANGED <<bundle, fs>> /\ me'[a].pc = "idle" /\ me'[a].seen = "none"
      BY <1>1, <1>6, LeaveDoes DEF CleanCancelled
    <2> QED
      BY <1>1, <2>1, FrameA, CalmStep DEF Calm
  <1> QED
    BY <1>2, <1>3, <1>4, <1>5, <1>6

\* Recovery keeps the first invariant.
LEMMA RecovererA ==
  ASSUME TypeInv, InvA, RecovererStep
  PROVE  InvA'
  <1> DEFINE r == Recoverer
  <1>1. /\ r \in Actors /\ r \notin Callers /\ Others(r) /\ UNCHANGED <<catalog, fs>>
        /\ {"lockCleanup", "journals", "rollStart", "attention"} \subseteq PCs
        /\ "none" \in Answers /\ Journaled \in SUBSET Files /\ MeType /\ RowsType
        /\ CommitKnown /\ KnowsCommit(r) /\ KeepsShelf
    BY RecovererActs, RecovererTypes, AllPCs, FrameA
       DEF RecovererStep, RecoverList, RecoverCheck, RecoverJournals, RecoverVerdict,
           MarkNeedsAttention, Boot, TypeInv, Answers, Journaled, InvA
  <1>2. CASE RecoverList
    <2>1. UNCHANGED bundle /\ me'[r].pc = "check" /\ me'[r].seen = bundle
      BY <1>1, <1>2 DEF RecoverList, MeType, Local
    <2>2. KnowsCommit(r)' /\ ~Writes(r)' /\ CommitKnown'
      BY <1>1, <2>1, FrameA
         DEF KnowsCommit, Writes, CommitKnown, InCritical, InRollback, InCleanup
    <2> QED
      BY <1>1, <2>2, KeptWithShelf, StepA DEF InvA
  <1>3. CASE RecoverCheck
    <2>1. /\ UNCHANGED bundle /\ me'[r].seen \in {me[r].seen, "none"}
          /\ me'[r].pc \in {"idle", "lockCleanup", "journals"}
          /\ me'[r].pc = "lockCleanup" => me[r].seen \in Committed
      BY <1>1, <1>3, GoDoes, LeaveDoes DEF RecoverCheck, Moved
    <2>2. KnowsCommit(r)' /\ ~Writes(r)' /\ CommitKnown'
      BY <1>1, <2>1, FrameA
         DEF KnowsCommit, Writes, CommitKnown, InCritical, InRollback, InCleanup, Committed
    <2> QED
      BY <1>1, <2>2, KeptWithShelf, StepA DEF InvA
  <1>4. CASE RecoverJournals \/ RecoverVerdict \/ MarkNeedsAttention
    <2>1. CommitKnown'
      <3>1. bundle' = bundle \/ (bundle' = "rolled_back" /\ bundle \in {"preparing", "publishing"})
            \/ (bundle' = "needs_attention" /\ bundle \notin {"completed", "rolled_back", "needs_attention", "resolved"})
        BY <1>4 DEF RecoverJournals, RecoverVerdict, MarkNeedsAttention
      <3> QED
        BY <1>1, <3>1 DEF CommitKnown, Committed
    <2>2. /\ me'[r].pc \in {"idle", "rollStart", "attention"}
          /\ me'[r].seen \in {me[r].seen, "none"}
      <3>1. CASE RecoverJournals
        BY <1>1, <3>1, GoDoes, LeaveDoes, ListedDoes DEF RecoverJournals, Moved
      <3>2. CASE RecoverVerdict
        BY <1>1, <3>2, GoDoes, LeaveDoes DEF RecoverVerdict, Moved
      <3>3. CASE MarkNeedsAttention
        BY <1>1, <3>3 DEF MarkNeedsAttention, Blank
      <3> QED
        BY <1>4, <3>1, <3>2, <3>3
    <2> QED
      BY <1>1, <2>1, <2>2, CalmStep DEF Calm
  <1>5. CASE Boot
    BY <1>5 DEF Boot, InvA, OneWriter, CommitKnown, OriginalKept, KnowsCommit, OldAtPlace,
       Writes, Mine, At, Stranded
  <1> QED
    BY <1>2, <1>3, <1>4, <1>5 DEF RecovererStep

\* An administrator's step and the environment's.
LEMMA OutsideA ==
  ASSUME TypeInv, InvA, Resolve \/ Crash \/ \E f \in Files : Occupy(f)
  PROVE  InvA'
  <1>1. CASE Resolve
    <2>1. \A a \in Actors : Same(a)
      BY <1>1, ResolveTypes
    <2>2. KeepsShelf /\ OriginalKept' /\ UNCHANGED <<catalog, fs>> /\ CommitKnown'
      BY <1>1, FrameA, KeptWithShelf DEF Resolve, InvA, CommitKnown, Committed
    <2>3. OneWriter'
      BY <2>1 DEF InvA, OneWriter, Writes, Same
    <2>4. \A a \in Actors : KnowsCommit(a)'
      BY <2>1, <2>2 DEF InvA, KnowsCommit, Same
    <2>5. \A c \in Callers : OldAtPlace(c)'
      BY <2>1, <2>2, CallersAct DEF InvA, OldAtPlace, Same, Mine, At, Stranded
    <2> QED
      BY <2>2, <2>3, <2>4, <2>5 DEF InvA
  <1>2. CASE Crash
    <2>1. \A a \in Actors : me'[a].pc = "idle" /\ me'[a].seen = "none"
      BY <1>2, CrashTypes DEF Blank
    <2>2. CommitKnown' /\ OriginalKept'
      BY <1>2, FrameA, KeptWithShelf DEF Crash, InvA
    <2> QED
      BY <2>1, <2>2, CallersAct DEF InvA, OneWriter, KnowsCommit, OldAtPlace, Writes,
         InCritical, InRollback, InCleanup, Committed
  <1>3. CASE \E f \in Files : Occupy(f)
    <2>1. PICK f \in Files : Occupy(f)
      BY <1>3
    <2>2. /\ UNCHANGED <<bundle, catalog, me>>
          /\ \A g \in Files : /\ fs'[g].dest = fs[g].dest
                                 \/ (fs[g].dest = "none" /\ fs'[g].dest = "foreign")
                              /\ fs'[g].backup = fs[g].backup
                              /\ fs'[g].aside = fs[g].aside /\ fs'[g].bin = fs[g].bin
      <3>1. PICK new :
              /\ fs' = [fs EXCEPT ![f] = new]
              /\ new.dest = fs[f].dest \/ (fs[f].dest = "none" /\ new.dest = "foreign")
              /\ new.backup = fs[f].backup /\ new.aside = fs[f].aside /\ new.bin = fs[f].bin
        <4>1. fs[f] \in FileState
          BY FileTypes DEF TypeInv
        <4>2. \/ fs[f].dest = "none" /\ fs' = [fs EXCEPT ![f] = [fs[f] EXCEPT !.dest = "foreign"]]
              \/ fs' = [fs EXCEPT ![f] = [fs[f] EXCEPT !.adest = "foreign"]]
          BY <2>1 DEF Occupy, TypeInv, FsType
        <4>3. CASE fs[f].dest = "none" /\ fs' = [fs EXCEPT ![f] = [fs[f] EXCEPT !.dest = "foreign"]]
          <5>1. LET g == [fs[f] EXCEPT !.dest = "foreign"] IN
                /\ g.dest = "foreign" /\ g.backup = fs[f].backup
                /\ g.aside = fs[f].aside /\ g.bin = fs[f].bin
            BY <4>1 DEF FileState
          <5> QED
            BY <4>3, <5>1
        <4>4. CASE fs' = [fs EXCEPT ![f] = [fs[f] EXCEPT !.adest = "foreign"]]
          <5>1. LET g == [fs[f] EXCEPT !.adest = "foreign"] IN
                /\ g.dest = fs[f].dest /\ g.backup = fs[f].backup
                /\ g.aside = fs[f].aside /\ g.bin = fs[f].bin
            BY <4>1 DEF FileState
          <5> QED
            BY <4>4, <5>1
        <4> QED
          BY <4>2, <4>3, <4>4
      <3>2. UNCHANGED <<bundle, catalog, me>>
        BY <2>1 DEF Occupy
      <3> QED
        BY <3>1, <3>2 DEF TypeInv, FsType
    <2>3. OriginalKept'
      BY <2>2 DEF InvA, OriginalKept
    <2>4. \A c \in Callers : OldAtPlace(c)'
      BY <2>2, UpgradeFiles DEF InvA, OldAtPlace, Mine, At, Stranded, UpgradesAreFiles
    <2> QED
      BY <2>2, <2>3, <2>4
         DEF InvA, OneWriter, CommitKnown, KnowsCommit, Writes
  <1> QED
    BY <1>1, <1>2, <1>3

\* The first invariant is inductive.
LEMMA StepInvA ==
  ASSUME TypeInv, InvA, [Next]_vars
  PROVE  InvA'
  <1>1. ASSUME NEW a \in Actors, ActorStep(a) PROVE InvA'
    <2>1. CASE a \in Callers /\ CallerStep(a)
      <3>1. CASE CriticalSection(a)
        BY <2>1, <3>1, BoundaryA, RecheckA, PublishA, JournalA, CommitA DEF CriticalSection
      <3>2. CASE ~CriticalSection(a)
        BY <2>1, <3>2, PlainA, EntryA, PrepareA, LockPublishA DEF CallerStep
      <3> QED
        BY <3>1, <3>2
    <2>2. CASE a \in Callers /\ (Call(a) \/ LockCancelled(a) \/ PublishFails(a) \/ CleanCancelled(a))
      BY <2>2, PlainA, CleanA
    <2>3. CASE WorkerStep(a) \/ RollFails(a) \/ RollAborts(a) \/ CleanFails(a)
      BY <2>3, RollbackA, RollStartA, CleanA DEF WorkerStep, ResumeImportCleanup
    <2>4. CASE a = Recoverer /\ RecovererStep
      BY <2>4, RecovererA
    <2>5. CASE Unhandled(a)
      BY <2>5, UnhandledTypes, FrameA, CalmStep DEF Calm
    <2> QED
      BY <1>1, <2>1, <2>2, <2>3, <2>4, <2>5 DEF ActorStep
  <1>2. CASE Next
    BY <1>1, <1>2, NextByActor, OutsideA
  <1>3. CASE UNCHANGED vars
    BY <1>3 DEF vars, InvA, OneWriter, CommitKnown, OriginalKept, KnowsCommit, OldAtPlace,
       Writes, Mine, At, Stranded
  <1> QED
    BY <1>2, <1>3

\* What the catalog has it keeps.
LEMMA CatalogKept == [Next]_vars /\ catalog => catalog'
  <1>1. ASSUME NEW c \in Callers, CallerStep(c), catalog PROVE catalog'
    <2>1. CASE CriticalSection(c)
      BY <1>1, <2>1 DEF CriticalSection, Boundary, Recheck, AlreadyPublished, BackUp,
         JournalBackUp, Move, PublishArtifacts, JournalPublished, Commit, ToRefresh
    <2>2. CASE \E f \in Files : PrepareImportFile(c, f)
      BY <1>1, <2>2 DEF PrepareImportFile, Replan, Swap, PlanFile, Stage, StageFails, Validate,
         Prepared, Unpublishable
    <2> QED
      BY <1>1, <2>1, <2>2 DEF CallerStep, Admit, EnsureBundle, MarkPublishing, ListJournals,
         JournalStaged, PreparationFailed, LockPublish, Refresh, RereadBundle
  <1>2. ASSUME NEW a \in Actors, WorkerStep(a), catalog PROVE catalog'
    BY <1>2 DEF WorkerStep, RollbackStart, LockRollback, RollbackImportBundle, RollSkip,
       RollMark, RollDest, RollArt, RollRest, RollTemp, RollDone, RollFinish, RollGivesUp,
       LockCleanup, ResumeImportCleanup, CleanSource, CleanReplaced, CleanFinish
  <1>3. ASSUME RecovererStep, catalog PROVE catalog'
    BY <1>3 DEF RecovererStep, RecoverList, RecoverCheck, RecoverJournals, RecoverVerdict,
       MarkNeedsAttention, Boot
  <1> QED
    BY <1>1, <1>2, <1>3 DEF Next, Call, LockCancelled, PublishFails, CleanCancelled, RollFails,
       RollAborts, CleanFails, Unhandled, RollGivesUp, Resolve, Crash, Occupy, vars

\* The track an import replaces is never lost: it is at its place, in the backup
\* beside it or in the recycle bin, and in the bin only if the import committed. So
\* for every interleaving of publishers and recovery, every crash and every failure.
THEOREM OriginalSafe == Spec => []OriginalKept
  <1>1. Init => TypeInv /\ InvA
    BY InitTypes, InitA
  <1>2. TypeInv /\ InvA /\ [Next]_vars => TypeInv' /\ InvA'
    BY StepTypes, StepInvA
  <1>3. InvA => OriginalKept
    BY DEF InvA
  <1> QED
    BY <1>1, <1>2, <1>3, PTL DEF Spec

\* What the catalogue committed is never rolled back nor published again
\* (mark_library_management_import_publishing and the rollback compare the state).
THEOREM CommitIsFinal == Spec => CommittedFinal
  <1>1. Init => TypeInv /\ InvA
    BY InitTypes, InitA
  <1>2. TypeInv /\ InvA /\ [Next]_vars => TypeInv' /\ InvA'
    BY StepTypes, StepInvA
  <1>3. InvA /\ InvA' /\ [Next]_vars => [catalog => bundle' \notin {"publishing", "rolled_back"}]_vars
    <2> SUFFICES ASSUME InvA, InvA', [Next]_vars, catalog, vars' # vars
                 PROVE  bundle' \notin {"publishing", "rolled_back"}
      OBVIOUS
    <2>1. catalog'
      BY CatalogKept
    <2> QED
      BY <2>1 DEF InvA, CommitKnown, Committed
  <1> QED
    BY <1>1, <1>2, <1>3, PTL DEF Spec, CommittedFinal

--------------------------------------------------------------------------------
(* The download's own file. Without periodic recovery a bundle has one      *)
(* actor at a time (Alone): callers exclude one another by the bundle's     *)
(* lock, and recovery runs before the callers do (Turns). Then what an      *)
(* actor last did to the bundle's row is still what the row says (BundleAt),*)
(* the files it has gone past are on the shelf (Placed), and so the commit  *)
(* finds all of them there (Delivered).                                     *)

Busy(a) == IF a = Recoverer THEN me[a].pc # "idle" ELSE Inside(a)
Alone == \A a, b \in Actors : Busy(a) /\ Busy(b) => a = b
Turns == /\ me[Recoverer].pc # "idle" => ~booted
         /\ \A c \in Callers : me[c].pc # "idle" => booted

Working == {"list", "lockPublish", "rollStart", "lockRollback"}
           \union PreparePCs \union InCritical \union InRollback
InCleaning == {"catalog_committed", "cleanup_pending"}

\* What the bundle's row says while an actor is where it is.
BundleAt(a) ==
  /\ me[a].pc = "mark" => bundle = me[a].seen
  /\ me[a].pc \in Working => bundle = "publishing"
  /\ me[a].pc = "refresh" => bundle \in {"publishing", "catalog_committed"}
  /\ me[a].pc = "reread" => bundle = "catalog_committed"
  /\ me[a].pc \in {"lockCleanup"} \union InCleanup => bundle \in InCleaning
  /\ a = Recoverer /\ me[a].pc = "check" => bundle = me[a].seen /\ bundle \in Recoverable
  /\ a = Recoverer /\ me[a].pc = "journals"
       => bundle = me[a].seen /\ bundle \in {"preparing", "publishing"}

\* The files that the critical section has gone past.
Placed(a) ==
  /\ me[a].pc \in {"publish", "backedUp", "moved", "placed"} =>
       \A f \in Files : f < At(a) \/ Mine(a, f) = "published" => fs[f].dest = "new"
  /\ me[a].pc \in {"moved", "placed"} => fs[At(a)].dest = "new"
  /\ me[a].pc = "commit" => \A f \in Files : fs[f].dest = "new"

Delivered == catalog => \A f \in Files : fs[f].dest = "new"

InvB == /\ Alone /\ Turns /\ Delivered /\ SourceKept
        /\ \A a \in Actors : BundleAt(a) /\ Placed(a)

\* The second invariant holds at the start.
LEMMA InitB == Init => InvB
  <1> SUFFICES ASSUME Init PROVE InvB
    OBVIOUS
  <1>1. \A a \in Actors : me[a].pc = "idle"
    BY DEF Init, Blank
  <1>2. SourceKept /\ Delivered
    BY DEF Init, SourceKept, Delivered
  <1>3. \A a \in Actors : BundleAt(a) /\ Placed(a)
    BY <1>1 DEF BundleAt, Placed, Working, PreparePCs, InCritical, InRollback, InCleanup
  <1>4. Alone /\ Turns
    BY <1>1, CallersAct, RecovererActs DEF Alone, Turns, Busy, Inside, Entered, PreparePCs,
       InCritical, InRollback, InCleanup
  <1> QED
    BY <1>2, <1>3, <1>4 DEF InvB

\* A place where the bundle's row says nothing.
Free == {"idle", "waiting", "ensure", "verdict", "attention", "escalate"}

\* Who is free, and who is at work on the bundle.
LEMMA FreePlaces ==
  ASSUME NEW a \in Actors
  PROVE  /\ ~Busy(a)' \/ me'[a].pc \in Free => BundleAt(a)' /\ Placed(a)'
         /\ me[a].pc \in Working \union {"mark", "refresh", "reread", "lockCleanup"}
                         \union InCleanup => Busy(a)
         /\ a \in Callers \/ a = Recoverer
  BY RecovererActs DEF Free, BundleAt, Placed, Working, PreparePCs, InCritical, InRollback,
     InCleanup, Busy, Inside, Entered, Actors

\* A step of the actor that has the bundle. The others have no part in it.
LEMMA StepB ==
  ASSUME InvB, NEW a \in Actors, Busy(a), Others(a), UNCHANGED booted,
         BundleAt(a)', Placed(a)', Delivered', SourceKept'
  PROVE  InvB'
  <1>1. \A b \in Actors \ {a} : Same(b) /\ ~Busy(b) /\ ~Busy(b)'
    BY DEF InvB, Alone, Others, Same, Busy, Inside
  <1>2. \A b \in Actors : BundleAt(b)' /\ Placed(b)'
    BY <1>1, FreePlaces
  <1>3. Alone'
    BY <1>1 DEF Alone
  <1>4. Turns'
    <2>1. CASE a = Recoverer
      BY <1>1, <2>1, CallersAct, RecovererActs DEF InvB, Turns, Same, Busy
    <2>2. CASE a \in Callers
      <3>1. me[a].pc # "idle" /\ me'[Recoverer].pc = me[Recoverer].pc
        BY <1>1, <2>2, RecovererActs DEF Busy, Inside, Entered, PreparePCs, InCritical,
           InRollback, InCleanup, Same
      <3> QED
        BY <1>1, <2>2, <3>1, CallersAct DEF InvB, Turns, Same
    <2> QED
      BY <2>1, <2>2, FreePlaces
  <1> QED
    BY <1>2, <1>3, <1>4 DEF InvB

\* Before the commit, a step that leaves the download's own files.
LEMMA UncommittedFiles ==
  ASSUME TypeInv, InvB, ~catalog, UNCHANGED catalog, KeepsSource
  PROVE  Delivered' /\ SourceKept'
  BY DEF InvB, Delivered, SourceKept, KeepsSource

\* Delivery and the sources do not change while catalog and files stay.
LEMMA SameFiles ==
  ASSUME InvB, UNCHANGED <<catalog, fs>>
  PROVE  Delivered' /\ SourceKept'
  BY DEF InvB, Delivered, SourceKept

\* A step of the actor that is publishing, or rolling back, what is not committed.
LEMMA WorkStep ==
  ASSUME TypeInv, InvA, InvB, NEW a \in Actors, me[a].pc \in Working, Others(a),
         UNCHANGED <<catalog, booted>>, KeepsSource,
         \/ me'[a].pc \in Free
         \/ me'[a].pc \in Working \union {"refresh"} /\ UNCHANGED bundle /\ Placed(a)'
  PROVE  InvB'
  <1>1. bundle = "publishing" /\ Busy(a)
    BY FreePlaces DEF InvB, BundleAt
  <1>2. ~catalog
    BY <1>1 DEF InvA, CommitKnown, Committed
  <1>3. BundleAt(a)' /\ Placed(a)'
    <2>1. CASE me'[a].pc \in Free
      BY <2>1, FreePlaces
    <2>2. CASE me'[a].pc \notin Free
      BY <1>1, <2>2 DEF BundleAt, Working, PreparePCs, InCritical, InRollback, InCleanup
    <2> QED
      BY <2>1, <2>2
  <1> QED
    BY <1>1, <1>2, <1>3, UncommittedFiles, StepB

\* At these places Placed says nothing.
Elsewhere == {"list", "lockPublish", "rollStart", "lockRollback", "boundary", "recheck"}
             \union PreparePCs \union InRollback \union {"refresh"}

\* At such a place an actor has nothing placed to answer for.
LEMMA ElsewherePlaced ==
  ASSUME NEW a \in Actors, me'[a].pc \in Elsewhere
  PROVE  me'[a].pc \in Working \union {"refresh"} /\ Placed(a)'
  BY DEF Elsewhere, Working, Placed, PreparePCs, InCritical, InRollback

\* The bundle's lock: a caller is let in when no other is inside.
LEMMA CallB ==
  ASSUME TypeInv, InvB, NEW c \in Callers, Call(c) \/ Admit(c)
  PROVE  InvB'
  <1>1. /\ c \in Actors /\ c # Recoverer /\ Others(c) /\ booted' = booted
        /\ UNCHANGED <<bundle, catalog, fs>>
    BY CallersAct, RecovererActs, PlainTypes DEF Call, Admit
  <1>2. /\ booted
        /\ \/ me'[c].pc = "waiting"
           \/ me'[c].pc = "ensure" /\ \A d \in Callers : ~Inside(d)
    <2>1. CASE Call(c)
      <3>1. Go(c, "waiting")
        BY <2>1 DEF Call
      <3> QED
        BY <1>1, <2>1, <3>1, AllPCs, GoDoes DEF Call, TypeInv, Moved
    <2>2. CASE Admit(c)
      BY <1>1, <2>2, AllPCs, GoDoes DEF Admit, TypeInv, Moved, InvB, Turns
    <2> QED
      BY <2>1, <2>2
  <1>3. me[Recoverer].pc = "idle" /\ me'[Recoverer].pc = "idle"
    BY <1>1, <1>2, RecovererActs DEF InvB, Turns, Others, Same
  <1>4. \A b \in Actors \ {c} : Busy(b)' = Busy(b) /\ Same(b)
    BY <1>1 DEF Others, Same, Busy, Inside
  <1>5. Alone'
    <2>1. CASE me'[c].pc = "waiting"
      <3>1. ~Busy(c)'
        BY <1>1, <2>1 DEF Busy, Inside, Entered, PreparePCs, InCritical, InRollback, InCleanup
      <3> QED
        BY <1>4, <3>1 DEF InvB, Alone
    <2>2. CASE \A d \in Callers : ~Inside(d)
      <3>1. \A b \in Actors \ {c} : ~Busy(b)
        BY <1>3, <2>2, FreePlaces DEF Busy
      <3> QED
        BY <1>4, <3>1 DEF Alone
    <2> QED
      BY <1>2, <2>1, <2>2
  <1>6. Turns'
    BY <1>1, <1>2, <1>3, <1>4, CallersAct DEF Turns, InvB, Same
  <1>7. \A b \in Actors : BundleAt(b)' /\ Placed(b)'
    <2>1. BundleAt(c)' /\ Placed(c)'
      BY <1>1, <1>2, FreePlaces DEF Free
    <2>2. ASSUME NEW b \in Actors \ {c} PROVE BundleAt(b)' /\ Placed(b)'
      BY <1>1, <1>4, <2>2 DEF InvB, BundleAt, Placed, Same, Mine, At
    <2> QED
      BY <2>1, <2>2
  <1> QED
    BY <1>1, <1>5, <1>6, <1>7, SameFiles DEF InvB

\* Making sure of the bundle keeps the second invariant.
LEMMA EntryB ==
  ASSUME TypeInv, InvA, InvB, NEW c \in Callers,
         EnsureBundle(c) \/ MarkPublishing(c) \/ Refresh(c) \/ RereadBundle(c)
  PROVE  InvB'
  <1>1. /\ c \in Actors /\ c # Recoverer /\ Others(c) /\ BundleAt(c)
        /\ UNCHANGED <<catalog, fs, booted>> /\ Delivered' /\ SourceKept'
    BY CallersAct, RecovererActs, EntryTypes, PlainTypes, SameFiles
       DEF EnsureBundle, MarkPublishing, Refresh, RereadBundle, InvB
  <1>2. {"lockCleanup", "list", "rollStart"} \subseteq PCs
        /\ {"ok", "refused", "error"} \subseteq Answers /\ MeType
    BY AllPCs DEF Answers, TypeInv
  <1>3. Busy(c)
    BY <1>1 DEF EnsureBundle, MarkPublishing, Refresh, RereadBundle, Busy, Inside, Entered
  <1>4. /\ me'[c].pc \in {"idle", "lockCleanup", "mark", "list", "rollStart"}
        /\ me'[c].pc = "lockCleanup" => bundle' \in InCleaning
        /\ me'[c].pc = "mark" => bundle' = me'[c].seen
        /\ me'[c].pc \in {"list", "rollStart"} => bundle' = "publishing"
    <2>1. CASE EnsureBundle(c)
      <3>1. bundle' \in BundleStates \ {"none"}
        BY <2>1, AllStates DEF EnsureBundle, TypeInv, BundleType
      <3>2. \/ \E how \in {"ok", "refused"} : Leave(c, how)
            \/ bundle' \in InCleaning /\ Go(c, "lockCleanup")
            \/ bundle' = "publishing" /\ Go(c, "list")
            \/ me' = [me EXCEPT ![c].pc = "mark", ![c].seen = bundle']
        <4>1. bundle' \in {"completed", "catalog_committed", "cleanup_pending", "needs_attention",
                           "resolved", "preparing", "rolled_back", "publishing"}
          BY <3>1, AllStates
        <4> QED
          BY <2>1, <4>1 DEF EnsureBundle, Committed, InCleaning
      <3>3. CASE \E how \in {"ok", "refused"} : Leave(c, how)
        BY <1>1, <1>2, <3>3, LeaveDoes
      <3>4. CASE bundle' \in InCleaning /\ Go(c, "lockCleanup")
        BY <1>1, <1>2, <3>4, GoDoes DEF Moved
      <3>5. CASE bundle' = "publishing" /\ Go(c, "list")
        BY <1>1, <1>2, <3>5, GoDoes DEF Moved
      <3>6. CASE me' = [me EXCEPT ![c].pc = "mark", ![c].seen = bundle']
        BY <1>1, <1>2, <3>6 DEF MeType, Local
      <3> QED
        BY <3>2, <3>3, <3>4, <3>5, <3>6
    <2>2. CASE MarkPublishing(c)
      BY <1>1, <1>2, <2>2, GoDoes, LeaveDoes DEF MarkPublishing, Moved
    <2>3. CASE Refresh(c)
      BY <1>1, <1>2, <2>3, GoDoes DEF Refresh, Moved, BundleAt, Committed, InCleaning
    <2>4. CASE RereadBundle(c)
      BY <1>1, <1>2, <2>4, GoDoes DEF RereadBundle, Moved, BundleAt, InCleaning
    <2> QED
      BY <2>1, <2>2, <2>3, <2>4
  <1>5. BundleAt(c)' /\ Placed(c)'
    BY <1>1, <1>4 DEF BundleAt, Placed, Working, PreparePCs, InCritical, InRollback, InCleanup
  <1> QED
    BY <1>1, <1>3, <1>5, StepB

\* The plain steps of a caller keep the second invariant.
LEMMA PlainB ==
  ASSUME TypeInv, InvA, InvB, NEW c \in Callers,
         \/ ListJournals(c) \/ LockPublish(c) \/ LockCancelled(c) \/ PublishFails(c)
         \/ \E f \in Files : PrepareImportFile(c, f)
         \/ JournalStaged(c) \/ PreparationFailed(c)
  PROVE  InvB'
  <1>1. /\ c \in Actors /\ Others(c) /\ MeType /\ RowsType
        /\ {"prepare", "refresh", "boundary"} \subseteq PCs /\ 1 \in Files /\ {} \in SUBSET Files
    BY CallersAct, EntryTypes, PlainTypes, PrepareTypes, StagedTypes, AllPCs, Numbers DEF TypeInv
  <1>2. CASE ListJournals(c) \/ LockPublish(c) \/ LockCancelled(c) \/ PublishFails(c)
    <2>1. /\ me[c].pc \in Working /\ UNCHANGED <<bundle, catalog, booted, fs>>
          /\ \/ Listed(c, "prepare", {})
             \/ GoAt(c, "boundary", 1)
             \/ Go(c, "refresh")
      BY <1>2 DEF ListJournals, LockPublish, LockCancelled, PublishFails, Working, InCritical
    <2>2. me'[c].pc \in {"prepare", "boundary", "refresh"}
      BY <1>1, <2>1, ListedDoes, GoAtDoes, GoDoes DEF Moved
    <2> QED
      BY <1>1, <2>1, <2>2, ElsewherePlaced, FrameA, WorkStep DEF Elsewhere, PreparePCs
  <1>3. CASE \/ \E f \in Files : PrepareImportFile(c, f)
             \/ JournalStaged(c) \/ PreparationFailed(c)
    BY <1>1, <1>3, PrepareGoes, ElsewherePlaced, WorkStep DEF Elsewhere, PreparePCs, Working
  <1> QED
    BY <1>2, <1>3

\* The interrupted publication and the checks before the first move.
LEMMA ChecksB ==
  ASSUME TypeInv, InvA, InvB, NEW c \in Callers, Boundary(c) \/ Recheck(c)
  PROVE  InvB'
  <1>0. PICK f \in Files : f = At(c)
    BY CallersAct, Locals DEF TypeInv
  <1> DEFINE next == IF f = NFiles THEN "recheck" ELSE "boundary"
             then == IF f = NFiles THEN 1 ELSE f + 1
  <1>1. /\ c \in Actors /\ Others(c) /\ MeType /\ RowsType /\ FsType /\ 1 \in Files
        /\ {"refresh", "publish", next} \subseteq PCs /\ then \in Files
        /\ {"published", "replacement_backed_up"} \subseteq RowStates
        /\ me[c].pc \in Working /\ UNCHANGED <<bundle, catalog, booted>>
    BY <1>0, CallersAct, BoundaryTypes, RecheckTypes, AllPCs, AllStates, Numbers
       DEF TypeInv, Boundary, Recheck, Working, InCritical
  <1>2. CASE Boundary(c)
    <2>1. /\ fs' = CoverPlaced(f) \/ fs' = fs
          /\ \/ \E s \in {"published", "replacement_backed_up"} : Transition(c, f, s, next, then)
             \/ Go(c, "refresh")
             \/ GoAt(c, next, then)
      BY <1>0, <1>2 DEF Boundary
    <2>2. KeepsSource
      BY <2>1, CoverPlacedDoes DEF KeepsSource, TypeInv
    <2>3. me'[c].pc \in {"refresh", "boundary", "recheck"}
      <3> HIDE DEF then
      <3>1. CASE \E s \in {"published", "replacement_backed_up"} : Transition(c, f, s, next, then)
        BY <1>1, <3>1, TransitionDoes
      <3>2. CASE Go(c, "refresh")
        BY <1>1, <3>2, GoDoes DEF Moved
      <3>3. CASE GoAt(c, next, then)
        BY <1>1, <3>3, GoAtDoes DEF Moved
      <3> QED
        BY <2>1, <3>1, <3>2, <3>3
    <2> QED
      BY <1>1, <2>2, <2>3, ElsewherePlaced, WorkStep DEF Elsewhere
  <1>3. CASE Recheck(c)
    <2>1. CASE \A g \in Files : FileOK(c, g)
      <3>1. /\ KeepsSource /\ \A g \in Files : fs'[g].dest = fs[g].dest
        <4>1. \A g \in Files : LET new == [fs[g] EXCEPT !.atemp = FALSE] IN
                new.src = fs[g].src /\ new.dest = fs[g].dest
          BY FileTypes DEF TypeInv, FileState
        <4> QED
          BY <1>3, <2>1, <4>1 DEF Recheck, KeepsSource
      <3>2. me'[c].pc = "publish" /\ me'[c].at = 1 /\ me'[c].rows = me[c].rows
        BY <1>1, <1>3, <2>1, GoAtDoes DEF Recheck, Moved
      <3>3. Placed(c)'
        BY <2>1, <3>1, <3>2 DEF Placed, FileOK, Mine, At, Files
      <3> QED
        BY <1>1, <3>1, <3>2, <3>3, WorkStep DEF Working, InCritical
    <2>2. CASE ~\A g \in Files : FileOK(c, g)
      BY <1>1, <1>3, <2>2, GoDoes, ElsewherePlaced, FrameA, WorkStep
         DEF Recheck, Moved, Elsewhere
    <2> QED
      BY <2>1, <2>2
  <1> QED
    BY <1>2, <1>3

\* The steps on a file's entries keep the second invariant.
LEMMA PublishB ==
  ASSUME TypeInv, InvA, InvB, NEW c \in Callers,
         BackUp(c) \/ Move(c) \/ PublishArtifacts(c)
  PROVE  InvB'
  <1>0. PICK f \in Files : f = At(c)
    BY CallersAct, Locals DEF TypeInv
  <1>1. /\ c \in Actors /\ {"refresh", "backedUp", "moved", "placed"} \subseteq PCs
        /\ Others(c) /\ me[c].pc \in {"publish", "moved"} /\ Placed(c)
        /\ UNCHANGED <<bundle, catalog, booted>> /\ f = me[c].at
    BY <1>0, CallersAct, AllPCs, PublishTypes
       DEF BackUp, Move, PublishArtifacts, InvB, At
  <1>2. PICK pc \in {"refresh", "backedUp", "moved", "placed"} : Go(c, pc)
    BY DEF BackUp, Move, PublishArtifacts
  <1>3. /\ me'[c].pc = pc /\ me'[c].at = f /\ me'[c].rows = me[c].rows
    BY <1>1, <1>2, GoDoes DEF TypeInv, Moved
  <1>4. /\ \A g \in Files \ {f} : fs'[g].dest = fs[g].dest
        /\ KeepsSource
        /\ \/ pc = "refresh"
           \/ pc = "backedUp" /\ Mine(c, f) # "published"
           \/ pc = "moved" /\ fs'[f].dest = "new"
           \/ pc = "placed" /\ me[c].pc = "moved" /\ fs'[f].dest = fs[f].dest
    <2>1. fs[f] \in FileState
      BY FileTypes DEF TypeInv
    <2>2. CASE BackUp(c)
      <3>1. \/ fs' = fs /\ pc = "refresh"
            \/ /\ fs' = [fs EXCEPT ![f] = [fs[f] EXCEPT !.dest = "none", !.backup = fs[f].dest]]
               /\ pc = "backedUp" /\ Mine(c, f) # "published"
        <4>1. /\ Mine(c, f) = "validated"
              /\ \/ fs' = fs /\ Go(c, "refresh")
                 \/ /\ fs' = [fs EXCEPT ![f].dest = "none", ![f].backup = fs[f].dest]
                    /\ Go(c, "backedUp")
          BY <1>0, <2>2 DEF BackUp
        <4>2. \A p \in PCs : Go(c, p) => me'[c].pc = p
          BY <1>1, GoDoes DEF TypeInv, Moved
        <4>3. [fs EXCEPT ![f].dest = "none", ![f].backup = fs[f].dest]
                = [fs EXCEPT ![f] = [fs[f] EXCEPT !.dest = "none", !.backup = fs[f].dest]]
          BY DEF TypeInv, FsType
        <4> QED
          BY <1>1, <1>3, <4>1, <4>2, <4>3
      <3>2. [fs[f] EXCEPT !.dest = "none", !.backup = fs[f].dest].src = fs[f].src
        BY <2>1 DEF FileState
      <3> QED
        BY <3>1, <3>2 DEF KeepsSource, TypeInv, FsType
    <2>3. CASE Move(c)
      <3>1. \/ fs' = fs /\ pc = "refresh"
            \/ /\ fs' = [fs EXCEPT ![f] = [fs[f] EXCEPT !.temp = FALSE, !.dest = "new"]]
               /\ pc = "moved"
        <4>1. \/ fs' = fs /\ Go(c, "refresh")
              \/ fs' = [fs EXCEPT ![f].temp = FALSE, ![f].dest = "new"] /\ Go(c, "moved")
          BY <1>0, <2>3 DEF Move
        <4>2. \A p \in PCs : Go(c, p) => me'[c].pc = p
          BY <1>1, GoDoes DEF TypeInv, Moved
        <4>3. [fs EXCEPT ![f].temp = FALSE, ![f].dest = "new"]
                = [fs EXCEPT ![f] = [fs[f] EXCEPT !.temp = FALSE, !.dest = "new"]]
          BY DEF TypeInv, FsType
        <4> QED
          BY <1>1, <1>3, <4>1, <4>2, <4>3
      <3>2. LET new == [fs[f] EXCEPT !.temp = FALSE, !.dest = "new"] IN
              new.src = fs[f].src /\ new.dest = "new"
        BY <2>1 DEF FileState
      <3> QED
        BY <3>1, <3>2 DEF KeepsSource, TypeInv, FsType
    <2>4. CASE PublishArtifacts(c)
      <3>1. \/ fs' = fs /\ pc = "refresh"
            \/ fs' = CoverPlaced(f) /\ pc = "placed" /\ me[c].pc = "moved"
        BY <1>0, <1>1, <1>3, <2>4 DEF PublishArtifacts, Go, TypeInv, MeType, Local
      <3> QED
        BY <3>1, CoverPlacedDoes, FrameA DEF KeepsSource, TypeInv
    <2> QED
      BY <2>2, <2>3, <2>4
  <1>5. Placed(c)'
    <2>1. \A g \in Files : g < f \/ Mine(c, g) = "published" => fs[g].dest = "new"
      BY <1>1 DEF Placed, At
    <2>2. me[c].pc = "moved" => fs[f].dest = "new"
      BY <1>1 DEF Placed, At
    <2>3. \A g \in Files : (g < f \/ me'[c].rows[g].state = "published") /\ pc # "refresh"
                             => fs'[g].dest = "new"
      BY <1>3, <1>4, <2>1, <2>2 DEF Mine, Files
    <2> QED
      BY <1>3, <1>4, <2>2, <2>3 DEF Placed, At, Mine
  <1> QED
    BY <1>1, <1>3, <1>4, <1>5, WorkStep DEF Working, InCritical

\* Recording what was done keeps the second invariant.
LEMMA JournalB ==
  ASSUME TypeInv, InvA, InvB, NEW c \in Callers,
         AlreadyPublished(c) \/ JournalBackUp(c) \/ JournalPublished(c)
  PROVE  InvB'
  <1>0. PICK f \in Files : f = At(c)
    BY CallersAct, Locals DEF TypeInv
  <1> DEFINE then == IF f = NFiles THEN 1 ELSE f + 1
  <1>1. /\ c \in Actors /\ {"refresh", "publish", After(f)} \subseteq PCs
        /\ {"replacement_backed_up", "published"} \subseteq RowStates /\ then \in Files
        /\ Others(c) /\ Placed(c) /\ UNCHANGED <<bundle, catalog, booted, fs>> /\ f = me[c].at
        /\ me[c].pc \in {"publish", "backedUp", "placed"} /\ MeType /\ RowsType
    BY <1>0, CallersAct, AllPCs, AllStates, PlainTypes, JournalTypes, Numbers
       DEF AlreadyPublished, JournalBackUp, JournalPublished, ToRefresh, InvB, At, After, TypeInv
  <1>2. \/ GoAt(c, After(f), then) /\ fs[f].dest = "new"
        \/ Transition(c, f, "replacement_backed_up", "publish", f)
        \/ Transition(c, f, "published", After(f), then) /\ fs[f].dest = "new"
        \/ Go(c, "refresh")
    BY <1>0, <1>1 DEF AlreadyPublished, JournalBackUp, JournalPublished, ToRefresh, Placed
  <1>3. CASE Go(c, "refresh")
    BY <1>1, <1>3, GoDoes, FrameA, ElsewherePlaced, WorkStep
       DEF Moved, Elsewhere, Working, InCritical
  <1>4. CASE ~Go(c, "refresh")
    <2>1. /\ \A g \in Files \ {f} : me'[c].rows[g] = me[c].rows[g]
          /\ \/ f = NFiles /\ me'[c].pc = "commit" /\ fs[f].dest = "new"
             \/ me'[c].pc = "publish" /\ me'[c].at = f + 1 /\ fs[f].dest = "new"
             \/ /\ me'[c].pc = "publish" /\ me'[c].at = f
                /\ me'[c].rows[f].state = "replacement_backed_up"
      <3> HIDE DEF then
      <3>1. CASE GoAt(c, After(f), then) /\ fs[f].dest = "new"
        BY <1>1, <3>1, GoAtDoes DEF Moved, After, then
      <3>2. CASE Transition(c, f, "replacement_backed_up", "publish", f)
        BY <1>1, <3>2, TransitionDoes
      <3>3. CASE Transition(c, f, "published", After(f), then) /\ fs[f].dest = "new"
        BY <1>1, <3>3, TransitionDoes DEF After, then
      <3> QED
        BY <1>2, <1>4, <3>1, <3>2, <3>3
    <2>2. \A g \in Files : g < f \/ me[c].rows[g].state = "published" => fs[g].dest = "new"
      BY <1>1 DEF Placed, At, Mine
    <2>3. \A g \in Files : g \in Int /\ g \leq NFiles /\ f \in Int /\ NFiles \in Int
      BY ConstantsOK DEF Files
    <2>4. Placed(c)'
      BY <1>1, <2>1, <2>2, <2>3 DEF Placed, At, Mine
    <2>5. me'[c].pc \in Working
      BY <2>1 DEF Working, InCritical
    <2> QED
      BY <1>1, <2>4, <2>5, FrameA, WorkStep DEF Working, InCritical
  <1> QED
    BY <1>3, <1>4

\* The commit keeps the second invariant.
LEMMA CommitB ==
  ASSUME TypeInv, InvA, InvB, NEW c \in Callers, Commit(c)
  PROVE  InvB'
  <1>1. /\ c \in Actors /\ c # Recoverer /\ Others(c) /\ fs' = fs /\ booted' = booted
        /\ me[c].pc = "commit" /\ me[c].pc \in Working
        /\ \A f \in Files : fs[f].dest = "new"
    BY CallersAct, RecovererActs, CommitTypes DEF Commit, InvB, Placed, Working, InCritical
  <1>2. CASE Go(c, "refresh") /\ UNCHANGED <<bundle, catalog>>
    BY <1>1, <1>2, AllPCs, GoDoes, FrameA, ElsewherePlaced, WorkStep
       DEF TypeInv, Moved, Elsewhere
  <1>3. CASE /\ bundle' = "catalog_committed" /\ catalog' = TRUE
             /\ me'[c].pc \in {"reread", "refresh"}
    <2>1. BundleAt(c)' /\ Placed(c)'
      BY <1>1, <1>3 DEF BundleAt, Placed, Working, PreparePCs, InCritical, InRollback, InCleanup
    <2>2. Delivered' /\ SourceKept'
      BY <1>1, <1>3 DEF Delivered, SourceKept
    <2> QED
      BY <1>1, <2>1, <2>2, FreePlaces, StepB
  <1>4. \/ Go(c, "refresh") /\ UNCHANGED <<bundle, catalog>>
        \/ /\ bundle' = "catalog_committed" /\ catalog' = TRUE
           /\ \E pc \in {"reread", "refresh"} :
                me' = [a \in Actors |-> [me[a] EXCEPT !.fresh = {}, !.pc = IF a = c THEN pc ELSE @]]
    BY DEF Commit
  <1>5. ASSUME NEW pc \in {"reread", "refresh"},
               me' = [a \in Actors |-> [me[a] EXCEPT !.fresh = {}, !.pc = IF a = c THEN pc ELSE @]]
        PROVE  me'[c].pc = pc
    BY <1>1, <1>5 DEF TypeInv, MeType, Local
  <1> QED
    BY <1>2, <1>3, <1>4, <1>5

\* Undoing a file's entries leaves its source alone.
LEMMA RollFsKeepsSource ==
  ASSUME TypeInv, NEW a \in Actors,
         RollDest(a) \/ RollArt(a) \/ RollRest(a) \/ RollTemp(a)
  PROVE  KeepsSource
  <1>0. PICK f \in Files : f = At(a)
    BY Locals DEF TypeInv
  <1>1. \/ fs' = fs
        \/ fs' = [fs EXCEPT ![f] = [fs[f] EXCEPT !.dest = "none"]]
        \/ fs' = [fs EXCEPT ![f] = [fs[f] EXCEPT !.adest = "none"]]
        \/ fs' = [fs EXCEPT ![f] = [fs[f] EXCEPT !.atemp = FALSE]]
        \/ fs' = [fs EXCEPT ![f] = [fs[f] EXCEPT !.temp = FALSE]]
        \/ fs' = [fs EXCEPT ![f] = [fs[f] EXCEPT !.atemp = FALSE, !.backup = "none",
                              !.dest = IF fs[f].backup = "old" THEN "old" ELSE @]]
    BY <1>0 DEF RollDest, RollArt, RollRest, RollTemp, TypeInv, FsType
  <1>2. /\ [fs[f] EXCEPT !.dest = "none"].src = fs[f].src
        /\ [fs[f] EXCEPT !.adest = "none"].src = fs[f].src
        /\ [fs[f] EXCEPT !.atemp = FALSE].src = fs[f].src
        /\ [fs[f] EXCEPT !.temp = FALSE].src = fs[f].src
        /\ [fs[f] EXCEPT !.atemp = FALSE, !.backup = "none",
                         !.dest = IF fs[f].backup = "old" THEN "old" ELSE @].src = fs[f].src
    BY FileTypes DEF TypeInv, FileState
  <1> QED
    BY <1>1, <1>2 DEF KeepsSource, TypeInv, FsType

\* The rollback keeps the second invariant.
LEMMA RollB ==
  ASSUME TypeInv, InvA, InvB, NEW a \in Actors,
         \/ RollbackStart(a) \/ LockRollback(a) \/ RollAborts(a)
         \/ RollbackImportBundle(a) \/ RollFails(a)
  PROVE  InvB'
  <1>1. /\ Others(a) /\ me[a].pc \in Working /\ UNCHANGED <<catalog, booted>>
        /\ At(a) \in Files /\ {"verdict", "lockRollback", "roll"} \subseteq PCs
        /\ "rolled_back" \in RowStates /\ NFiles \in Files
        /\ Lower(At(a)) \in {"roll", "rollFinish"} \intersect PCs /\ LowerAt(At(a)) \in Files
        /\ {"rollArt", "rollRest", "rollTemp", "rollDone"} \subseteq PCs
        /\ "error" \in Answers /\ MeType /\ RowsType
    BY RollTypes, RollbackTypes, Locals, LowerTypes, AllPCs, AllStates, Numbers
       DEF RollbackStart, LockRollback, RollAborts, RollbackImportBundle, RollSkip, RollMark,
           RollDest, RollArt, RollRest, RollTemp, RollDone, RollFinish, RollFails, RollGivesUp,
           Working, InRollback, TypeInv, Answers
  <1>2. CASE RollDest(a) \/ RollArt(a) \/ RollRest(a) \/ RollTemp(a)
    <2>1. /\ UNCHANGED bundle
          /\ me'[a].pc \in {"rollArt", "rollRest", "rollTemp", "rollDone", "roll", "rollFinish"}
      BY <1>1, <1>2, RollFsTypes, RollGivesUpDoes, GoDoes DEF Moved
    <2> QED
      BY <1>1, <1>2, <2>1, RollFsKeepsSource, ElsewherePlaced, WorkStep DEF Elsewhere, InRollback
  <1>3. CASE RollSkip(a) \/ RollMark(a) \/ RollDone(a) \/ RollFails(a) \/ LockRollback(a)
    <2>1. UNCHANGED <<bundle, fs>> /\ me'[a].pc \in {"roll", "rollFinish", "rollDest"}
      <3>1. CASE RollSkip(a)
        BY <1>1, <3>1, GoAtDoes DEF RollSkip, Moved
      <3>2. CASE RollMark(a)
        BY <3>2, RollMarkDoes
      <3>3. CASE RollDone(a)
        BY <1>1, <3>3, TransitionDoes, RollGivesUpDoes DEF RollDone
      <3>4. CASE RollFails(a)
        BY <1>1, <3>4, RollGivesUpDoes DEF RollFails
      <3>5. CASE LockRollback(a)
        BY <1>1, <3>5, GoAtDoes DEF LockRollback, Moved
      <3> QED
        BY <1>3, <3>1, <3>2, <3>3, <3>4, <3>5
    <2> QED
      BY <1>1, <2>1, FrameA, ElsewherePlaced, WorkStep DEF Elsewhere, InRollback
  <1>4. CASE RollFinish(a) \/ RollAborts(a)
    <2>1. fs' = fs /\ me'[a].pc \in {"idle", "verdict", "attention"}
      BY <1>1, <1>4, GoDoes, LeaveDoes, RaiseDoes DEF RollFinish, RollAborts, Moved
    <2> QED
      BY <1>1, <2>1, FrameA, WorkStep DEF Free
  <1>5. CASE RollbackStart(a)
    <2>1. fs' = fs /\ \/ me'[a].pc \in {"idle", "verdict"}
                      \/ me'[a].pc = "lockRollback" /\ bundle' = bundle
      BY <1>1, <1>5, GoDoes, LeaveDoes DEF RollbackStart, Moved
    <2> QED
      BY <1>1, <2>1, FrameA, ElsewherePlaced, WorkStep DEF Free, Elsewhere
  <1> QED
    BY <1>2, <1>3, <1>4, <1>5 DEF RollbackImportBundle

\* The cleanup keeps the second invariant.
LEMMA CleanB ==
  ASSUME TypeInv, InvA, InvB, NEW a \in Actors,
         \/ LockCleanup(a) \/ CleanSource(a) \/ CleanReplaced(a) \/ CleanFails(a)
         \/ CleanFinish(a) \/ (a \in Callers /\ CleanCancelled(a))
  PROVE  InvB'
  <1>0. PICK f \in Files : f = At(a)
    BY Locals DEF TypeInv
  <1>1. /\ Others(a) /\ Busy(a) /\ catalog /\ UNCHANGED <<catalog, booted>>
        /\ bundle \in InCleaning /\ {"clean", "cleanReplaced"} \subseteq PCs
        /\ {} \in SUBSET Files /\ {f} \in SUBSET Files /\ MeType /\ RowsType
        /\ "cancelled" \in Answers
    <2>1. Others(a) /\ UNCHANGED <<catalog, booted>>
      BY CleanTypes, CleanFinishTypes, CleanCancelledTypes
         DEF LockCleanup, CleanSource, CleanReplaced, CleanFails, CleanFinish, CleanCancelled
    <2>2. me[a].pc \in {"lockCleanup"} \union InCleanup
      BY DEF LockCleanup, CleanSource, CleanReplaced, CleanFails, CleanFinish, CleanCancelled,
             InCleanup
    <2> QED
      BY <2>1, <2>2, AllPCs, FreePlaces DEF InvA, KnowsCommit, InvB, BundleAt, TypeInv, Answers
  <1>2. ASSUME me'[a].pc \in InCleanup, UNCHANGED bundle PROVE BundleAt(a)' /\ Placed(a)'
    BY <1>1, <1>2 DEF BundleAt, Placed, Working, PreparePCs, InCritical, InRollback, InCleanup
  <1>3. CASE LockCleanup(a)
    <2>1. UNCHANGED <<bundle, fs>> /\ me'[a].pc = "clean"
      BY <1>1, <1>3, ListedDoes DEF LockCleanup
    <2> QED
      BY <1>1, <1>2, <2>1, SameFiles, StepB DEF InCleanup
  <1>4. CASE CleanSource(a) \/ CleanFails(a) \/ CleanReplaced(a)
    <2>1. /\ UNCHANGED bundle
          /\ \E failed \in {{}, {f}} : NextClean(a, failed) \/ Go(a, "cleanReplaced")
      BY <1>0, <1>4 DEF CleanSource, CleanFails, CleanReplaced
    <2>2. me'[a].pc \in InCleanup
      BY <1>1, <2>1, NextCleanDoes, GoDoes DEF Moved, InCleanup
    <2>3. \A g \in Files : fs'[g].dest = fs[g].dest
      <3> DEFINE kept == fs[f].bin \/ fs[f].backup = "old" \/ fs[f].aside
      <3>1. \/ fs' = fs
            \/ fs' = [fs EXCEPT ![f] = [fs[f] EXCEPT !.src = FALSE]]
            \/ fs' = [fs EXCEPT ![f] = [fs[f] EXCEPT !.backup = "none", !.aside = FALSE,
                                         !.bin = kept]]
        BY <1>0, <1>4 DEF CleanSource, CleanFails, CleanReplaced, TypeInv, FsType
      <3> HIDE DEF kept
      <3>2. /\ [fs[f] EXCEPT !.src = FALSE].dest = fs[f].dest
            /\ [fs[f] EXCEPT !.backup = "none", !.aside = FALSE, !.bin = kept].dest
                 = fs[f].dest
        BY FileTypes DEF TypeInv, FileState
      <3> QED
        BY <3>1, <3>2 DEF TypeInv, FsType
    <2>4. Delivered' /\ SourceKept'
      BY <1>1, <2>3 DEF InvB, Delivered, SourceKept
    <2> QED
      BY <1>1, <1>2, <2>1, <2>2, <2>4, StepB
  <1>5. CASE CleanFinish(a)
    <2>1. me'[a].pc \in Free
      <3>1. CASE Raise(a)
        BY <1>1, <3>1, RaiseDoes DEF Free
      <3>2. CASE ~Raise(a)
        <4>1. me'[a] \in {Blank("ok"), Blank("none"), [Blank("none") EXCEPT !.pc = "escalate"]}
          BY <1>5, <3>2 DEF CleanFinish
        <4> QED
          BY <4>1 DEF Blank, Free
      <3> QED
        BY <3>1, <3>2
    <2>2. fs' = fs
      BY <1>5 DEF CleanFinish
    <2> QED
      BY <1>1, <2>1, <2>2, FreePlaces, SameFiles, StepB
  <1>6. CASE a \in Callers /\ CleanCancelled(a)
    <2>1. fs' = fs /\ me'[a].pc \in Free
      BY <1>1, <1>6, LeaveDoes DEF CleanCancelled, Free
    <2> QED
      BY <1>1, <2>1, FreePlaces, SameFiles, StepB
  <1> QED
    BY <1>3, <1>4, <1>5, <1>6

\* Who is taken out by an exception had the bundle.
LEMMA UnhandledBusy ==
  ASSUME NEW a \in Actors, Unhandled(a)
  PROVE  Busy(a)
  BY DEF Unhandled, Entered, PreparePCs, InCleanup, Busy, Inside

\* An exception keeps the second invariant.
LEMMA UnhandledB ==
  ASSUME TypeInv, InvA, InvB, NEW a \in Actors, Unhandled(a)
  PROVE  InvB'
  <1>1. me'[a].pc \in Free
    BY UnhandledTypes DEF Free
  <1> QED
    BY <1>1, UnhandledTypes, UnhandledBusy, FreePlaces, SameFiles, StepB

\* Recovery that runs only before the workers start finds nobody else.
LEMMA RecovererB ==
  ASSUME TypeInv, InvA, InvB, PeriodicRecovery = FALSE, RecovererStep
  PROVE  InvB'
  <1> DEFINE r == Recoverer
  <1>1. /\ r \in Actors /\ r \notin Callers /\ Others(r) /\ UNCHANGED <<catalog, fs>>
        /\ {"lockCleanup", "journals", "rollStart", "attention"} \subseteq PCs
        /\ "none" \in Answers /\ Journaled \in SUBSET Files /\ MeType /\ RowsType
        /\ BundleAt(r) /\ Delivered' /\ SourceKept'
    BY RecovererActs, RecovererTypes, AllPCs, SameFiles
       DEF RecovererStep, RecoverList, RecoverCheck, RecoverJournals, RecoverVerdict,
           MarkNeedsAttention, Boot, TypeInv, Answers, Journaled, InvB
  <1>2. CASE RecoverList
    <2>1. /\ ~booted /\ UNCHANGED <<bundle, booted>> /\ me'[r].pc = "check"
          /\ me'[r].seen = bundle /\ bundle \in Recoverable
      BY <1>1, <1>2 DEF RecoverList, MeType, Local
    <2>2. \A b \in Actors \ {r} : Same(b) /\ me[b].pc = "idle" /\ ~Busy(b)' /\ me'[b].pc \in Free
      BY <1>1, <2>1, FreePlaces DEF InvB, Turns, Others, Same, Busy, Inside, Entered, Free,
         PreparePCs, InCritical, InRollback, InCleanup
    <2>3. BundleAt(r)' /\ Placed(r)'
      BY <2>1 DEF BundleAt, Placed, Working, PreparePCs, InCritical, InRollback, InCleanup
    <2>4. \A b \in Actors : BundleAt(b)' /\ Placed(b)'
      BY <2>2, <2>3, FreePlaces
    <2>5. Alone' /\ Turns'
      BY <1>1, <2>1, <2>2, CallersAct DEF Alone, Turns, Same
    <2> QED
      BY <1>1, <2>4, <2>5 DEF InvB
  <1>3. CASE RecoverCheck \/ RecoverJournals \/ RecoverVerdict \/ MarkNeedsAttention
    <2>1. Busy(r) /\ booted' = booted
      BY <1>3 DEF RecoverCheck, RecoverJournals, RecoverVerdict, MarkNeedsAttention, Busy
    <2>2. BundleAt(r)' /\ Placed(r)'
      <3>1. CASE RecoverCheck
        <4>1. /\ bundle' = bundle
              /\ bundle = me[r].seen /\ bundle \in Recoverable
              /\ \/ me'[r].pc = "idle"
                 \/ me'[r].pc = "lockCleanup" /\ bundle \in Committed
                 \/ /\ me'[r].pc = "journals" /\ me'[r].seen = me[r].seen
                    /\ bundle \notin Committed
          BY <1>1, <3>1, GoDoes, LeaveDoes DEF RecoverCheck, Moved, BundleAt
        <4> QED
          BY <4>1 DEF BundleAt, Placed, Working, PreparePCs, InCritical, InRollback, InCleanup,
             Committed, Recoverable, InCleaning
      <3>2. CASE RecoverJournals
        <4>1. bundle = me[r].seen
          BY <3>2, <1>1 DEF RecoverJournals, BundleAt
        <4>2. \/ me'[r].pc = "rollStart" /\ bundle = "publishing" /\ bundle' = bundle
              \/ me'[r].pc \in {"idle", "attention"}
          BY <1>1, <3>2, <4>1, GoDoes, LeaveDoes, ListedDoes DEF RecoverJournals, Moved
        <4> QED
          BY <4>2 DEF BundleAt, Placed, Working, PreparePCs, InCritical, InRollback, InCleanup
      <3>3. CASE RecoverVerdict \/ MarkNeedsAttention
        <4>1. me'[r].pc \in {"idle", "attention"}
          <5>1. CASE RecoverVerdict
            BY <1>1, <5>1, GoDoes, LeaveDoes DEF RecoverVerdict, Moved
          <5>2. CASE MarkNeedsAttention
            BY <1>1, <5>2 DEF MarkNeedsAttention, Blank
          <5> QED
            BY <3>3, <5>1, <5>2
        <4> QED
          BY <1>1, <4>1, FreePlaces DEF Free
      <3> QED
        BY <1>3, <3>1, <3>2, <3>3
    <2> QED
      BY <1>1, <2>1, <2>2, StepB
  <1>4. CASE Boot
    <2>1. UNCHANGED <<bundle, catalog, fs, me>> /\ booted' = TRUE /\ me[Recoverer].pc = "idle"
      BY <1>4 DEF Boot
    <2>2. Alone' /\ Turns'
      BY <2>1 DEF InvB, Alone, Turns, Busy, Inside
    <2>3. \A a \in Actors : BundleAt(a)' /\ Placed(a)'
      BY <2>1 DEF InvB, BundleAt, Placed, Mine, At
    <2> QED
      BY <1>1, <2>2, <2>3 DEF InvB
  <1> QED
    BY <1>2, <1>3, <1>4 DEF RecovererStep

\* Administrator, crash and foreign files keep the second invariant.
LEMMA OutsideB ==
  ASSUME TypeInv, InvA, InvB, Resolve \/ Crash \/ \E f \in Files : Occupy(f)
  PROVE  InvB'
  <1>1. CASE Resolve
    <2>1. /\ \A a \in Actors : Same(a)
          /\ UNCHANGED <<catalog, fs, booted>> /\ bundle = "needs_attention"
          /\ Delivered' /\ SourceKept'
      BY <1>1, ResolveTypes, SameFiles DEF Resolve
    <2>2. Alone' /\ Turns'
      BY <2>1, CallersAct, RecovererActs DEF InvB, Alone, Turns, Busy, Inside, Same
    <2>3. ASSUME NEW a \in Actors PROVE BundleAt(a)' /\ Placed(a)'
      <3>1. BundleAt(a) /\ Placed(a) /\ KnowsCommit(a)
        BY DEF InvA, InvB
      <3> QED
        BY <2>1, <3>1 DEF BundleAt, Placed, KnowsCommit, Same, Mine, At, InCleaning, Recoverable
    <2> QED
      BY <2>1, <2>2, <2>3 DEF InvB
  <1>2. CASE Crash
    <2>1. \A a \in Actors : me'[a].pc = "idle"
      BY <1>2, CrashTypes DEF Blank
    <2>2. \A a \in Actors : ~Busy(a)' /\ BundleAt(a)' /\ Placed(a)'
      BY <2>1, FreePlaces DEF Free, Busy, Inside, Entered, PreparePCs, InCritical, InRollback,
         InCleanup
    <2>3. Alone' /\ Turns'
      BY <2>1, <2>2, CallersAct, RecovererActs DEF Alone, Turns
    <2> QED
      BY <1>2, <2>2, <2>3, SameFiles DEF InvB, Crash
  <1>3. CASE \E f \in Files : Occupy(f)
    <2>1. PICK f \in Files : Occupy(f)
      BY <1>3
    <2>2. /\ UNCHANGED <<bundle, catalog, booted, me>>
          /\ KeepsSource /\ \A g \in Files : fs[g].dest = "new" => fs'[g].dest = "new"
      <3>1. \/ fs[f].dest = "none" /\ fs' = [fs EXCEPT ![f] = [fs[f] EXCEPT !.dest = "foreign"]]
            \/ fs' = [fs EXCEPT ![f] = [fs[f] EXCEPT !.adest = "foreign"]]
        BY <2>1 DEF Occupy, TypeInv, FsType
      <3>2. /\ [fs[f] EXCEPT !.dest = "foreign"].src = fs[f].src
            /\ [fs[f] EXCEPT !.adest = "foreign"].src = fs[f].src
            /\ [fs[f] EXCEPT !.adest = "foreign"].dest = fs[f].dest
        BY FileTypes DEF TypeInv, FileState
      <3>3. UNCHANGED <<bundle, catalog, booted, me>>
        BY <2>1 DEF Occupy
      <3> QED
        BY <3>1, <3>2, <3>3 DEF KeepsSource, TypeInv, FsType
    <2>3. Delivered' /\ SourceKept'
      BY <2>2 DEF InvB, Delivered, SourceKept, KeepsSource
    <2>4. \A a \in Actors : BundleAt(a)' /\ Placed(a)'
      BY <2>2, Locals DEF InvB, BundleAt, Placed, Mine, At, TypeInv
    <2>5. Alone' /\ Turns'
      BY <2>2 DEF InvB, Alone, Turns, Busy, Inside
    <2> QED
      BY <2>3, <2>4, <2>5 DEF InvB
  <1> QED
    BY <1>1, <1>2, <1>3

\* The second invariant is inductive.
LEMMA StepInvB ==
  ASSUME TypeInv, InvA, InvB, PeriodicRecovery = FALSE, [Next]_vars
  PROVE  InvB'
  <1>1. ASSUME NEW a \in Actors, ActorStep(a) PROVE InvB'
    <2>1. CASE a \in Callers /\ CallerStep(a)
      <3>1. CASE CriticalSection(a)
        BY <2>1, <3>1, ChecksB, PublishB, JournalB, CommitB DEF CriticalSection
      <3>2. CASE ~CriticalSection(a)
        BY <2>1, <3>2, CallB, EntryB, PlainB DEF CallerStep
      <3> QED
        BY <3>1, <3>2
    <2>2. CASE a \in Callers /\ (Call(a) \/ LockCancelled(a) \/ PublishFails(a) \/ CleanCancelled(a))
      BY <2>2, CallB, PlainB, CleanB
    <2>3. CASE WorkerStep(a) \/ RollFails(a) \/ RollAborts(a) \/ CleanFails(a)
      BY <2>3, RollB, CleanB DEF WorkerStep, ResumeImportCleanup
    <2>4. CASE a = Recoverer /\ RecovererStep
      BY <2>4, RecovererB
    <2>5. CASE Unhandled(a)
      BY <2>5, UnhandledB
    <2> QED
      BY <1>1, <2>1, <2>2, <2>3, <2>4, <2>5 DEF ActorStep
  <1>2. CASE Next
    BY <1>1, <1>2, NextByActor, OutsideB
  <1>3. CASE UNCHANGED vars
    BY <1>3 DEF vars, InvB, Alone, Turns, Busy, Inside, Delivered, SourceKept, BundleAt, Placed,
       Mine, At
  <1> QED
    BY <1>2, <1>3

\* Who publishes has not committed.
LEMMA PublishingUncommitted ==
  ASSUME InvA, InvB, NEW c \in Callers, me[c].pc \in Publishing
  PROVE  ~catalog
  <1>1. me[c].pc \in Working \union {"mark"}
    BY DEF Publishing, Entered, Working
  <1>2. BundleAt(c) /\ KnowsCommit(c) /\ CommitKnown
    BY CallersAct DEF InvA, InvB
  <1> QED
    BY <1>1, <1>2 DEF BundleAt, KnowsCommit, CommitKnown, Committed

\* Where recovery runs only at startup, the download's own file is removed only when
\* the catalogue points to its successor and the successor is on the shelf: no
\* interleaving of callers, crash, failure or foreign file loses the only copy.
THEOREM SourceSafe == PeriodicRecovery = FALSE => (Spec => []SourceKept)
  <1> SUFFICES ASSUME PeriodicRecovery = FALSE PROVE Spec => []SourceKept
    OBVIOUS
  <1>1. Init => TypeInv /\ InvA /\ InvB
    BY InitTypes, InitA, InitB
  <1>2. TypeInv /\ InvA /\ InvB /\ [Next]_vars => TypeInv' /\ InvA' /\ InvB'
    BY StepTypes, StepInvA, StepInvB
  <1>3. InvB => SourceKept
    BY DEF InvB
  <1> QED
    BY <1>1, <1>2, <1>3, PTL DEF Spec

\* And a caller whose publication failed and was undone, which lets it try another
\* candidate, is told so only while the catalogue has not committed this one.
THEOREM FailuresAreUncommitted ==
  PeriodicRecovery = FALSE => (Spec => FailureMeansUncommitted)
  <1> SUFFICES ASSUME PeriodicRecovery = FALSE PROVE Spec => FailureMeansUncommitted
    OBVIOUS
  <1>1. Init => TypeInv /\ InvA /\ InvB
    BY InitTypes, InitA, InitB
  <1>2. TypeInv /\ InvA /\ InvB /\ [Next]_vars => TypeInv' /\ InvA' /\ InvB'
    BY StepTypes, StepInvA, StepInvB
  <1>3. InvA /\ InvB =>
          [\A c \in Callers : me[c].pc \in Publishing /\ me'[c].pc = "idle"
                                /\ me'[c].answer = "error" => ~catalog]_vars
    BY PublishingUncommitted
  <1> QED
    BY <1>1, <1>2, <1>3, PTL DEF Spec, FailureMeansUncommitted
================================================================================
