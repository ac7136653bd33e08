----------------------- MODULE DownloadOrchestrator_proofs ----------------------
(* Theorems about DownloadOrchestrator, for every number of candidates,     *)
(* coroutines, crashes, outages, settings saves and calls.                  *)
EXTENDS DownloadOrchestrator, WellFoundedInduction, TLAPS

--------------------------------------------------------------------------------
(* The journal.                                                             *)

Entry == [cand : Candidate, bytes : Candidate, row : Row]
States == AttemptState \ {"absent"}

\* A journal that has got longer, if anything: its entries stay those of their
\* candidates.
Grown(j, k) ==
  /\ Len(j) \in Nat /\ Len(k) \in Nat /\ Len(j) <= Len(k)
  /\ \A a \in 1 .. Len(j) : k[a].cand = j[a].cand

\* The largest member of a set of numbers that is bounded.
LEMMA MaxBelow ==
  ASSUME NEW n \in Nat, NEW S \in SUBSET (1 .. n), S # {}
  PROVE  Max(S) \in S
  <1> DEFINE T == {n - x : x \in S}
  <1>1. T \subseteq Nat /\ T # {}
    <2>1. \A x \in S : n - x \in Nat
      OBVIOUS
    <2> QED
      BY <2>1
  <1>2. PICK t \in T : \A u \in T : ~(<<u, t>> \in OpToRel(<, Nat))
    BY <1>1, WFMin, NatLessThanWellFounded
  <1>3. \A u \in T : ~(u < t)
    BY <1>1, <1>2 DEF OpToRel
  <1>4. PICK x \in S : t = n - x
    BY <1>2
  <1>5. \A y \in S : x >= y
    BY <1>3, <1>4
  <1> QED
    BY <1>5 DEF Max

\* What the store's operations make of a row is a row.
LEMMA RowOps ==
  /\ HandleUpdated(Created) \in Row /\ Created \in Row
  /\ \A r \in Row : HandleUpdated(r) \in Row /\ Completed(r) \in Row /\ Reacquired(r) \in Row
  /\ \A r \in Row, d \in {"discard", "preserve"}, bs \in SUBSET Bundle :
       Scheduled(r, d, bs) \in Row
  <1>1. \A r \in Row : Released(r) \in Row
    BY DEF Row, Released
  <1>2. ASSUME NEW r \in Row PROVE Completed(r) \in Row /\ Reacquired(r) \in Row
    <2> DEFINE x == Released(r)
    <2>1. x \in Row
      BY <1>1
    <2> HIDE DEF x
    <2>2. [x EXCEPT !.state = "complete", !.error = "none"] \in Row
      BY <2>1 DEF Row, AttemptState, ErrorCode
    <2>3. [x EXCEPT !.state = "in_use", !.due = TRUE, !.error = "none"] \in Row
      BY <2>1 DEF Row, AttemptState, ErrorCode
    <2> QED
      BY <2>2, <2>3 DEF x, Completed, Reacquired
  <1>3. ASSUME NEW r \in Row, NEW d \in {"discard", "preserve"}, NEW bs \in SUBSET Bundle
        PROVE  Scheduled(r, d, bs) \in Row
    <2> DEFINE x == Released(r)
               s == IF d = "discard" THEN "cleanup_pending" ELSE "preserved"
    <2>1. x \in Row /\ s \in AttemptState
      BY <1>1 DEF AttemptState
    <2> HIDE DEF x, s
    <2>2. [x EXCEPT !.state = s, !.bundles = bs, !.due = TRUE, !.error = "none"] \in Row
      BY <2>1 DEF Row, ErrorCode
    <2> QED
      BY <2>2 DEF x, s, Scheduled
  <1>4. \A r \in Row : HandleUpdated(r) \in Row
    BY DEF Row, HandleUpdated, AttemptState
  <1>5. Absent \in Row
    BY RetriesAssumption DEF Absent, Row, AttemptState, ErrorCode
  <1>6. \A r \in Row : [r EXCEPT !.state = "acquiring"] \in Row
    BY DEF Row, AttemptState
  <1>7. Created \in Row
    BY <1>5, <1>6 DEF Created
  <1> QED
    BY <1>2, <1>3, <1>4, <1>7

\* Writing the row of one attempt.
LEMMA RowWritten ==
  ASSUME NEW j \in Seq(Entry), NEW a \in DOMAIN j, NEW r \in Row
  PROVE  /\ [j EXCEPT ![a].row = r] \in Seq(Entry) /\ Grown(j, [j EXCEPT ![a].row = r])
         /\ Len([j EXCEPT ![a].row = r]) = Len(j)
  <1> DEFINE e == [j[a] EXCEPT !.row = r]
  <1>1. j[a] \in Entry /\ Len(j) \in Nat /\ DOMAIN j = 1 .. Len(j)
    OBVIOUS
  <1>2. e \in Entry /\ e.cand = j[a].cand
    BY <1>1 DEF Entry
  <1> HIDE DEF e
  <1>3. [j EXCEPT ![a] = e] \in Seq(Entry) /\ Len([j EXCEPT ![a] = e]) = Len(j)
    BY <1>2
  <1>4. \A b \in 1 .. Len(j) : [j EXCEPT ![a] = e][b].cand = j[b].cand
    BY <1>1, <1>2
  <1>5. [j EXCEPT ![a].row = r] = [j EXCEPT ![a] = e]
    BY DEF e
  <1> QED
    BY <1>1, <1>3, <1>4, <1>5 DEF Grown

\* Inserting an attempt.
LEMMA Insertion ==
  ASSUME NEW j \in Seq(Entry), NEW c \in Candidate, NEW b \in Candidate, NEW r \in Row
  PROVE  /\ Inserted(j, c, b, r) \in Seq(Entry) /\ Grown(j, Inserted(j, c, b, r))
         /\ Len(Inserted(j, c, b, r)) = Len(j) + 1 /\ Inserted(j, c, b, r)[Len(j) + 1].cand = c
  BY DEF Inserted, Entry, Grown

\* Growth over two operations.
LEMMA GrownTwice ==
  ASSUME NEW j, NEW k, NEW m, Grown(j, k), Grown(k, m)
  PROVE  Grown(j, m)
  BY DEF Grown

\* A schedule UPDATE.
LEMMA ScheduledInDoes ==
  ASSUME NEW j \in Seq(Entry), NEW a \in {0} \union DOMAIN j,
         NEW d \in {"none", "discard", "preserve"}, NEW bs \in SUBSET Bundle
  PROVE  ScheduledIn(j, a, d, bs) \in Seq(Entry) /\ Grown(j, ScheduledIn(j, a, d, bs))
  <1>1. Grown(j, j)
    BY DEF Grown
  <1>2. CASE a # 0 /\ d # "none"
    <2>1. j[a] \in Entry /\ j[a].row \in Row
      <3>1. a \in DOMAIN j
        BY <1>2
      <3>2. j[a] \in Entry
        BY <3>1
      <3> QED
        BY <3>2 DEF Entry
    <2>2. Scheduled(j[a].row, d, bs) \in Row
      BY <1>2, <2>1, RowOps
    <2>3. [j EXCEPT ![a].row = Scheduled(@, d, bs)]
            = [j EXCEPT ![a].row = Scheduled(j[a].row, d, bs)]
      BY <1>2 DEF Entry
    <2> QED
      BY <1>1, <1>2, <2>2, <2>3, RowWritten DEF ScheduledIn
  <1> QED
    BY <1>1, <1>2 DEF ScheduledIn

JournalType == journal \in Seq(Entry)
ManifestType == /\ manifest \in [cand : {0} \union Candidate, attempt : 0 .. Len(journal)]
                /\ manifest.cand = 0 => manifest.attempt = 0

\* The lookups return attempts of the task.
LEMMA Lookups ==
  ASSUME JournalType
  PROVE  /\ LatestOf(Live) \in {0} \union DOMAIN journal
         /\ \A c : LatestOf(OfCandidate(c)) \in {0} \union DOMAIN journal
         /\ \A c : OfCandidate(c) # {} => Max(OfCandidate(c)) \in DOMAIN journal
         /\ Live # {} => Max(Live) \in DOMAIN journal
  <1>1. Len(journal) \in Nat /\ DOMAIN journal = 1 .. Len(journal)
    BY DEF JournalType
  <1>2. \A S \in SUBSET (1 .. Len(journal)) : S # {} => Max(S) \in S
    BY <1>1, MaxBelow
  <1>3. Live \in SUBSET (1 .. Len(journal)) /\ \A c : OfCandidate(c) \in SUBSET (1 .. Len(journal))
    BY <1>1 DEF Live, OfCandidate
  <1> QED
    BY <1>1, <1>2, <1>3 DEF LatestOf

\* The row that the manifest stands for, created where there is none.
LEMMA AdoptedDoes ==
  ASSUME JournalType, ManifestType, manifest # NoManifest, NEW c \in Candidate
  PROVE  /\ Adopted(c) \in Seq(Entry) /\ Grown(journal, Adopted(c))
         /\ ManifestAttempt \in DOMAIN Adopted(c)
         /\ manifest.attempt # 0 => Adopted(c) = journal /\ ManifestAttempt = manifest.attempt
  <1>1. manifest.cand \in Candidate /\ Len(journal) \in Nat
    BY DEF ManifestType, JournalType, NoManifest
  <1>2. ManifestAttempt \in 1 .. Len(journal) + 1
    BY <1>1, Lookups DEF ManifestAttempt, ManifestType, JournalType
  <1>3. CASE ManifestAttempt > Len(journal)
    <2>1. Adopted(c) = Inserted(journal, c, manifest.cand, HandleUpdated(Created))
      BY <1>3 DEF Adopted
    <2>2. manifest.attempt = 0 /\ ManifestAttempt = Len(journal) + 1
      BY <1>1, <1>2, <1>3 DEF ManifestAttempt, ManifestType
    <2> QED
      BY <1>1, <2>1, <2>2, Insertion, RowOps DEF JournalType
  <1>4. CASE ~(ManifestAttempt > Len(journal))
    BY <1>1, <1>2, <1>4 DEF Adopted, Grown, JournalType, ManifestAttempt
  <1> QED
    BY <1>3, <1>4

--------------------------------------------------------------------------------
(* Types, in the pieces that the actions change together.                   *)

TaskType == task \in [status : Running \union Terminal, cand : Candidate, polled : BOOLEAN,
                      bytes : BOOLEAN, deadline : BOOLEAN]
BundleType == bundle \in [Candidate -> {"none", "publishing", "settled"}]
BudgetType == budget \in [cancels : 0 .. MaxCancels, switches : 0 .. MaxSwitches,
                          crashes : 0 .. MaxCrashes, outages : 0 .. MaxOutages,
                          rebuilds : 0 .. MaxRebuilds]
Data == TaskType /\ JournalType /\ ManifestType /\ BundleType /\ BudgetType

\* The attempt a coroutine works on exists, and it publishes some candidate's files.
Holding(s, j) == /\ s.pc \in {"manifest", "submit", "handle"} => s.attempt \in 1 .. Len(j)
                 /\ s.pc = "publish" => s.handle \in Candidate

LoopsType == /\ loops \in [Loop -> LoopState] /\ active \in Loop \union {NoLoop}
             /\ \A l \in Loop : Holding(loops[l], journal)

\* Where each handler can be, and what it has in hand there.
CancelType == op["cancel"].pc \in {"idle", "wait", "bundles", "write", "sweep"}
NextType ==
  /\ op["next"].pc \in {"idle", "asked", "check", "schedule", "link", "reset"}
  /\ op["next"].pc \in {"schedule", "link"} => op["next"].attempt \in Candidate
ReimportType ==
  /\ op["reimport"].pc \in {"idle", "status", "import", "publish", "preserve", "finish", "sweep"}
  /\ op["reimport"].pc \notin {"idle", "sweep"} => op["reimport"].attempt \in 1 .. Len(journal)
ReapType == op["reap"].pc \in {"idle", "judged"}
OpsType == /\ op \in [Handler -> OpState]
           /\ CancelType /\ NextType /\ ReimportType /\ ReapType
InstanceType == /\ instance \in Instance /\ instance + budget.rebuilds = MaxRebuilds + 1
                /\ lock \in [Instance -> Handler \union {"free"}]

TypeInv == Data /\ LoopsType /\ OpsType /\ InstanceType

\* The parts of the type invariant together.
LEMMA TypeInvTypes == TypeInv => TypeOK
  BY DEF TypeInv, TypeOK, Data, TaskType, JournalType, ManifestType, BundleType, BudgetType,
     LoopsType, OpsType, InstanceType, Entry

\* The places of a coroutine and of a handler, one by one.
LEMMA Places ==
  /\ LoopPc = {"off", "read", "lookup", "prepare", "enqueue", "create", "manifest", "submit",
               "outage", "handle", "open", "poll", "recheck", "keep", "process", "import",
               "publish", "finish", "sweep", "failover", "abort", "schedule", "link", "reset",
               "fail"}
  /\ OpPc = {"idle", "wait", "lock", "bundles", "write", "asked", "check", "schedule",
             "link", "reset", "status", "import", "publish", "finish", "preserve",
             "sweep", "judged"}
  BY DEF LoopPc, OpPc

\* What there is to begin with.
LEMMA Blanks ==
  /\ 1 \in Candidate /\ 1 \in Instance /\ Candidate \subseteq Nat /\ Instance \subseteq Nat
  /\ NoResult \in Result /\ FreshResult \in Result
  /\ Off \in LoopState /\ Off.pc = "off" /\ Off.status = "queued" /\ ~Off.killed
  /\ [Off EXCEPT !.pc = "sweep"] \in LoopState
  /\ Idle \in OpState /\ Idle.pc = "idle"
  <1>1. /\ 1 \in Candidate /\ 1 \in Instance /\ Candidate \subseteq Nat /\ Instance \subseteq Nat
    BY CandidatesAssumption, BoundsAssumption DEF Candidate, Instance
  <1>2. NoResult \in Result /\ FreshResult \in Result
    BY DEF NoResult, FreshResult, Result
  <1>3. Off \in LoopState
    BY <1>1, <1>2 DEF Off, LoopState, LoopPc, Running, Terminal
  <1>4. Idle \in OpState
    BY <1>1, <1>2 DEF Idle, OpState, OpPc, Terminal
  <1>5. \A s \in LoopState : [s EXCEPT !.pc = "sweep"] \in LoopState
    BY DEF LoopState, LoopPc
  <1> QED
    BY <1>1, <1>2, <1>3, <1>4, <1>5 DEF Off, Idle

\* A dispatched coroutine.
LEMMA DispatchedDoes ==
  ASSUME NEW via \in {"run", "resume"}
  PROVE  /\ Dispatched(via) \in LoopState /\ Dispatched(via).pc \in {"read", "lookup"}
         /\ Dispatched(via).status = "queued" /\ ~Dispatched(via).killed
  <1>1. /\ Off \in LoopState /\ Off.status = "queued" /\ ~Off.killed
    BY Blanks
  <1>2. \A s \in LoopState, pc \in {"read", "lookup"} :
          /\ [s EXCEPT !.pc = pc] \in LoopState /\ [s EXCEPT !.pc = pc].pc = pc
          /\ [s EXCEPT !.pc = pc].status = s.status /\ [s EXCEPT !.pc = pc].killed = s.killed
    BY DEF LoopState, LoopPc
  <1> QED
    BY <1>1, <1>2 DEF Dispatched

\* The initial state is well typed.
LEMMA InitTypes == Init => TypeInv
  <1> SUFFICES ASSUME Init PROVE TypeInv
    OBVIOUS
  <1>1. TaskType
    BY Blanks DEF Init, TaskType, Running
  <1>2. JournalType /\ Len(journal) = 0
    BY DEF Init, JournalType
  <1>3. ManifestType /\ BundleType
    BY <1>2 DEF Init, ManifestType, NoManifest, BundleType
  <1>4. BudgetType /\ InstanceType
    BY BoundsAssumption, Blanks DEF Init, BudgetType, InstanceType
  <1>5. LoopsType
    <2>1. PICK l \in Loop : /\ loops = [m \in Loop |-> IF m = l THEN Dispatched("run") ELSE Off]
                            /\ active = l
      BY DEF Init
    <2>2. \A m \in Loop : loops[m] \in LoopState /\ loops[m].pc \in {"read", "lookup", "off"}
      BY <2>1, Blanks, DispatchedDoes
    <2> QED
      BY <2>1, <2>2 DEF LoopsType, Holding
  <1>6. OpsType
    BY Blanks DEF Init, OpsType, CancelType, NextType, ReimportType, ReapType, Handler
  <1> QED
    BY <1>1, <1>2, <1>3, <1>4, <1>5, <1>6 DEF TypeInv, Data

\* What is left alone stays well typed.
LEMMA Frames ==
  ASSUME TypeInv
  PROVE  /\ task' = task => TaskType'
         /\ Grown(journal, journal)
         /\ journal' = journal => JournalType' /\ Grown(journal, journal')
         /\ manifest' = manifest /\ Grown(journal, journal') => ManifestType'
         /\ manifest' = NoManifest /\ Grown(journal, journal') => ManifestType'
         /\ bundle' = bundle => BundleType'
         /\ budget' = budget => BudgetType'
         /\ UNCHANGED <<loops, active>> /\ Grown(journal, journal') => LoopsType'
         /\ UNCHANGED op /\ Grown(journal, journal') => OpsType'
         /\ UNCHANGED <<lock, instance, budget>> => InstanceType'
  <1>1. Grown(journal, journal)
    BY DEF Grown, TypeInv, Data, JournalType
  <1>2. /\ task' = task => TaskType'
        /\ journal' = journal => JournalType' /\ Grown(journal, journal')
        /\ bundle' = bundle => BundleType'
        /\ budget' = budget => BudgetType'
    BY <1>1 DEF TypeInv, Data, TaskType, JournalType, BundleType, BudgetType
  <1>3. Grown(journal, journal') => \A n : n \in 0 .. Len(journal) => n \in 0 .. Len(journal')
    BY DEF Grown
  <1>4. /\ manifest' = manifest /\ Grown(journal, journal') => ManifestType'
        /\ manifest' = NoManifest /\ Grown(journal, journal') => ManifestType'
    <2>1. manifest' = manifest /\ Grown(journal, journal') => ManifestType'
      BY <1>3 DEF TypeInv, Data, ManifestType
    <2>2. manifest' = NoManifest /\ Grown(journal, journal') => ManifestType'
      BY <1>3 DEF TypeInv, Data, ManifestType, NoManifest, Grown
    <2> QED
      BY <2>1, <2>2
  <1>5. UNCHANGED <<loops, active>> /\ Grown(journal, journal') => LoopsType'
    BY DEF TypeInv, LoopsType, Holding, Grown
  <1>6. UNCHANGED op /\ Grown(journal, journal') => OpsType'
    BY DEF TypeInv, OpsType, CancelType, NextType, ReimportType, ReapType, Grown
  <1>7. UNCHANGED <<lock, instance, budget>> => InstanceType'
    BY DEF TypeInv, InstanceType
  <1> QED
    BY <1>1, <1>2, <1>4, <1>5, <1>6, <1>7

--------------------------------------------------------------------------------
(* A step of a coroutine.                                                   *)

\* What it may do to the coroutines and to the task: one that is killed ends, one that
\* ends leaves a task that is over or was cancelled, and the task is linked to another
\* candidate at one place only.
Moved(l) ==
  /\ Alive(l) /\ \A m \in Loop \ {l} : loops'[m] = loops[m]
  /\ active' = active \/ (~Alive(l)' /\ active = l /\ active' = NoLoop)
  /\ ~Alive(l)' => active' # l
  /\ ~loops'[l].killed /\ (loops[l].killed => ~Alive(l)')
  /\ Grown(journal, journal') /\ Surroundings
StatusMoves(l) ==
  /\ Drives(l)' => Drives(l) /\ ~loops[l].killed
  /\ loops'[l].status \in {loops[l].status, "queued"} \/ (Drives(l) /\ loops'[l].status = task.status)
  /\ \/ /\ task'.status = task.status
        /\ Drives(l)' \/ task.status = "cancelled" \/ ~Drives(l) \/ loops[l].killed
     \/ Drives(l)' /\ task'.status \in Running \union {loops[l].status}
     \/ Drives(l) /\ ~Drives(l)' /\ task'.status \in Terminal
  /\ task'.cand = task.cand \/ (loops[l].pc = "link" /\ loops'[l].pc = "reset")

\* A coroutine that goes on.
LEMMA Stays ==
  ASSUME TypeInv, NEW l \in Loop, NEW s \in LoopState, Become(l, s), UNCHANGED active,
         Alive(l), s.pc # "off", ~s.killed, ~loops[l].killed, Surroundings,
         Data', UNCHANGED budget \/ budget'.rebuilds = budget.rebuilds,
         Grown(journal, journal'), Holding(s, journal')
  PROVE  TypeInv' /\ Moved(l) /\ loops'[l] = s
  <1>1. /\ loops' \in [Loop -> LoopState] /\ loops'[l] = s
        /\ \A m \in Loop \ {l} : loops'[m] = loops[m]
    BY DEF TypeInv, LoopsType, Become
  <1>2. LoopsType'
    BY <1>1 DEF TypeInv, LoopsType, Holding, Grown
  <1>3. OpsType' /\ InstanceType'
    BY Frames DEF Surroundings, TypeInv, InstanceType
  <1> QED
    BY <1>1, <1>2, <1>3 DEF TypeInv, Moved, Alive

\* A coroutine that ends.
LEMMA Ends ==
  ASSUME TypeInv, NEW l \in Loop, Done(l), Alive(l), Surroundings,
         Data', UNCHANGED budget, Grown(journal, journal')
  PROVE  TypeInv' /\ Moved(l) /\ loops'[l] = Off /\ ~Drives(l)'
  <1>1. /\ loops' \in [Loop -> LoopState] /\ loops'[l] = Off /\ Off.pc = "off" /\ ~Off.killed
        /\ \A m \in Loop \ {l} : loops'[m] = loops[m]
        /\ active' = IF active = l THEN NoLoop ELSE active
    BY Blanks DEF TypeInv, LoopsType, Done, Become
  <1>2. LoopsType'
    BY <1>1 DEF TypeInv, LoopsType, Holding, Grown
  <1>3. OpsType' /\ InstanceType'
    BY Frames DEF Surroundings, TypeInv, InstanceType
  <1> QED
    BY <1>1, <1>2, <1>3, LoopAssumption DEF TypeInv, Moved, Alive, Drives

\* Going to another place changes nothing else of a coroutine.
LEMMA Went ==
  ASSUME TypeInv, NEW l \in Loop, NEW pc \in LoopPc, NEW s, s = [loops[l] EXCEPT !.pc = pc]
  PROVE  /\ s \in LoopState /\ s.pc = pc /\ s.killed = loops[l].killed
         /\ s.status = loops[l].status /\ s.cand = loops[l].cand
         /\ s.attempt = loops[l].attempt /\ s.handle = loops[l].handle
         /\ s.resume = loops[l].resume
  BY DEF TypeInv, LoopsType, LoopState

\* Reading the row, and preparing the candidate.
LEMMA PrepareMoves ==
  ASSUME TypeInv, NEW l \in Loop, ReadTask(l) \/ ResumeTask(l) \/ Prepare(l) \/ ResetTransfer(l)
  PROVE  TypeInv' /\ Moved(l) /\ StatusMoves(l)
  <1> USE Frames, Places DEF TypeInv, Data, At, Alive
  <1>0. loops[l] \in LoopState /\ task.cand \in Candidate /\ task.status \in Running \union Terminal
    BY DEF LoopsType, TaskType
  <1>1. CASE ReadTask(l)
    <2> DEFINE s == [loops[l] EXCEPT !.pc = "prepare", !.resume = FALSE,
                                     !.status = task.status, !.cand = task.cand]
    <2>1. /\ s \in LoopState /\ s.pc = "prepare" /\ s.killed = loops[l].killed
          /\ s.status = task.status /\ Holding(s, journal')
      BY <1>0 DEF LoopState, Holding
    <2> HIDE DEF s
    <2>2. TypeInv' /\ Moved(l) /\ loops'[l] = s
      BY <1>1, <2>1, Stays DEF ReadTask, s
    <2> QED
      BY <1>1, <2>1, <2>2 DEF StatusMoves, Drives, ReadTask
  <1>2. CASE ResumeTask(l) /\ manifest = NoManifest
    <2> DEFINE s == [loops[l] EXCEPT !.pc = "read"]
    <2>1. s \in LoopState /\ s.pc = "read" /\ s.killed = loops[l].killed /\ s.status = loops[l].status
      BY Went DEF LoopPc
    <2> HIDE DEF s
    <2>2. TypeInv' /\ Moved(l) /\ loops'[l] = s
      BY <1>2, <2>1, Stays DEF ResumeTask, Goto, Holding, s
    <2> QED
      BY <1>2, <2>1, <2>2 DEF StatusMoves, Drives, ResumeTask
  <1>3. CASE ResumeTask(l) /\ manifest # NoManifest
    <2> DEFINE s == [loops[l] EXCEPT
                       !.pc = IF Resumable(journal') THEN "prepare" ELSE "read",
                       !.resume = TRUE, !.status = task.status, !.cand = task.cand]
    <2>1. /\ s \in LoopState /\ s.pc \in {"prepare", "read"} /\ s.killed = loops[l].killed
          /\ s.status = task.status /\ Holding(s, journal')
      BY <1>0 DEF LoopState, Holding
    <2> HIDE DEF s
    <2>2. JournalType' /\ Grown(journal, journal')
      BY <1>0, <1>3, AdoptedDoes DEF ResumeTask, JournalType
    <2>3. TypeInv' /\ Moved(l) /\ loops'[l] = s
      BY <1>3, <2>1, <2>2, Stays DEF ResumeTask, s
    <2> QED
      BY <1>3, <2>1, <2>3 DEF StatusMoves, Drives, ResumeTask
  <1>4. CASE Prepare(l)
    <2> DEFINE s == [loops[l] EXCEPT !.pc = IF loops[l].resume THEN "open" ELSE "enqueue",
                                     !.cand = task.cand]
    <2>1. /\ s \in LoopState /\ s.pc \in {"open", "enqueue"} /\ s.killed = loops[l].killed
          /\ s.status = loops[l].status /\ Holding(s, journal')
      BY <1>0 DEF LoopState, Holding
    <2> HIDE DEF s
    <2>2. TaskType' /\ task'.status = loops[l].status /\ task'.cand = task.cand
      BY <1>0, <1>4 DEF Prepare, TaskType, LoopState
    <2>3. TypeInv' /\ Moved(l) /\ loops'[l] = s
      BY <1>4, <2>1, <2>2, Stays DEF Prepare, s
    <2> QED
      BY <1>4, <2>1, <2>2, <2>3 DEF StatusMoves, Drives, Prepare
  <1>5. CASE ResetTransfer(l)
    <2> DEFINE s == [loops[l] EXCEPT !.pc = "enqueue", !.cand = task.cand]
    <2>1. /\ s \in LoopState /\ s.pc = "enqueue" /\ s.killed = loops[l].killed
          /\ s.status = loops[l].status /\ Holding(s, journal')
      BY <1>0 DEF LoopState, Holding
    <2> HIDE DEF s
    <2>2. TaskType' /\ task'.status = "queued" /\ task'.cand = task.cand
      BY <1>5 DEF ResetTransfer, Requeued, TaskType, Running
    <2>3. TypeInv' /\ Moved(l) /\ loops'[l] = s
      BY <1>5, <2>1, <2>2, Stays DEF ResetTransfer, s
    <2> QED
      BY <1>5, <2>1, <2>2, <2>3 DEF StatusMoves, Drives, ResetTransfer, Running
  <1> QED
    BY <1>1, <1>2, <1>3, <1>4, <1>5

\* A coroutine that only goes to another place.
LEMMA Goes ==
  ASSUME TypeInv, NEW l \in Loop, NEW pc \in LoopPc \ {"off", "manifest", "publish"},
         Goto(l, pc), UNCHANGED active, Alive(l), ~loops[l].killed, Surroundings,
         pc \in {"submit", "handle"} => loops[l].pc \in {"manifest", "submit"},
         Data', UNCHANGED budget \/ budget'.rebuilds = budget.rebuilds,
         Grown(journal, journal')
  PROVE  /\ TypeInv' /\ Moved(l) /\ loops'[l].pc = pc /\ loops'[l].status = loops[l].status
         /\ loops'[l].cand = loops[l].cand
  <1> DEFINE s == [loops[l] EXCEPT !.pc = pc]
  <1>1. /\ s \in LoopState /\ s.pc = pc /\ s.killed = loops[l].killed
        /\ s.status = loops[l].status /\ s.cand = loops[l].cand
        /\ s.attempt = loops[l].attempt
    BY Went
  <1> HIDE DEF s
  <1>2. Holding(s, journal')
    BY <1>1 DEF TypeInv, LoopsType, Holding, Grown
  <1> QED
    BY <1>1, <1>2, Stays DEF Goto, s

\* The hand-over was refused, or not even tried.
LEMMA NotEnqueuedMoves ==
  ASSUME TypeInv, NEW l \in Loop, NotEnqueued(l), UNCHANGED active, Alive(l), ~loops[l].killed,
         Surroundings, Data', UNCHANGED budget, Grown(journal, journal')
  PROVE  TypeInv' /\ Moved(l) /\ loops'[l].pc = "failover" /\ loops'[l].status = loops[l].status
  <1> DEFINE s == [loops[l] EXCEPT !.pc = "failover", !.whole = TRUE, !.result = FreshResult]
  <1>1. /\ s \in LoopState /\ s.pc = "failover" /\ s.killed = loops[l].killed
        /\ s.status = loops[l].status /\ Holding(s, journal')
    BY Blanks, Places DEF TypeInv, LoopsType, LoopState, Holding
  <1> HIDE DEF s
  <1> QED
    BY <1>1, Stays DEF NotEnqueued, s

\* Handing the candidate over to its client.
LEMMA EnqueueMoves ==
  ASSUME TypeInv, NEW l \in Loop,
         \/ StartEnqueue(l) \/ CreateAttempt(l) \/ WriteManifest(l) \/ Submit(l)
         \/ WaitOutage(l) \/ StoreHandle(l)
  PROVE  TypeInv' /\ Moved(l) /\ StatusMoves(l)
  <1> USE Frames, Places DEF TypeInv, Data, At, Alive
  <1>0. loops[l] \in LoopState /\ task.cand \in Candidate /\ task.status \in Running \union Terminal
    BY DEF LoopsType, TaskType
  <1>1. CASE StartEnqueue(l)
    <2>1. TaskType' /\ task'.status \in {task.status, "downloading"} /\ task'.cand = task.cand
      BY <1>1 DEF StartEnqueue, TaskType, Running
    <2>2. /\ TypeInv' /\ Moved(l) /\ loops'[l].pc \in {"failover", "create"}
          /\ loops'[l].status = loops[l].status
      BY <1>1, <2>1, Goes, NotEnqueuedMoves DEF StartEnqueue
    <2> QED
      BY <1>1, <2>1, <2>2 DEF StatusMoves, Drives, StartEnqueue, Running
  <1>2. CASE CreateAttempt(l)
    <2>1. /\ JournalType' /\ Grown(journal, journal') /\ Len(journal') \in Nat
          /\ Len(journal') = Len(journal) + 1 /\ Len(journal) \in Nat
      BY <1>0, <1>2, Insertion, RowOps DEF CreateAttempt, JournalType, LoopState
    <2>0. PICK n \in Nat : n = Len(journal') /\ n \in 1 .. n
      BY <2>1
    <2> DEFINE s == [loops[l] EXCEPT !.pc = "manifest", !.attempt = n]
    <2>2. /\ s \in LoopState /\ s.pc = "manifest" /\ s.killed = loops[l].killed
          /\ s.status = loops[l].status /\ s.attempt = n
      BY <1>0 DEF LoopState
    <2>4. Holding(s, journal')
      BY <2>0, <2>2 DEF Holding
    <2> HIDE DEF s
    <2>3. TypeInv' /\ Moved(l) /\ loops'[l] = s
      BY <1>2, <2>0, <2>1, <2>2, <2>4, Stays DEF CreateAttempt, s
    <2> QED
      BY <1>2, <2>2, <2>3 DEF StatusMoves, Drives, CreateAttempt
  <1>3. CASE WriteManifest(l)
    <2>1. loops[l].cand \in Candidate /\ loops[l].attempt \in 1 .. Len(journal)
      BY <1>0, <1>3 DEF WriteManifest, LoopsType, LoopState, Holding
    <2>2. ManifestType'
      <3>1. Len(journal) \in Nat /\ loops[l].attempt \in 0 .. Len(journal) /\ 0 \in 0 .. Len(journal)
        BY <2>1 DEF JournalType
      <3>2. loops[l].cand # 0
        BY <2>1 DEF Candidate
      <3> QED
        BY <1>3, <2>1, <3>1, <3>2 DEF WriteManifest, ManifestType
    <2>3. TypeInv' /\ Moved(l) /\ loops'[l].pc = "submit" /\ loops'[l].status = loops[l].status
      BY <1>3, <2>2, Goes DEF WriteManifest
    <2> QED
      BY <1>3, <2>3 DEF StatusMoves, Drives, WriteManifest
  <1>4. CASE Submit(l)
    <2>1. BudgetType' /\ budget'.rebuilds = budget.rebuilds
      BY <1>4, BoundsAssumption DEF Submit, BudgetType
    <2>2. /\ TypeInv' /\ Moved(l) /\ loops'[l].pc \in {"failover", "handle", "outage"}
          /\ loops'[l].status = loops[l].status
      BY <1>4, <2>1, Goes, NotEnqueuedMoves DEF Submit
    <2> QED
      BY <1>4, <2>2 DEF StatusMoves, Drives, Submit
  <1>5. CASE WaitOutage(l)
    <2>1. CASE task.status = "cancelled"
      <3>1. TypeInv' /\ Moved(l) /\ loops'[l] = Off /\ ~Drives(l)'
        BY <1>5, <2>1, Ends DEF WaitOutage
      <3> QED
        BY <1>5, <2>1, <3>1, Blanks DEF StatusMoves, WaitOutage
    <2>2. CASE task.status # "cancelled"
      <3>1. TypeInv' /\ Moved(l) /\ loops'[l].pc = "enqueue" /\ loops'[l].status = loops[l].status
        BY <1>5, <2>2, Goes DEF WaitOutage
      <3> QED
        BY <1>5, <3>1 DEF StatusMoves, Drives, WaitOutage
    <2> QED
      BY <2>1, <2>2
  <1>6. CASE StoreHandle(l)
    <2> DEFINE a == loops[l].attempt
    <2>1. a \in DOMAIN journal /\ journal[a] \in Entry /\ journal[a].row \in Row
      <3>1. loops[l].pc = "handle" /\ Holding(loops[l], journal)
        BY <1>6 DEF StoreHandle, LoopsType
      <3>2. a \in 1 .. Len(journal)
        BY <3>1 DEF Holding
      <3>3. a \in DOMAIN journal /\ journal[a] \in Entry
        BY <3>2 DEF JournalType
      <3> QED
        BY <3>3 DEF Entry
    <2>2. JournalType' /\ Grown(journal, journal')
      <3>1. HandleUpdated(journal[a].row) \in Row
        BY <2>1, RowOps
      <3>2. [journal EXCEPT ![a].row = HandleUpdated(@)]
              = [journal EXCEPT ![a].row = HandleUpdated(journal[a].row)]
        BY <2>1 DEF Entry
      <3> DEFINE r == HandleUpdated(journal[a].row)
      <3>3. /\ [journal EXCEPT ![a].row = r] \in Seq(Entry)
            /\ Grown(journal, [journal EXCEPT ![a].row = r])
        BY <2>1, <3>1, RowWritten DEF JournalType
      <3>4. journal' = [journal EXCEPT ![a].row = r] \/ journal' = journal
        BY <1>6, <3>2 DEF StoreHandle
      <3> HIDE DEF r
      <3> QED
        BY <3>3, <3>4 DEF JournalType
    <2>3. PICK pc \in {"fail", "open"} : Goto(l, pc)
      BY <1>6 DEF StoreHandle, Goto
    <2>4. TypeInv' /\ Moved(l) /\ loops'[l].pc = pc /\ loops'[l].status = loops[l].status
      BY <1>6, <2>2, <2>3, Goes DEF StoreHandle
    <2> QED
      BY <1>6, <2>4 DEF StatusMoves, Drives, StoreHandle
  <1> QED
    BY <1>1, <1>2, <1>3, <1>4, <1>5, <1>6

\* Watching the transfer.
LEMMA PollMoves ==
  ASSUME TypeInv, NEW l \in Loop,
         \/ OpenPoll(l) \/ PollProgress(l) \/ PollDone(l) \/ Recheck(l)
         \/ KeepTransfer(l) \/ Process(l)
  PROVE  TypeInv' /\ Moved(l) /\ StatusMoves(l)
  <1> USE Frames, Places DEF TypeInv, Data, At, Alive
  <1>0. loops[l] \in LoopState /\ task.cand \in Candidate /\ task.status \in Running \union Terminal
    BY DEF LoopsType, TaskType
  <1>1. CASE OpenPoll(l)
    <2>0. PICK pc \in {"fail", "poll"}, h \in {0} \union Candidate :
            pc = (IF manifest = NoManifest THEN "fail" ELSE "poll") /\ h = manifest.cand
      BY DEF ManifestType
    <2> DEFINE s == [loops[l] EXCEPT !.pc = pc, !.handle = h]
    <2>1. /\ s \in LoopState /\ s.pc \in {"fail", "poll"} /\ s.killed = loops[l].killed
          /\ s.status = loops[l].status
      BY <1>0 DEF LoopState
    <2>3. Become(l, s)
      BY <1>1, <2>0 DEF OpenPoll
    <2> HIDE DEF s
    <2>2. TypeInv' /\ Moved(l) /\ loops'[l] = s
      BY <1>1, <2>1, <2>3, Stays DEF OpenPoll, Holding
    <2> QED
      BY <1>1, <2>1, <2>2 DEF StatusMoves, Drives, OpenPoll
  <1>2. task' \in Progressed(task) => /\ task'.status = task.status /\ task'.cand = task.cand
                                     /\ TaskType'
    <2> SUFFICES ASSUME task' \in Progressed(task)
                 PROVE  task'.status = task.status /\ task'.cand = task.cand /\ TaskType'
      OBVIOUS
    <2>1. PICK b \in BOOLEAN : task' = [task EXCEPT !.polled = TRUE, !.bytes = b]
      BY DEF Progressed, TaskType
    <2> QED
      BY <2>1 DEF TaskType
  <1>3. CASE PollProgress(l)
    <2>1. TaskType' /\ task'.status = task.status /\ task'.cand = task.cand
      BY <1>2, <1>3 DEF PollProgress
    <2>2. TypeInv' /\ Moved(l)
      BY <1>3, <2>1 DEF PollProgress, Surroundings, Moved, InstanceType, LoopsType
    <2> QED
      BY <1>3, <2>1, <2>2 DEF StatusMoves, Drives, PollProgress
  <1>4. CASE PollDone(l) /\ task.status = "cancelled"
    <2>1. TypeInv' /\ Moved(l) /\ loops'[l] = Off /\ ~Drives(l)'
      BY <1>4, Ends DEF PollDone
    <2> QED
      BY <1>4, <2>1, Blanks DEF StatusMoves, PollDone
  <1>5. CASE PollDone(l) /\ Goto(l, "fail") /\ UNCHANGED <<task, active>>
    <2>1. TypeInv' /\ Moved(l) /\ loops'[l].pc = "fail" /\ loops'[l].status = loops[l].status
      BY <1>5, Goes DEF PollDone
    <2> QED
      BY <1>5, <2>1 DEF StatusMoves, Drives, PollDone
  <1>6. ASSUME NEW whole \in BOOLEAN, PollDone(l), task' \in Progressed(task), UNCHANGED active,
               Become(l, [loops[l] EXCEPT !.pc = "recheck", !.whole = whole])
        PROVE  TypeInv' /\ Moved(l) /\ StatusMoves(l)
    <2> DEFINE s == [loops[l] EXCEPT !.pc = "recheck", !.whole = whole]
    <2>1. /\ s \in LoopState /\ s.pc = "recheck" /\ s.killed = loops[l].killed
          /\ s.status = loops[l].status
      BY <1>0 DEF LoopState
    <2>2. Become(l, s)
      BY <1>6
    <2> HIDE DEF s
    <2>3. TypeInv' /\ Moved(l) /\ loops'[l] = s
      BY <1>2, <1>6, <2>1, <2>2, Stays DEF PollDone, Holding
    <2> QED
      BY <1>2, <1>6, <2>1, <2>3 DEF StatusMoves, Drives, PollDone
  <1>7. CASE Recheck(l) /\ task.status = "cancelled"
    <2>1. TypeInv' /\ Moved(l) /\ loops'[l] = Off /\ ~Drives(l)'
      BY <1>7, Ends DEF Recheck
    <2> QED
      BY <1>7, <2>1, Blanks DEF StatusMoves, Recheck
  <1>8. ASSUME NEW pc \in {"process", "keep"}, Recheck(l), Goto(l, pc), UNCHANGED active
        PROVE  TypeInv' /\ Moved(l) /\ StatusMoves(l)
    <2>1. TypeInv' /\ Moved(l) /\ loops'[l].pc = pc /\ loops'[l].status = loops[l].status
      BY <1>8, Goes DEF Recheck
    <2> QED
      BY <1>8, <2>1 DEF StatusMoves, Drives, Recheck
  <1>9. ASSUME NEW c \in Candidate, Recheck(l), UNCHANGED active,
               Become(l, [loops[l] EXCEPT !.pc = "abort", !.pick = c, !.result = FreshResult])
        PROVE  TypeInv' /\ Moved(l) /\ StatusMoves(l)
    <2> DEFINE s == [loops[l] EXCEPT !.pc = "abort", !.pick = c, !.result = FreshResult]
    <2>1. /\ s \in LoopState /\ s.pc = "abort" /\ s.killed = loops[l].killed
          /\ s.status = loops[l].status
      BY <1>0, Blanks DEF LoopState
    <2>2. Become(l, s)
      BY <1>9
    <2> HIDE DEF s
    <2>3. TypeInv' /\ Moved(l) /\ loops'[l] = s
      BY <1>9, <2>1, <2>2, Stays DEF Recheck, Holding
    <2> QED
      BY <1>9, <2>1, <2>3 DEF StatusMoves, Drives, Recheck
  <1>10. CASE KeepTransfer(l)
    <2>1. TaskType' /\ task'.status \in {task.status, "downloading"} /\ task'.cand = task.cand
      BY <1>10 DEF KeepTransfer, TaskType, Running
    <2>2. TypeInv' /\ Moved(l) /\ loops'[l].pc = "open" /\ loops'[l].status = loops[l].status
      BY <1>10, <2>1, Goes DEF KeepTransfer
    <2> QED
      BY <1>10, <2>1, <2>2 DEF StatusMoves, Drives, KeepTransfer, Running
  <1>11. CASE Process(l)
    <2>1. TaskType' /\ task'.status = "processing" /\ task'.cand = task.cand
      BY <1>11 DEF Process, TaskType, Running
    <2>2. TypeInv' /\ Moved(l) /\ loops'[l].pc = "import" /\ loops'[l].status = loops[l].status
      BY <1>11, <2>1, Goes DEF Process
    <2> QED
      BY <1>11, <2>1, <2>2 DEF StatusMoves, Drives, Process, Running
  <1>12. CASE PollDone(l) /\ task.status # "cancelled"
    BY <1>5, <1>6, <1>12 DEF PollDone
  <1>13. CASE Recheck(l) /\ task.status # "cancelled"
    BY <1>8, <1>9, <1>13 DEF Recheck
  <1> QED
    BY <1>1, <1>3, <1>4, <1>7, <1>10, <1>11, <1>12, <1>13

\* What comes after an import: the task is settled, or another candidate is tried.
LEMMA AfterImportDoes ==
  ASSUME NEW x \in LoopState, NEW r \in Result, NEW s \in AfterImport(x, r)
  PROVE  /\ s \in LoopState /\ s.pc \in {"finish", "failover"}
         /\ s.killed = x.killed /\ s.status = x.status
  <1> DEFINE kept == [r EXCEPT !.disposition = "preserve"]
  <1>1. kept \in Result
    BY DEF Result
  <1> HIDE DEF kept
  <1>2. \A q \in Result, v \in Terminal :
          LET t == [x EXCEPT !.pc = "finish", !.verdict = v, !.result = q]
          IN  t \in LoopState /\ t.pc = "finish" /\ t.killed = x.killed /\ t.status = x.status
    BY DEF LoopState, LoopPc
  <1>3. LET t == [x EXCEPT !.pc = "failover", !.result = r]
        IN  t \in LoopState /\ t.pc = "failover" /\ t.killed = x.killed /\ t.status = x.status
    BY DEF LoopState, LoopPc
  <1>4. \/ s = [x EXCEPT !.pc = "failover", !.result = r]
        \/ s = [x EXCEPT !.pc = "finish", !.verdict = "failed", !.result = r]
        \/ s = [x EXCEPT !.pc = "finish", !.verdict = "completed", !.result = r]
        \/ s = [x EXCEPT !.pc = "finish", !.verdict = "failed", !.result = kept]
    BY DEF AfterImport, kept
  <1>5. \/ s = [x EXCEPT !.pc = "failover", !.result = r]
        \/ \E q \in Result, v \in Terminal :
             s = [x EXCEPT !.pc = "finish", !.verdict = v, !.result = q]
    <2>1. "failed" \in Terminal /\ "completed" \in Terminal
      BY DEF Terminal
    <2> QED
      BY <1>1, <1>4, <2>1
  <1>6. CASE s = [x EXCEPT !.pc = "failover", !.result = r]
    BY <1>3, <1>6
  <1>7. ASSUME NEW q \in Result, NEW v \in Terminal,
               s = [x EXCEPT !.pc = "finish", !.verdict = v, !.result = q]
        PROVE  /\ s \in LoopState /\ s.pc \in {"finish", "failover"}
               /\ s.killed = x.killed /\ s.status = x.status
    BY <1>2, <1>7
  <1> QED
    BY <1>5, <1>6, <1>7

\* What a finalization leaves.
LEMMA FinalizeDoes ==
  ASSUME TypeInv, NEW c \in Candidate, NEW v \in Terminal, NEW r \in Result, Finalize(c, v, r)
  PROVE  /\ TaskType' /\ task'.status = v /\ task'.cand = task.cand
         /\ JournalType' /\ Grown(journal, journal')
  <1>1. TaskType' /\ task'.status = v /\ task'.cand = task.cand
    BY DEF Finalize, TypeInv, Data, TaskType
  <1>2. /\ JournalType /\ ManifestType /\ Grown(journal, journal)
        /\ r.disposition \in {"none", "discard", "preserve"} /\ r.bundles \in SUBSET Bundle
    BY Frames DEF TypeInv, Data, Result
  <1>3. CASE manifest = NoManifest
    <2>1. \/ journal' = journal
          \/ journal' = ScheduledIn(journal, LatestOf(OfCandidate(c)), r.disposition, r.bundles)
      BY <1>3 DEF Finalize
    <2> QED
      BY <1>1, <1>2, <2>1, Lookups, ScheduledInDoes DEF JournalType
  <1>4. CASE manifest # NoManifest
    <2>1. /\ Adopted(c) \in Seq(Entry) /\ Grown(journal, Adopted(c))
          /\ ManifestAttempt \in {0} \union DOMAIN Adopted(c)
      BY <1>2, <1>4, AdoptedDoes
    <2> DEFINE j == Adopted(c)
               k == ScheduledIn(j, ManifestAttempt, r.disposition, r.bundles)
    <2>2. k \in Seq(Entry) /\ Grown(j, k)
      BY <1>2, <2>1, ScheduledInDoes
    <2>3. journal' = journal \/ journal' = k
      BY <1>4 DEF Finalize
    <2> HIDE DEF j, k
    <2>4. Grown(journal, k)
      BY <2>1, <2>2, GrownTwice DEF j
    <2> QED
      BY <1>1, <1>2, <2>2, <2>3, <2>4 DEF JournalType
  <1> QED
    BY <1>3, <1>4

\* What scheduling the cleanup of an attempt leaves.
LEMMA ScheduleCleanupDoes ==
  ASSUME TypeInv, NEW c \in Candidate, NEW r \in Result, ScheduleCleanup(c, r)
  PROVE  JournalType' /\ Grown(journal, journal')
  <1>1. /\ JournalType /\ ManifestType
        /\ r.disposition \in {"none", "discard", "preserve"} /\ r.bundles \in SUBSET Bundle
    BY DEF TypeInv, Data, Result
  <1>2. CASE manifest = NoManifest
    <2>1. PICK a \in {0} \union DOMAIN journal :
            journal' = ScheduledIn(journal, a, r.disposition, r.bundles)
      BY <1>1, <1>2, Lookups DEF ScheduleCleanup
    <2> QED
      BY <1>1, <2>1, ScheduledInDoes DEF JournalType
  <1>3. CASE manifest # NoManifest
    <2>1. /\ Adopted(c) \in Seq(Entry) /\ Grown(journal, Adopted(c))
          /\ ManifestAttempt \in {0} \union DOMAIN Adopted(c)
      BY <1>1, <1>3, AdoptedDoes
    <2> DEFINE j == Adopted(c)
               k == ScheduledIn(j, ManifestAttempt, r.disposition, r.bundles)
    <2>2. k \in Seq(Entry) /\ Grown(j, k)
      BY <1>1, <2>1, ScheduledInDoes
    <2>3. journal' = k
      BY <1>3 DEF ScheduleCleanup
    <2> HIDE DEF j, k
    <2>4. Grown(journal, k)
      BY <2>1, <2>2, GrownTwice DEF j
    <2> QED
      BY <2>2, <2>3, <2>4 DEF JournalType
  <1> QED
    BY <1>2, <1>3

\* What failing a task leaves.
LEMMA FailPreservingDoes ==
  ASSUME TypeInv, FailPreserving
  PROVE  /\ TaskType' /\ task'.status = "failed" /\ task'.cand = task.cand
         /\ JournalType' /\ Grown(journal, journal')
  <1>1. TaskType' /\ task'.status = "failed" /\ task'.cand = task.cand
    BY DEF FailPreserving, TypeInv, Data, TaskType, Terminal
  <1>2. JournalType /\ journal' = ScheduledIn(journal, LatestOf(Live), "preserve", {})
    BY DEF FailPreserving, TypeInv, Data
  <1> QED
    BY <1>1, <1>2, Lookups, ScheduledInDoes DEF JournalType

\* A publication's result, by the candidate whose files it took.
LEMMA PublishedDoes ==
  ASSUME NEW c \in Candidate, NEW r \in Published(c)
  PROVE  r \in Result
  BY BundleAssumption DEF Published, Result

\* Importing the files and settling the task.
LEMMA ImportMoves ==
  ASSUME TypeInv, NEW l \in Loop,
         ImportFiles(l) \/ EndPublication(l) \/ Finish(l) \/ RemoveStaging(l) \/ Fail(l)
  PROVE  TypeInv' /\ Moved(l) /\ StatusMoves(l)
  <1> USE Frames, Places DEF TypeInv, Data, At, Alive
  <1>0. /\ loops[l] \in LoopState /\ task.cand \in Candidate
        /\ task.status \in Running \union Terminal
    BY DEF LoopsType, TaskType
  <1>1. ASSUME NEW r \in Result, NEW s \in AfterImport(loops[l], r), Become(l, s),
               UNCHANGED <<task, journal, manifest, active, budget>>, BundleType', Surroundings,
               loops[l].pc \in {"import", "publish"}, ~loops[l].killed
        PROVE  TypeInv' /\ Moved(l) /\ StatusMoves(l)
    <2>1. /\ s \in LoopState /\ s.pc \in {"finish", "failover"} /\ s.killed = loops[l].killed
          /\ s.status = loops[l].status
      BY <1>0, <1>1, AfterImportDoes
    <2>2. TypeInv' /\ Moved(l) /\ loops'[l] = s
      BY <1>1, <2>1, Stays DEF Holding
    <2> QED
      BY <1>1, <2>1, <2>2 DEF StatusMoves, Drives
  <1>2. CASE ImportFiles(l)
    <2>1. CASE Goto(l, "fail") /\ UNCHANGED bundle
      <3>1. TypeInv' /\ Moved(l) /\ loops'[l].pc = "fail" /\ loops'[l].status = loops[l].status
        BY <1>2, <2>1, Goes DEF ImportFiles
      <3> QED
        BY <1>2, <3>1 DEF StatusMoves, Drives, ImportFiles
    <2>2. ASSUME NEW d \in {"discard", "preserve"}, UNCHANGED bundle,
                 NEW s \in AfterImport(loops[l], [disposition |-> d, bundles |-> {}]), Become(l, s)
          PROVE  TypeInv' /\ Moved(l) /\ StatusMoves(l)
      <3>1. [disposition |-> d, bundles |-> {}] \in Result
        BY DEF Result
      <3> QED
        BY <1>1, <1>2, <2>2, <3>1 DEF ImportFiles
    <2>3. ASSUME manifest # NoManifest, bundle' = [bundle EXCEPT ![manifest.cand] = "publishing"],
                 Become(l, [loops[l] EXCEPT !.pc = "publish", !.handle = manifest.cand])
          PROVE  TypeInv' /\ Moved(l) /\ StatusMoves(l)
      <3>0. PICK c \in Candidate : c = manifest.cand
        BY <2>3 DEF ManifestType, NoManifest
      <3> DEFINE s == [loops[l] EXCEPT !.pc = "publish", !.handle = c]
      <3>1. /\ s \in LoopState /\ s.pc = "publish" /\ s.killed = loops[l].killed
            /\ s.status = loops[l].status /\ Holding(s, journal')
        BY <1>0 DEF LoopState, Holding
      <3>2. Become(l, s) /\ BundleType'
        BY <2>3, <3>0 DEF BundleType
      <3> HIDE DEF s
      <3>3. TypeInv' /\ Moved(l) /\ loops'[l] = s
        BY <1>2, <3>1, <3>2, Stays DEF ImportFiles
      <3> QED
        BY <1>2, <3>1, <3>3 DEF StatusMoves, Drives, ImportFiles
    <2> QED
      BY <1>2, <2>1, <2>2, <2>3 DEF ImportFiles
  <1>4. CASE EndPublication(l) /\ loops[l].killed
    <2>1. BundleType'
      BY <1>4 DEF EndPublication, BundleType
    <2>2. TypeInv' /\ Moved(l) /\ loops'[l] = Off /\ ~Drives(l)'
      BY <1>4, <2>1, Ends DEF EndPublication
    <2> QED
      BY <1>4, <2>2, Blanks DEF StatusMoves, EndPublication
  <1>5. CASE EndPublication(l) /\ ~loops[l].killed
    <2>1. BundleType' /\ loops[l].handle \in Candidate
      BY <1>5 DEF EndPublication, BundleType, LoopsType, Holding
    <2>2. PICK r \in Published(loops[l].handle) : \E s \in AfterImport(loops[l], r) : Become(l, s)
      BY <1>5 DEF EndPublication
    <2> QED
      BY <1>1, <1>5, <2>1, <2>2, PublishedDoes DEF EndPublication
  <1>6. CASE Finish(l)
    <2>1. /\ loops[l].cand \in Candidate /\ loops[l].verdict \in Terminal
          /\ loops[l].result \in Result
      BY <1>0 DEF LoopState
    <2>2. /\ TaskType' /\ task'.status \in Terminal /\ task'.cand = task.cand
          /\ JournalType' /\ Grown(journal, journal')
      BY <1>6, <2>1, FinalizeDoes DEF Finish
    <2>3. /\ [Off EXCEPT !.pc = "sweep"] \in LoopState /\ [Off EXCEPT !.pc = "sweep"].pc = "sweep"
          /\ [Off EXCEPT !.pc = "sweep"].status = "queued" /\ ~[Off EXCEPT !.pc = "sweep"].killed
      BY Blanks DEF Off
    <2>4. TypeInv' /\ Moved(l) /\ loops'[l] = [Off EXCEPT !.pc = "sweep"]
      BY <1>6, <2>2, <2>3, Stays DEF Finish, Holding
    <2> QED
      BY <1>6, <2>2, <2>3, <2>4 DEF StatusMoves, Drives, Finish
  <1>7. CASE RemoveStaging(l)
    <2>1. TypeInv' /\ Moved(l) /\ loops'[l] = Off /\ ~Drives(l)'
      BY <1>7, Ends DEF RemoveStaging
    <2> QED
      BY <1>7, <2>1, Blanks DEF StatusMoves, RemoveStaging, Drives
  <1>8. CASE Fail(l)
    <2>1. /\ TaskType' /\ task'.status = "failed" /\ task'.cand = task.cand
          /\ JournalType' /\ Grown(journal, journal')
      BY <1>8, FailPreservingDoes DEF Fail
    <2>2. TypeInv' /\ Moved(l) /\ loops'[l] = Off /\ ~Drives(l)'
      BY <1>8, <2>1, Ends DEF Fail
    <2> QED
      BY <1>8, <2>1, <2>2, Blanks DEF StatusMoves, Drives, Fail, Terminal
  <1> QED
    BY <1>2, <1>4, <1>5, <1>6, <1>7, <1>8

\* Giving the candidate up and linking another.
LEMMA FailoverMoves ==
  ASSUME TypeInv, NEW l \in Loop,
         Failover(l) \/ AbortTransfer(l) \/ ScheduleAttempt(l) \/ LinkCandidate(l)
  PROVE  TypeInv' /\ Moved(l) /\ StatusMoves(l)
  <1> USE Frames, Places DEF TypeInv, Data, At, Alive
  <1>0. loops[l] \in LoopState /\ task.cand \in Candidate /\ task.status \in Running \union Terminal
    BY DEF LoopsType, TaskType
  <1>1. CASE Failover(l)
    <2>1. ASSUME NEW s \in LoopState, s.pc \in {"finish", "abort"}, s.killed = loops[l].killed,
                 s.status = loops[l].status, Become(l, s)
          PROVE  TypeInv' /\ Moved(l) /\ StatusMoves(l)
      <3>1. TypeInv' /\ Moved(l) /\ loops'[l] = s
        BY <1>1, <2>1, Stays DEF Failover, Holding
      <3> QED
        BY <1>1, <2>1, <3>1 DEF StatusMoves, Drives, Failover
    <2>2. \A v \in Terminal, r \in Result :
            LET s == [loops[l] EXCEPT !.pc = "finish", !.verdict = v, !.result = r]
            IN  s \in LoopState /\ s.pc = "finish" /\ s.killed = loops[l].killed
                /\ s.status = loops[l].status
      BY <1>0 DEF LoopState
    <2>3. \A v \in Terminal :
            LET s == [loops[l] EXCEPT !.pc = "finish", !.verdict = v]
            IN  s \in LoopState /\ s.pc = "finish" /\ s.killed = loops[l].killed
                /\ s.status = loops[l].status
      BY <1>0 DEF LoopState
    <2>4. \A c \in Candidate :
            LET s == [loops[l] EXCEPT !.pc = "abort", !.pick = c]
            IN  s \in LoopState /\ s.pc = "abort" /\ s.killed = loops[l].killed
                /\ s.status = loops[l].status
      BY <1>0 DEF LoopState
    <2>5. \/ Become(l, [loops[l] EXCEPT !.pc = "finish", !.verdict = "completed",
                                        !.result = NoResult])
          \/ \E v \in {"partial", "failed"} :
                Become(l, [loops[l] EXCEPT !.pc = "finish", !.verdict = v])
          \/ \E c \in Candidate : Become(l, [loops[l] EXCEPT !.pc = "abort", !.pick = c])
      BY <1>1 DEF Failover
    <2>6. CASE Become(l, [loops[l] EXCEPT !.pc = "finish", !.verdict = "completed",
                                          !.result = NoResult])
      BY <2>1, <2>2, <2>6, Blanks DEF Terminal
    <2>7. CASE \E v \in {"partial", "failed"} :
                 Become(l, [loops[l] EXCEPT !.pc = "finish", !.verdict = v])
      BY <2>1, <2>3, <2>7 DEF Terminal
    <2>8. CASE \E c \in Candidate : Become(l, [loops[l] EXCEPT !.pc = "abort", !.pick = c])
      BY <2>1, <2>4, <2>8
    <2> QED
      BY <2>5, <2>6, <2>7, <2>8
  <1>2. CASE AbortTransfer(l)
    <2>1. CASE task.status = "cancelled" /\ Done(l)
      <3>1. TypeInv' /\ Moved(l) /\ loops'[l] = Off /\ ~Drives(l)'
        BY <1>2, <2>1, Ends DEF AbortTransfer
      <3> QED
        BY <1>2, <2>1, <3>1, Blanks DEF StatusMoves, AbortTransfer
    <2>2. ASSUME NEW pc \in {"schedule", "fail"}, Goto(l, pc), UNCHANGED active
          PROVE  TypeInv' /\ Moved(l) /\ StatusMoves(l)
      <3>1. TypeInv' /\ Moved(l) /\ loops'[l].pc = pc /\ loops'[l].status = loops[l].status
        BY <1>2, <2>2, Goes DEF AbortTransfer
      <3> QED
        BY <1>2, <2>2, <3>1 DEF StatusMoves, Drives, AbortTransfer
    <2> QED
      BY <1>2, <2>1, <2>2 DEF AbortTransfer
  <1>3. CASE ScheduleAttempt(l)
    <2>1. JournalType' /\ Grown(journal, journal')
      BY <1>0, <1>3, ScheduleCleanupDoes DEF ScheduleAttempt, LoopState
    <2>2. TypeInv' /\ Moved(l) /\ loops'[l].pc = "link" /\ loops'[l].status = loops[l].status
      BY <1>3, <2>1, Goes DEF ScheduleAttempt
    <2> QED
      BY <1>3, <2>2 DEF StatusMoves, Drives, ScheduleAttempt
  <1>4. CASE LinkCandidate(l)
    <2>1. TaskType' /\ task'.status = task.status
      BY <1>0, <1>4 DEF LinkCandidate, TaskType, LoopState
    <2>2. TypeInv' /\ Moved(l) /\ loops'[l].pc = "reset" /\ loops'[l].status = loops[l].status
      BY <1>4, <2>1, Goes DEF LinkCandidate
    <2> QED
      BY <1>4, <2>1, <2>2 DEF StatusMoves, Drives, LinkCandidate
  <1> QED
    BY <1>1, <1>2, <1>3, <1>4

\* A step of a coroutine, whichever it is.
LEMMA LoopMoves ==
  ASSUME TypeInv, NEW l \in Loop, LoopStep(l) \/ PollProgress(l)
  PROVE  TypeInv' /\ Moved(l) /\ StatusMoves(l)
  BY PrepareMoves, EnqueueMoves, PollMoves, ImportMoves, FailoverMoves DEF LoopStep

--------------------------------------------------------------------------------
(* A step of a handler.                                                     *)

\* The other handlers stay as they are.
OthersWait(h) == \A g \in Handler \ {h} : op'[g] = op[g]

\* A handler in another state.
LEMMA Turns ==
  ASSUME TypeInv, NEW h \in Handler, NEW o \in OpState, op' = [op EXCEPT ![h] = o],
         Grown(journal, journal'),
         h = "cancel" => o.pc \in {"idle", "wait", "bundles", "write", "sweep"},
         h = "next" => o.pc \in {"idle", "asked", "check", "schedule", "link", "reset"},
         h = "next" /\ o.pc \in {"schedule", "link"} => o.attempt \in Candidate,
         h = "reimport" =>
           o.pc \in {"idle", "status", "import", "publish", "preserve", "finish", "sweep"},
         h = "reimport" /\ o.pc \notin {"idle", "sweep"} => o.attempt \in 1 .. Len(journal'),
         h = "reap" => o.pc \in {"idle", "judged"}
  PROVE  OpsType' /\ op'[h] = o /\ OthersWait(h)
  <1>1. /\ op' \in [Handler -> OpState] /\ op'[h] = o /\ OthersWait(h)
    BY DEF TypeInv, OpsType, OthersWait
  <1>2. {"cancel", "next", "reimport", "reap"} \subseteq Handler
    BY DEF Handler
  <1>3. CancelType' /\ ReapType'
    BY <1>1, <1>2 DEF TypeInv, OpsType, OthersWait, CancelType, ReapType
  <1>4. NextType'
    BY <1>1, <1>2 DEF TypeInv, OpsType, OthersWait, NextType
  <1>5. ReimportType'
    BY <1>1, <1>2 DEF TypeInv, OpsType, OthersWait, ReimportType, Grown
  <1> QED
    BY <1>1, <1>3, <1>4, <1>5 DEF OpsType

\* Handlers are four.
LEMMA FourHandlers ==
  ASSUME TypeInv
  PROVE  /\ {"cancel", "next", "reimport", "reap"} = Handler
         /\ \A h \in Handler : op[h] \in OpState /\ op[h].at \in Instance /\ op[h].cand \in Candidate
         /\ CancelType /\ NextType /\ ReimportType /\ ReapType
         /\ op["cancel"] \in OpState /\ op["next"] \in OpState /\ op["reimport"] \in OpState
         /\ op["reap"] \in OpState
  BY DEF TypeInv, OpsType, OpState, Handler

\* Going to another place changes nothing else of a handler.
LEMMA OpWent ==
  ASSUME TypeInv, NEW h \in Handler, NEW pc \in OpPc, OpGoto(h, pc)
  PROVE  \E o \in OpState : /\ op' = [op EXCEPT ![h] = o] /\ o.pc = pc /\ o.at = op[h].at
                            /\ o.cand = op[h].cand /\ o.attempt = op[h].attempt
                            /\ o.bundles = op[h].bundles /\ o.result = op[h].result
                            /\ o.verdict = op[h].verdict
  <1>1. op[h] \in OpState
    BY FourHandlers
  <1> DEFINE o == [op[h] EXCEPT !.pc = pc]
  <1>2. /\ o \in OpState /\ o.pc = pc /\ o.at = op[h].at
        /\ o.cand = op[h].cand /\ o.attempt = op[h].attempt
        /\ o.bundles = op[h].bundles /\ o.result = op[h].result
        /\ o.verdict = op[h].verdict
    BY <1>1 DEF OpState
  <1>3. op' = [op EXCEPT ![h] = o]
    BY DEF OpGoto
  <1> HIDE DEF o
  <1> QED
    BY <1>2, <1>3

\* The locks stay well typed when a handler takes or gives one back.
LEMMA LockTypes ==
  ASSUME TypeInv, NEW i \in Instance, NEW x \in Handler \union {"free"},
         lock' = [lock EXCEPT ![i] = x], UNCHANGED instance, budget'.rebuilds = budget.rebuilds
  PROVE  InstanceType'
  BY DEF TypeInv, InstanceType

\* A handler that returns.
LEMMA Returned ==
  ASSUME TypeInv, NEW h \in Handler, Return(h), UNCHANGED instance, budget'.rebuilds = budget.rebuilds,
         Grown(journal, journal')
  PROVE  /\ OpsType' /\ InstanceType' /\ op'[h].pc = "idle" /\ OthersWait(h)
         /\ lock' = [lock EXCEPT ![op[h].at] = "free"]
  BY Turns, Blanks, FourHandlers, LockTypes DEF Return

\* Coroutines that are cancelled end, or will once the publication they are in is over.
LEMMA Stopped ==
  ASSUME TypeInv, NEW S \in SUBSET Loop, Stop(S), Grown(journal, journal')
  PROVE  /\ LoopsType'
         /\ \A l \in Loop : \/ loops'[l] = loops[l] /\ l \notin S
                            \/ loops'[l] = Off /\ l \in S
                            \/ /\ l \in S /\ loops[l].pc = "publish" /\ loops'[l].pc = "publish"
                               /\ loops'[l].killed /\ loops'[l].handle = loops[l].handle
                               /\ loops'[l].cand = loops[l].cand
                               /\ loops'[l].status = loops[l].status
         /\ active' = NoLoop \/ (active' = active /\ (active \notin S \/ Alive(active)'))
  <1>1. \A l \in Loop : loops[l] \in LoopState /\ Holding(loops[l], journal)
    BY DEF TypeInv, LoopsType
  <1>2. loops' = Killed(S) /\ DOMAIN loops' = Loop
    BY DEF Stop, Killed
  <1>3. ASSUME NEW l \in Loop
        PROVE  /\ loops'[l] \in LoopState /\ Holding(loops'[l], journal')
               /\ \/ loops'[l] = loops[l] /\ l \notin S
                  \/ loops'[l] = Off /\ l \in S
                  \/ /\ l \in S /\ loops[l].pc = "publish" /\ loops'[l].pc = "publish"
                     /\ loops'[l].killed /\ loops'[l].handle = loops[l].handle
                     /\ loops'[l].cand = loops[l].cand
                     /\ loops'[l].status = loops[l].status
    <2>1. CASE l \notin S
      BY <1>1, <1>2, <2>1 DEF Killed, Holding, Grown
    <2>2. CASE l \in S /\ loops[l].pc = "publish"
      <3> DEFINE s == [loops[l] EXCEPT !.killed = TRUE]
      <3>1. /\ s \in LoopState /\ s.pc = "publish" /\ s.killed /\ s.handle = loops[l].handle
            /\ s.cand = loops[l].cand /\ s.status = loops[l].status
        BY <1>1, <2>2 DEF LoopState
      <3>2. loops'[l] = s
        BY <1>2, <2>2 DEF Killed
      <3> HIDE DEF s
      <3> QED
        BY <1>1, <2>2, <3>1, <3>2 DEF Holding
    <2>3. CASE l \in S /\ loops[l].pc # "publish"
      BY <1>2, <2>3, Blanks DEF Killed, Holding
    <2> QED
      BY <2>1, <2>2, <2>3
  <1>4. loops' \in [Loop -> LoopState]
    BY <1>2, <1>3 DEF Killed
  <1>5. /\ active' \in Loop \union {NoLoop}
        /\ active' = NoLoop \/ (active' = active /\ (active \notin S \/ Alive(active)'))
    BY DEF Stop, TypeInv, LoopsType, Alive
  <1> QED
    BY <1>3, <1>4, <1>5 DEF LoopsType

\* A coroutine is dispatched.
LEMMA DispatchTypes ==
  ASSUME TypeInv, NEW via \in {"run", "resume"}, Dispatch(via), Grown(journal, journal')
  PROVE  /\ LoopsType'
         /\ \E l \in Loop : /\ ~Alive(l) /\ active' = l /\ loops'[l] = Dispatched(via)
                            /\ \A m \in Loop \ {l} : loops'[m] = loops[m]
  <1>1. PICK l \in Loop : /\ ~Alive(l) /\ Become(l, Dispatched(via)) /\ active' = l
    BY DEF Dispatch
  <1>2. /\ loops' \in [Loop -> LoopState] /\ loops'[l] = Dispatched(via)
        /\ \A m \in Loop \ {l} : loops'[m] = loops[m]
    BY <1>1, DispatchedDoes DEF TypeInv, LoopsType, Become
  <1>3. \A m \in Loop : Holding(loops'[m], journal')
    BY <1>2, DispatchedDoes DEF TypeInv, LoopsType, Holding, Grown
  <1> QED
    BY <1>1, <1>2, <1>3 DEF LoopsType

\* The UPDATE of a cancellation, on every attempt of the task.
LEMMA ScheduledAll ==
  ASSUME JournalType, NEW d \in {"discard", "preserve"}, NEW bs \in SUBSET Bundle,
         journal' = [a \in DOMAIN journal |->
                       IF Schedulable(journal[a].row)
                       THEN [journal[a] EXCEPT !.row = Scheduled(@, d, bs)] ELSE journal[a]]
  PROVE  JournalType' /\ Grown(journal, journal')
  <1>1. Len(journal) \in Nat /\ DOMAIN journal = 1 .. Len(journal)
    BY DEF JournalType
  <1>2. ASSUME NEW a \in 1 .. Len(journal)
        PROVE  journal'[a] \in Entry /\ journal'[a].cand = journal[a].cand
    <2>1. journal[a] \in Entry /\ journal[a].row \in Row
      <3>1. journal[a] \in Entry
        BY <1>1 DEF JournalType
      <3> QED
        BY <3>1 DEF Entry
    <2>2. Scheduled(journal[a].row, d, bs) \in Row
      BY <2>1, RowOps
    <2> DEFINE r == Scheduled(journal[a].row, d, bs)
    <2>3. [journal[a] EXCEPT !.row = r] \in Entry /\ [journal[a] EXCEPT !.row = r].cand = journal[a].cand
      BY <2>1, <2>2 DEF Entry
    <2>4. journal'[a] = journal[a] \/ journal'[a] = [journal[a] EXCEPT !.row = r]
      BY <1>1
    <2> HIDE DEF r
    <2> QED
      BY <2>1, <2>3, <2>4
  <1>3. journal' \in [1 .. Len(journal) -> Entry]
    <2>1. DOMAIN journal' = 1 .. Len(journal) /\ journal' = [a \in 1 .. Len(journal) |-> journal'[a]]
      BY <1>1
    <2> QED
      BY <1>2, <2>1
  <1>4. journal' \in Seq(Entry) /\ Len(journal') = Len(journal)
    BY <1>1, <1>3
  <1> QED
    BY <1>1, <1>2, <1>4 DEF JournalType, Grown

\* What a cancellation may do: it stops coroutines, takes the lock, reads, writes, and
\* gives the lock back.
CancelMoved ==
  /\ OthersWait("cancel") /\ task'.cand = task.cand
  /\ manifest' \in {manifest, NoManifest} /\ Grown(journal, journal') /\ UNCHANGED instance
  /\ \/ CancelTask /\ op'["cancel"].pc = "wait" /\ UNCHANGED <<task, lock>>
     \/ /\ UNCHANGED <<loops, active>>
        /\ \/ CancelLocked /\ op'["cancel"].pc = "bundles" /\ UNCHANGED task
           \/ /\ op["cancel"].pc = "bundles" /\ op'["cancel"].pc = "write"
              /\ UNCHANGED <<task, lock>>
           \/ /\ op["cancel"].pc = "write" /\ op'["cancel"].pc = "sweep"
              /\ task'.status = "cancelled" /\ UNCHANGED lock
           \/ /\ op["cancel"].pc = "sweep" /\ op'["cancel"].pc = "idle" /\ UNCHANGED task
              /\ lock' = [lock EXCEPT ![op["cancel"].at] = "free"]

\* A cancellation: stop, wait, lock, look, write, sweep.
LEMMA CancelMoves ==
  ASSUME TypeInv,
         \/ CancelTask \/ CancelLocked \/ CancelReadsBundles \/ CancelWrites
         \/ HandlerSweeps("cancel")
  PROVE  TypeInv' /\ CancelMoved
  <1> USE Frames, FourHandlers DEF TypeInv, Data
  <1>1. CASE CancelTask
    <2> DEFINE o == [Idle EXCEPT !.pc = "wait", !.at = instance]
    <2>1. o \in OpState /\ o.pc = "wait" /\ o.at = instance
      BY Blanks, Places DEF OpState, InstanceType
    <2> HIDE DEF o
    <2>2. OpsType' /\ op'["cancel"] = o /\ OthersWait("cancel")
      BY <1>1, <2>1, Turns DEF CancelTask, o
    <2>3. LoopsType'
      <3>1. Own \in SUBSET Loop
        BY DEF Own, LoopsType
      <3> QED
        BY <1>1, <3>1, Stopped DEF CancelTask
    <2>4. BudgetType' /\ budget'.rebuilds = budget.rebuilds
      BY <1>1, BoundsAssumption DEF CancelTask, BudgetType
    <2> QED
      BY <1>1, <2>1, <2>2, <2>3, <2>4 DEF CancelTask, InstanceType, CancelMoved
  <1>2. CASE CancelLocked
    <2>1. PICK o \in OpState : op' = [op EXCEPT !["cancel"] = o] /\ o.pc = "bundles" /\ o.at = op["cancel"].at
      BY <1>2, OpWent, Places DEF CancelLocked
    <2>2. OpsType' /\ op'["cancel"] = o /\ OthersWait("cancel")
      BY <1>2, <2>1, Turns DEF CancelLocked
    <2>3. InstanceType'
      BY <1>2, LockTypes DEF CancelLocked, Outside
    <2> QED
      BY <1>2, <2>1, <2>2, <2>3 DEF CancelLocked, Outside, CancelMoved
  <1>3. CASE CancelReadsBundles
    <2> DEFINE bs == {c \in Candidate : bundle[c] # "none"}
               o == [op["cancel"] EXCEPT !.pc = "write", !.bundles = bs]
    <2>0. bs \in SUBSET Bundle
      BY BundleAssumption
    <2>1. o \in OpState /\ o.pc = "write" /\ o.at = op["cancel"].at
      BY <2>0, Places DEF OpState
    <2>3. JournalType' /\ Grown(journal, journal')
      BY <1>3, AdoptedDoes DEF CancelReadsBundles, JournalType, TaskType
    <2>4. op' = [op EXCEPT !["cancel"] = o]
      BY <1>3 DEF CancelReadsBundles
    <2> HIDE DEF o
    <2>2. OpsType' /\ op'["cancel"] = o /\ OthersWait("cancel")
      BY <2>1, <2>3, <2>4, Turns
    <2> QED
      BY <1>3, <2>1, <2>2, <2>3 DEF CancelReadsBundles, Outside, OpAt, CancelMoved
  <1>4. CASE CancelWrites
    <2> DEFINE o == [Idle EXCEPT !.pc = "sweep", !.at = op["cancel"].at]
    <2>1. o \in OpState /\ o.pc = "sweep" /\ o.at = op["cancel"].at
      BY Blanks, Places DEF OpState
    <2> HIDE DEF o
    <2>2. JournalType' /\ Grown(journal, journal')
      <3>1. PICK d \in {"discard", "preserve"} :
               journal' = [a \in DOMAIN journal |->
                             IF Schedulable(journal[a].row)
                             THEN [journal[a] EXCEPT !.row = Scheduled(@, d,
                                     IF d = "discard" THEN op["cancel"].bundles ELSE {})]
                             ELSE journal[a]]
        BY <1>4 DEF CancelWrites
      <3> DEFINE bs == IF d = "discard" THEN op["cancel"].bundles ELSE {}
      <3>2. bs \in SUBSET Bundle
        BY DEF OpState
      <3> QED
        BY <3>1, <3>2, ScheduledAll
    <2>3. OpsType' /\ op'["cancel"] = o /\ OthersWait("cancel")
      BY <1>4, <2>1, <2>2, Turns DEF CancelWrites, OpSweeps, o
    <2>4. TaskType' /\ task'.status = "cancelled" /\ task'.cand = task.cand
      BY <1>4 DEF CancelWrites, TaskType, Terminal
    <2> QED
      BY <1>4, <2>1, <2>2, <2>3, <2>4 DEF CancelWrites, Outside, OpAt, CancelMoved
  <1>5. CASE HandlerSweeps("cancel")
    <2>1. /\ OpsType' /\ InstanceType' /\ op'["cancel"].pc = "idle" /\ OthersWait("cancel")
          /\ lock' = [lock EXCEPT ![op["cancel"].at] = "free"]
      BY <1>5, Returned DEF HandlerSweeps, Outside
    <2> QED
      BY <1>5, <2>1 DEF HandlerSweeps, Outside, OpAt, CancelMoved
  <1> QED
    BY <1>1, <1>2, <1>3, <1>4, <1>5

\* What a switch to the next source may do: it takes the lock, stops the coroutines that
\* run, compares the candidate again, moves the task on and dispatches a coroutine.
NextMoved ==
  LET n == op["next"]
      o == op'["next"]
  IN
  /\ OthersWait("next") /\ Grown(journal, journal') /\ UNCHANGED <<manifest, instance>>
  /\ \/ /\ n.pc = "idle" /\ o.pc = "asked" /\ budget.switches > 0 /\ Source = "soulseek"
        /\ UNCHANGED <<task, loops, active>>
     \/ n.pc = "asked" /\ o.pc = "idle" /\ UNCHANGED <<task, loops, active>>
     \/ n.pc = "asked" /\ o.pc = "check" /\ Stop(RunningLoops) /\ UNCHANGED task
     \/ /\ n.pc = "check" /\ \A l \in Loop : ~loops[l].killed
        /\ \/ o.pc = "idle" /\ UNCHANGED <<task, loops, active>>
           \/ o.pc = "idle" /\ Dispatch("resume")
           \/ o.pc = "schedule" /\ o.cand = task.cand /\ UNCHANGED <<task, loops, active>>
     \/ n.pc = "schedule" /\ o.pc = "link" /\ o.cand = n.cand /\ UNCHANGED <<task, loops, active>>
     \/ n.pc = "link" /\ o.pc = "reset" /\ UNCHANGED <<loops, active>>
     \/ n.pc = "reset" /\ o.pc = "idle" /\ Dispatch("run")

\* A switch to the next source.
LEMMA NextMoves ==
  ASSUME TypeInv,
         NextSource \/ NextStopsLoop \/ NextChecks \/ NextSchedules \/ NextLinks \/ NextDispatches
  PROVE  TypeInv' /\ NextMoved
  <1> USE Frames, FourHandlers, Places DEF TypeInv, Data
  <1>0. task.cand \in Candidate /\ task.status \in Running \union Terminal
    BY DEF TaskType
  <1>1. CASE NextSource
    <2> DEFINE o == [Idle EXCEPT !.pc = "asked", !.at = instance, !.cand = task.cand]
    <2>1. o \in OpState /\ o.pc = "asked"
      BY <1>0, Blanks DEF OpState, InstanceType
    <2> HIDE DEF o
    <2>2. OpsType' /\ op'["next"] = o /\ OthersWait("next")
      BY <1>1, <2>1, Turns DEF NextSource, o
    <2>3. BudgetType' /\ budget'.rebuilds = budget.rebuilds
      BY <1>1, BoundsAssumption DEF NextSource, BudgetType
    <2>4. InstanceType'
      BY <1>1, <2>3, LockTypes DEF NextSource, InstanceType
    <2> QED
      BY <1>1, <2>1, <2>2, <2>3, <2>4 DEF NextSource, NextMoved, OpAt
  <1>2. CASE NextStopsLoop
    <2>1. CASE Return("next") /\ UNCHANGED <<loops, active>>
      <3>1. OpsType' /\ InstanceType' /\ op'["next"].pc = "idle" /\ OthersWait("next")
        BY <1>2, <2>1, Returned DEF NextStopsLoop, Outside
      <3> QED
        BY <1>2, <2>1, <3>1 DEF NextStopsLoop, Outside, NextMoved, OpAt
    <2>2. CASE OpGoto("next", "check") /\ Stop(RunningLoops) /\ UNCHANGED lock
      <3>1. PICK o \in OpState : op' = [op EXCEPT !["next"] = o] /\ o.pc = "check"
        BY <2>2, OpWent
      <3>2. OpsType' /\ op'["next"] = o /\ OthersWait("next")
        BY <1>2, <3>1, Turns DEF NextStopsLoop
      <3>3. LoopsType'
        <4>1. RunningLoops \in SUBSET Loop
          BY DEF RunningLoops, Own, LoopsType
        <4> QED
          BY <1>2, <2>2, <4>1, Stopped DEF NextStopsLoop
      <3> QED
        BY <1>2, <2>2, <3>1, <3>2, <3>3 DEF NextStopsLoop, Outside, NextMoved, OpAt
    <2> QED
      BY <1>2, <2>1, <2>2 DEF NextStopsLoop
  <1>3. CASE NextChecks
    <2>1. CASE Return("next") /\ UNCHANGED <<task, loops, active>>
      <3>1. OpsType' /\ InstanceType' /\ op'["next"].pc = "idle" /\ OthersWait("next")
        BY <1>3, <2>1, Returned DEF NextChecks, Outside
      <3> QED
        BY <1>3, <2>1, <3>1 DEF NextChecks, Outside, NextMoved, OpAt
    <2>2. CASE /\ task' \in {task} \union Progressed(task)
               /\ Dispatch("resume") /\ Return("next")
      <3>1. OpsType' /\ InstanceType' /\ op'["next"].pc = "idle" /\ OthersWait("next")
        BY <1>3, <2>2, Returned DEF NextChecks, Outside
      <3>2. LoopsType'
        BY <1>3, <2>2, DispatchTypes DEF NextChecks
      <3>3. TaskType'
        BY <2>2 DEF Progressed, TaskType
      <3> QED
        BY <1>3, <2>2, <3>1, <3>2, <3>3 DEF NextChecks, Outside, NextMoved, OpAt
    <2>3. ASSUME NEW c \in Candidate, UNCHANGED <<task, loops, active, lock>>, Unmoved,
                 op' = [op EXCEPT !["next"] = [@ EXCEPT !.pc = "schedule", !.attempt = c]]
          PROVE  TypeInv' /\ NextMoved
      <3> DEFINE o == [op["next"] EXCEPT !.pc = "schedule", !.attempt = c]
      <3>0. c \in Nat
        BY Blanks
      <3>1. /\ o \in OpState /\ o.pc = "schedule" /\ o.cand = op["next"].cand
            /\ o.attempt = c
        BY <3>0 DEF OpState
      <3>2. op' = [op EXCEPT !["next"] = o]
        BY <2>3
      <3> HIDE DEF o
      <3>3. OpsType' /\ op'["next"] = o /\ OthersWait("next")
        BY <1>3, <3>1, <3>2, Turns DEF NextChecks
      <3>4. o.cand = task.cand
        BY <2>3, <3>1 DEF Unmoved
      <3> QED
        BY <1>3, <2>3, <3>1, <3>3, <3>4 DEF NextChecks, Outside, NextMoved, OpAt
    <2> QED
      BY <1>3, <2>1, <2>2, <2>3 DEF NextChecks
  <1>4. CASE NextSchedules
    <2>1. PICK o \in OpState : /\ op' = [op EXCEPT !["next"] = o] /\ o.pc = "link"
                               /\ o.cand = op["next"].cand /\ o.attempt = op["next"].attempt
      BY <1>4, OpWent DEF NextSchedules
    <2>2. JournalType' /\ Grown(journal, journal')
      BY <1>4, Blanks, ScheduleCleanupDoes DEF NextSchedules
    <2>3. o.attempt \in Candidate
      BY <1>4, <2>1 DEF NextSchedules, NextType, OpAt
    <2>4. OpsType' /\ op'["next"] = o /\ OthersWait("next")
      BY <2>1, <2>2, <2>3, Turns
    <2> QED
      BY <1>4, <2>1, <2>2, <2>4 DEF NextSchedules, Outside, NextMoved, OpAt
  <1>5. CASE NextLinks
    <2>1. PICK o \in OpState : op' = [op EXCEPT !["next"] = o] /\ o.pc = "reset"
      BY <1>5, OpWent DEF NextLinks
    <2>2. OpsType' /\ op'["next"] = o /\ OthersWait("next")
      BY <1>5, <2>1, Turns DEF NextLinks
    <2>3. TaskType'
      BY <1>5 DEF NextLinks, TaskType, NextType, OpAt
    <2> QED
      BY <1>5, <2>1, <2>2, <2>3 DEF NextLinks, Outside, NextMoved, OpAt
  <1>6. CASE NextDispatches
    <2>1. OpsType' /\ InstanceType' /\ op'["next"].pc = "idle" /\ OthersWait("next")
      BY <1>6, Returned DEF NextDispatches, Outside
    <2>2. LoopsType'
      BY <1>6, DispatchTypes DEF NextDispatches
    <2>3. TaskType'
      BY <1>6 DEF NextDispatches, Requeued, TaskType, Running
    <2> QED
      BY <1>6, <2>1, <2>2, <2>3 DEF NextDispatches, Outside, NextMoved, OpAt
  <1> QED
    BY <1>1, <1>2, <1>3, <1>4, <1>5, <1>6

\* What a re-import may do: it takes the lock where the task is over, marks the task as
\* processing, publishes, settles the task and gives the lock back.
ReimportMoved ==
  LET n == op["reimport"]
      o == op'["reimport"]
  IN
  /\ OthersWait("reimport") /\ Grown(journal, journal') /\ task'.cand = task.cand
  /\ manifest' \in {manifest, NoManifest} /\ UNCHANGED <<loops, active, instance>>
  /\ \/ /\ n.pc = "idle" /\ o.pc = "status" /\ o.at = instance
        /\ ReimportAllowed /\ Free(instance) /\ "reimport" \in Handlers
        /\ UNCHANGED task /\ lock' = [lock EXCEPT ![instance] = "reimport"]
     \/ n.pc = "status" /\ o.pc = "import" /\ task'.status = "processing" /\ UNCHANGED lock
     \/ n.pc = "import" /\ o.pc \in {"publish", "finish", "preserve"} /\ UNCHANGED <<task, lock>>
     \/ n.pc \in {"publish", "preserve"} /\ o.pc = "finish" /\ UNCHANGED <<task, lock>>
     \/ n.pc = "finish" /\ o.pc = "sweep" /\ task'.status \in Terminal /\ UNCHANGED lock
     \/ /\ n.pc = "sweep" /\ o.pc = "idle" /\ UNCHANGED task
        /\ lock' = [lock EXCEPT ![n.at] = "free"]

\* How a re-import goes on after the publication.
LEMMA AfterReimportDoes ==
  ASSUME NEW x \in OpState, NEW r \in Result, NEW o \in AfterReimport(x, r)
  PROVE  o \in OpState /\ o.pc = "finish" /\ o.attempt = x.attempt
  <1>1. PICK v \in {"completed", "partial", "failed"} :
          o = [x EXCEPT !.pc = "finish", !.verdict = v, !.result = r]
    BY DEF AfterReimport
  <1>2. v \in Terminal
    BY DEF Terminal
  <1> QED
    BY <1>1, <1>2, Places DEF OpState

\* The publications that a re-import may start and end.
LEMMA BundleTypes ==
  ASSUME TypeInv, NEW c \in Candidate, NEW b \in {"publishing", "settled"},
         bundle' = [bundle EXCEPT ![c] = b]
  PROVE  BundleType'
  BY DEF TypeInv, Data, BundleType

\* A re-import that takes its attempt back.
LEMMA ReacquiredTypes ==
  ASSUME TypeInv, NEW a \in DOMAIN journal, journal' = [journal EXCEPT ![a].row = Reacquired(@)]
  PROVE  JournalType' /\ Grown(journal, journal') /\ Len(journal') = Len(journal)
  <1>1. journal \in Seq(Entry) /\ journal[a] \in Entry
    BY DEF TypeInv, Data, JournalType
  <1>2. Reacquired(journal[a].row) \in Row
    <2>1. journal[a].row \in Row
      BY <1>1 DEF Entry
    <2> QED
      BY <2>1, RowOps
  <1> DEFINE r == Reacquired(journal[a].row)
  <1>3. journal' = [journal EXCEPT ![a].row = r]
    BY <1>1 DEF Entry
  <1>4. r \in Row
    BY <1>2
  <1> HIDE DEF r
  <1>5. /\ [journal EXCEPT ![a].row = r] \in Seq(Entry)
        /\ Grown(journal, [journal EXCEPT ![a].row = r])
        /\ Len([journal EXCEPT ![a].row = r]) = Len(journal)
    BY <1>1, <1>4, RowWritten
  <1> QED
    BY <1>3, <1>5 DEF JournalType

\* Scheduling the attempt that a handler has in hand.
LEMMA ScheduledTypes ==
  ASSUME TypeInv, NEW a \in 1 .. Len(journal), NEW d \in {"none", "discard", "preserve"},
         NEW bs \in SUBSET Bundle, journal' = ScheduledIn(journal, a, d, bs)
  PROVE  JournalType' /\ Grown(journal, journal')
  <1>1. journal \in Seq(Entry) /\ a \in {0} \union DOMAIN journal
    BY DEF TypeInv, Data, JournalType
  <1> QED
    BY <1>1, ScheduledInDoes DEF JournalType

\* A re-import.
LEMMA ReimportMoves ==
  ASSUME TypeInv,
         \/ Reimport \/ ReimportProcesses \/ ReimportImports \/ ReimportPublishes
         \/ ReimportPreserves \/ ReimportFinishes \/ HandlerSweeps("reimport")
  PROVE  TypeInv' /\ ReimportMoved
  <1> USE Frames, FourHandlers, Places DEF TypeInv, Data
  <1>0. task.cand \in Candidate /\ op["reimport"].result \in Result
        /\ op["reimport"].verdict \in Terminal /\ Len(journal) \in Nat
    BY DEF TaskType, OpState, JournalType
  <1>1. CASE Reimport
    <2> DEFINE a == LatestOf(OfCandidate(task.cand))
    <2>1. PICK b \in Nat : b = IF a = 0 THEN Len(journal') ELSE a
      <3>1. a \in {0} \union DOMAIN journal /\ DOMAIN journal = 1 .. Len(journal)
        BY Lookups DEF JournalType
      <3>2. a = 0 => Len(journal') \in Nat
        <4>1. a = 0 => journal' = Inserted(journal, task.cand, task.cand, HandleUpdated(Created))
          BY <1>1 DEF Reimport
        <4>2. Len(Inserted(journal, task.cand, task.cand, HandleUpdated(Created))) = Len(journal) + 1
          BY <1>0, Insertion, RowOps DEF JournalType
        <4> QED
          BY <1>0, <4>1, <4>2
      <3> QED
        BY <1>0, <3>1, <3>2
    <2>2. JournalType' /\ Grown(journal, journal') /\ b \in 1 .. Len(journal')
      <3>1. CASE a # 0 /\ journal' = [journal EXCEPT ![a].row = Reacquired(@)]
        <4>1. a \in DOMAIN journal
          BY <3>1, Lookups
        <4>2. JournalType' /\ Grown(journal, journal') /\ Len(journal') = Len(journal)
          BY <3>1, <4>1, ReacquiredTypes
        <4> QED
          BY <1>0, <2>1, <3>1, <4>1, <4>2 DEF JournalType
      <3>2. CASE a = 0 /\ journal' = Inserted(journal, task.cand, task.cand, HandleUpdated(Created))
        <4>1. JournalType' /\ Grown(journal, journal') /\ Len(journal') = Len(journal) + 1
          BY <1>0, <3>2, Insertion, RowOps DEF JournalType
        <4> QED
          BY <1>0, <2>1, <3>2, <4>1
      <3> QED
        BY <1>1, <3>1, <3>2 DEF Reimport
    <2> DEFINE o == [Idle EXCEPT !.pc = "status", !.at = instance, !.cand = task.cand,
                                 !.attempt = b]
    <2>3. o \in OpState /\ o.pc = "status" /\ o.at = instance /\ o.attempt = b
      BY <1>0, Blanks DEF OpState, InstanceType
    <2>4. op' = [op EXCEPT !["reimport"] = o]
      BY <1>1, <2>1 DEF Reimport
    <2> HIDE DEF o, a
    <2>5. OpsType' /\ op'["reimport"] = o /\ OthersWait("reimport")
      BY <2>2, <2>3, <2>4, Turns
    <2>6. InstanceType'
      BY <1>1, LockTypes DEF Reimport, InstanceType, Outside
    <2> QED
      BY <1>1, <2>2, <2>3, <2>5, <2>6 DEF Reimport, ReimportMoved, OpAt, Outside
  <1>2. CASE ReimportProcesses
    <2>1. PICK o \in OpState : /\ op' = [op EXCEPT !["reimport"] = o] /\ o.pc = "import"
                               /\ o.attempt = op["reimport"].attempt
      BY <1>2, OpWent DEF ReimportProcesses
    <2>2. OpsType' /\ op'["reimport"] = o /\ OthersWait("reimport")
      BY <1>2, <2>1, Turns DEF ReimportProcesses, ReimportType, OpAt
    <2>3. TaskType' /\ task'.status = "processing" /\ task'.cand = task.cand
      BY <1>2 DEF ReimportProcesses, TaskType, Running
    <2> QED
      BY <1>2, <2>1, <2>2, <2>3 DEF ReimportProcesses, ReimportMoved, OpAt, Outside
  <1>3. CASE ReimportImports
    <2>1. op["reimport"].attempt \in 1 .. Len(journal)
      BY <1>3 DEF ReimportImports, ReimportType, OpAt
    <2>2. PICK o \in OpState : /\ op' = [op EXCEPT !["reimport"] = o]
                               /\ o.pc \in {"publish", "finish", "preserve"}
                               /\ o.attempt = op["reimport"].attempt
      <3>1. CASE \E d \in {"discard", "preserve"} :
                 \E next \in AfterReimport(op["reimport"], [disposition |-> d, bundles |-> {}]) :
                    op' = [op EXCEPT !["reimport"] = next]
        <4>1. PICK d \in {"discard", "preserve"} :
                 \E next \in AfterReimport(op["reimport"], [disposition |-> d, bundles |-> {}]) :
                    op' = [op EXCEPT !["reimport"] = next]
          BY <3>1
        <4>2. [disposition |-> d, bundles |-> {}] \in Result
          BY DEF Result
        <4>3. PICK o \in AfterReimport(op["reimport"], [disposition |-> d, bundles |-> {}]) :
                 op' = [op EXCEPT !["reimport"] = o]
          BY <4>1
        <4>4. o \in OpState /\ o.pc = "finish" /\ o.attempt = op["reimport"].attempt
          BY <4>2, AfterReimportDoes
        <4> QED
          BY <4>3, <4>4
      <3>2. CASE OpGoto("reimport", "publish")
        BY <3>2, OpWent
      <3>3. CASE OpGoto("reimport", "preserve")
        BY <3>3, OpWent
      <3> QED
        BY <1>3, <3>1, <3>2, <3>3 DEF ReimportImports
    <2>3. OpsType' /\ op'["reimport"] = o /\ OthersWait("reimport")
      BY <1>3, <2>1, <2>2, Turns DEF ReimportImports
    <2>4. BundleType'
      BY <1>3, BundleTypes DEF ReimportImports
    <2> QED
      BY <1>3, <2>2, <2>3, <2>4 DEF ReimportImports, ReimportMoved, OpAt, Outside
  <1>4. CASE ReimportPublishes
    <2>1. op["reimport"].attempt \in 1 .. Len(journal)
      BY <1>4 DEF ReimportPublishes, ReimportType, OpAt
    <2>2. PICK o \in OpState : /\ op' = [op EXCEPT !["reimport"] = o] /\ o.pc = "finish"
                               /\ o.attempt = op["reimport"].attempt
      <3>1. PICK result \in Published(op["reimport"].cand) :
               \E next \in AfterReimport(op["reimport"], result) :
                 op' = [op EXCEPT !["reimport"] = next]
        BY <1>4 DEF ReimportPublishes
      <3>2. result \in Result
        BY PublishedDoes
      <3>3. PICK o \in AfterReimport(op["reimport"], result) : op' = [op EXCEPT !["reimport"] = o]
        BY <3>1
      <3>4. o \in OpState /\ o.pc = "finish" /\ o.attempt = op["reimport"].attempt
        BY <3>2, AfterReimportDoes
      <3> QED
        BY <3>3, <3>4
    <2>3. OpsType' /\ op'["reimport"] = o /\ OthersWait("reimport")
      BY <1>4, <2>1, <2>2, Turns DEF ReimportPublishes
    <2>4. BundleType'
      BY <1>4, BundleTypes DEF ReimportPublishes
    <2> QED
      BY <1>4, <2>2, <2>3, <2>4 DEF ReimportPublishes, ReimportMoved, OpAt, Outside
  <1>5. CASE ReimportPreserves
    <2>1. op["reimport"].attempt \in 1 .. Len(journal)
      BY <1>5 DEF ReimportPreserves, ReimportType, OpAt
    <2> DEFINE o == [op["reimport"] EXCEPT !.pc = "finish", !.verdict = "failed",
                                           !.result = NoResult]
    <2>2. o \in OpState /\ o.pc = "finish" /\ o.attempt = op["reimport"].attempt
      BY Blanks DEF OpState, Terminal
    <2>3. op' = [op EXCEPT !["reimport"] = o]
      BY <1>5 DEF ReimportPreserves
    <2> HIDE DEF o
    <2>4. JournalType' /\ Grown(journal, journal')
      BY <1>5, <2>1, ScheduledTypes DEF ReimportPreserves
    <2>5. OpsType' /\ op'["reimport"] = o /\ OthersWait("reimport")
      <3>1. o.attempt \in 1 .. Len(journal')
        BY <2>1, <2>2, <2>4 DEF Grown
      <3> QED
        BY <2>2, <2>3, <2>4, <3>1, Turns
    <2> QED
      BY <1>5, <2>2, <2>4, <2>5 DEF ReimportPreserves, ReimportMoved, OpAt, Outside
  <1>6. CASE ReimportFinishes
    <2> DEFINE r == op["reimport"]
               o == [Idle EXCEPT !.pc = "sweep", !.at = r.at]
    <2>1. r.attempt \in 1 .. Len(journal)
      BY <1>6 DEF ReimportFinishes, ReimportType, OpAt
    <2>2. o \in OpState /\ o.pc = "sweep"
      BY Blanks DEF OpState
    <2> HIDE DEF o
    <2>3. JournalType' /\ Grown(journal, journal')
      <3>1. r.result.disposition \in {"none", "discard", "preserve"} /\ r.result.bundles \in SUBSET Bundle
        BY <1>0 DEF Result
      <3> QED
        BY <1>6, <2>1, <3>1, ScheduledTypes DEF ReimportFinishes
    <2>4. OpsType' /\ op'["reimport"] = o /\ OthersWait("reimport")
      BY <1>6, <2>2, <2>3, Turns DEF ReimportFinishes, OpSweeps, o
    <2>5. TaskType' /\ task'.status \in Terminal /\ task'.cand = task.cand
      BY <1>0, <1>6 DEF ReimportFinishes, TaskType
    <2> QED
      BY <1>6, <2>2, <2>3, <2>4, <2>5 DEF ReimportFinishes, ReimportMoved, OpAt, Outside
  <1>7. CASE HandlerSweeps("reimport")
    <2>1. /\ OpsType' /\ InstanceType' /\ op'["reimport"].pc = "idle" /\ OthersWait("reimport")
          /\ lock' = [lock EXCEPT ![op["reimport"].at] = "free"]
      BY <1>7, Returned DEF HandlerSweeps, Outside
    <2> QED
      BY <1>7, <2>1 DEF HandlerSweeps, Outside, OpAt, ReimportMoved
  <1> QED
    BY <1>1, <1>2, <1>3, <1>4, <1>5, <1>6, <1>7

\* What the reaper may do: judge a task that nobody drives, and fail it.
ReapMoved ==
  /\ OthersWait("reap") /\ Grown(journal, journal') /\ task'.cand = task.cand
  /\ UNCHANGED <<manifest, loops, active, lock, instance>>
  /\ \/ /\ op["reap"].pc = "idle" /\ op'["reap"].pc = "judged" /\ Unowned /\ UNCHANGED task
        /\ "reap" \in Handlers
     \/ op["reap"].pc = "judged" /\ op'["reap"].pc = "idle" /\ task'.status = "failed"

\* The reaper.
LEMMA ReapMoves ==
  ASSUME TypeInv, ("reap" \in Handlers /\ ReapJudges) \/ ReapFails
  PROVE  TypeInv' /\ ReapMoved
  <1> USE Frames, FourHandlers, Places DEF TypeInv, Data
  <1>1. CASE "reap" \in Handlers /\ ReapJudges
    <2>1. PICK o \in OpState : op' = [op EXCEPT !["reap"] = o] /\ o.pc = "judged"
      BY <1>1, OpWent DEF ReapJudges
    <2>2. OpsType' /\ op'["reap"] = o /\ OthersWait("reap")
      BY <1>1, <2>1, Turns DEF ReapJudges
    <2> QED
      BY <1>1, <2>1, <2>2 DEF ReapJudges, ReapMoved, OpAt, Outside
  <1>2. CASE ReapFails
    <2>1. PICK o \in OpState : op' = [op EXCEPT !["reap"] = o] /\ o.pc = "idle"
      BY <1>2, OpWent DEF ReapFails
    <2>2. /\ TaskType' /\ task'.status = "failed" /\ task'.cand = task.cand
          /\ JournalType' /\ Grown(journal, journal')
      BY <1>2, FailPreservingDoes DEF ReapFails
    <2>3. OpsType' /\ op'["reap"] = o /\ OthersWait("reap")
      BY <2>1, <2>2, Turns
    <2> QED
      BY <1>2, <2>1, <2>2, <2>3 DEF ReapFails, ReapMoved, OpAt, Outside
  <1> QED
    BY <1>1, <1>2

--------------------------------------------------------------------------------
(* A step of the rest of the world.                                         *)

\* A step that touches neither the coroutines nor what the handlers are at.
Quiet == /\ task'.status = task.status /\ task'.cand = task.cand /\ Grown(journal, journal')
         /\ UNCHANGED <<manifest, loops, active, op, lock, instance>>

\* A settings save hides the coroutine from the handlers.
Rebuilt == /\ active' = NoLoop /\ instance' = instance + 1 /\ budget.rebuilds > 0
           /\ UNCHANGED <<task, journal, manifest, loops, op, lock>>

\* A crash leaves at most the coroutine that startup dispatches.
Crashed == /\ op' = [h \in Handler |-> Idle] /\ lock' = [i \in Instance |-> "free"]
           /\ UNCHANGED <<task, journal, manifest, instance>>
           /\ \/ /\ task.status \in Running
                 /\ \E l \in Loop, via \in {"run", "resume"} :
                      /\ loops' = [[m \in Loop |-> Off] EXCEPT ![l] = Dispatched(via)]
                      /\ active' = l
              \/ /\ task.status \notin Running
                 /\ loops' = [l \in Loop |-> Off] /\ active' = NoLoop

\* The cleanup service and the passing of time.
LEMMA QuietMoves ==
  ASSUME TypeInv, (\E a \in DOMAIN journal : CleanUp(a)) \/ Idling
  PROVE  TypeInv' /\ Quiet
  <1> USE Frames DEF TypeInv, Data
  <1>1. ASSUME NEW a \in DOMAIN journal, CleanUp(a) PROVE TypeInv' /\ Quiet
    <2>1. journal \in Seq(Entry) /\ journal[a] \in Entry
      BY DEF JournalType
    <2> DEFINE r == Completed(journal[a].row)
    <2>2. r \in Row
      <3>1. journal[a].row \in Row
        BY <2>1 DEF Entry
      <3> QED
        BY <3>1, RowOps
    <2>3. journal' = [journal EXCEPT ![a].row = r]
      BY <1>1, <2>1 DEF CleanUp, Entry
    <2> HIDE DEF r
    <2>4. [journal EXCEPT ![a].row = r] \in Seq(Entry) /\ Grown(journal, [journal EXCEPT ![a].row = r])
      BY <2>1, <2>2, RowWritten
    <2>5. JournalType' /\ Grown(journal, journal')
      BY <2>3, <2>4 DEF JournalType
    <2> QED
      BY <1>1, <2>5 DEF CleanUp, Quiet, Outside
  <1>2. CASE Idling
    <2>1. TaskType' /\ task'.status = task.status /\ task'.cand = task.cand
      BY <1>2 DEF Idling, TaskType
    <2> QED
      BY <1>2, <2>1 DEF Idling, Quiet, Outside
  <1> QED
    BY <1>1, <1>2

\* A settings save.
LEMMA RebuildMoves ==
  ASSUME TypeInv, RebuildOrchestrator
  PROVE  TypeInv' /\ Rebuilt
  <1> USE Frames DEF TypeInv, Data
  <1>1. BudgetType' /\ budget'.rebuilds = budget.rebuilds - 1 /\ budget.rebuilds \in Nat
    BY BoundsAssumption DEF RebuildOrchestrator, BudgetType
  <1>2. InstanceType'
    <2>1. /\ instance \in 1 .. MaxRebuilds + 1 /\ instance + budget.rebuilds = MaxRebuilds + 1
          /\ lock \in [Instance -> Handler \union {"free"}] /\ budget.rebuilds > 0
          /\ instance' = instance + 1 /\ lock' = lock /\ MaxRebuilds \in Nat
      BY BoundsAssumption DEF RebuildOrchestrator, InstanceType, Instance
    <2>2. instance' \in 1 .. MaxRebuilds + 1 /\ instance' + budget'.rebuilds = MaxRebuilds + 1
      BY <1>1, <2>1
    <2> QED
      BY <2>1, <2>2 DEF InstanceType, Instance
  <1>3. LoopsType'
    BY DEF RebuildOrchestrator, LoopsType, Holding
  <1> QED
    BY <1>1, <1>2, <1>3 DEF RebuildOrchestrator, Rebuilt

\* A crash and the restart after it.
LEMMA CrashMoves ==
  ASSUME TypeInv, Crash
  PROVE  TypeInv' /\ Crashed
  <1> USE Frames DEF TypeInv, Data
  <1>1. BudgetType' /\ budget'.rebuilds = budget.rebuilds
    BY BoundsAssumption DEF Crash, BudgetType
  <1>2. InstanceType'
    BY <1>1 DEF Crash, InstanceType
  <1>3. BundleType'
    BY DEF Crash, BundleType
  <1>4. OpsType'
    BY Blanks DEF Crash, OpsType, CancelType, NextType, ReimportType, ReapType, Handler
  <1>5. Crashed
    <2>1. CASE task.status \in Interrupted
      <3>1. PICK l \in Loop :
               /\ loops' = [[m \in Loop |-> Off] EXCEPT ![l] =
                             Dispatched(IF task.status = "queued" THEN "run" ELSE "resume")]
               /\ active' = l
        BY <2>1 DEF Crash
      <3>2. PICK via \in {"run", "resume"} : via = IF task.status = "queued" THEN "run" ELSE "resume"
        OBVIOUS
      <3>3. loops' = [[m \in Loop |-> Off] EXCEPT ![l] = Dispatched(via)]
        BY <3>1, <3>2
      <3> QED
        BY <2>1, <3>1, <3>3 DEF Crash, Crashed, Interrupted
    <2>2. CASE task.status \notin Interrupted
      BY <2>2 DEF Crash, Crashed, Interrupted
    <2> QED
      BY <2>1, <2>2
  <1>6. LoopsType'
    <2>1. ASSUME NEW l \in Loop, NEW via \in {"run", "resume"}, active' = l,
                 loops' = [[m \in Loop |-> Off] EXCEPT ![l] = Dispatched(via)]
          PROVE  LoopsType'
      <3>1. /\ Dispatched(via) \in LoopState /\ Dispatched(via).pc \in {"read", "lookup"}
            /\ Off \in LoopState /\ Off.pc = "off"
        BY Blanks, DispatchedDoes
      <3>2. \A m \in Loop : loops'[m] = IF m = l THEN Dispatched(via) ELSE Off
        BY <2>1
      <3>3. loops' \in [Loop -> LoopState]
        BY <2>1, <3>1
      <3> QED
        BY <2>1, <3>1, <3>2, <3>3 DEF LoopsType, Holding
    <2>2. CASE loops' = [l \in Loop |-> Off] /\ active' = NoLoop
      BY <2>2, Blanks DEF LoopsType, Holding
    <2> QED
      BY <1>5, <2>1, <2>2 DEF Crashed
  <1> QED
    BY <1>1, <1>2, <1>3, <1>4, <1>5, <1>6 DEF Crashed

\* A step of the specification, whichever it is.
Step == \/ \E l \in Loop : (LoopStep(l) \/ PollProgress(l)) /\ Moved(l) /\ StatusMoves(l)
        \/ CancelMoved \/ NextMoved \/ ReimportMoved \/ ReapMoved
        \/ Quiet \/ Rebuilt \/ Crashed

\* Every step keeps the types and does one of these.
LEMMA StepTypes ==
  ASSUME TypeInv, [Next]_vars
  PROVE  TypeInv' /\ Step
  <1>1. CASE UNCHANGED vars
    BY <1>1, Frames DEF vars, Step, Quiet, TypeInv, Data
  <1>2. CASE \E l \in Loop : LoopStep(l) \/ PollProgress(l)
    BY <1>2, LoopMoves DEF Step
  <1>3. CASE CancelTask \/ CancelLocked \/ CancelReadsBundles \/ CancelWrites \/ HandlerSweeps("cancel")
    BY <1>3, CancelMoves DEF Step
  <1>4. CASE NextSource \/ NextStopsLoop \/ NextChecks \/ NextSchedules \/ NextLinks \/ NextDispatches
    BY <1>4, NextMoves DEF Step
  <1>5. CASE \/ Reimport \/ ReimportProcesses \/ ReimportImports \/ ReimportPublishes
             \/ ReimportPreserves \/ ReimportFinishes \/ HandlerSweeps("reimport")
    BY <1>5, ReimportMoves DEF Step
  <1>6. CASE ("reap" \in Handlers /\ ReapJudges) \/ ReapFails
    BY <1>6, ReapMoves DEF Step
  <1>7. CASE (\E a \in DOMAIN journal : CleanUp(a)) \/ Idling
    BY <1>7, QuietMoves DEF Step
  <1>8. CASE RebuildOrchestrator
    BY <1>8, RebuildMoves DEF Step
  <1>9. CASE Crash
    BY <1>9, CrashMoves DEF Step
  <1> QED
    BY <1>1, <1>2, <1>3, <1>4, <1>5, <1>6, <1>7, <1>8, <1>9 DEF Next, HandlerStep

\* Type correctness, with what the handlers have in hand at each of their places.
THEOREM TypesHold == Spec => []TypeInv
  <1>1. Init => TypeInv
    BY InitTypes
  <1>2. TypeInv /\ [Next]_vars => TypeInv'
    BY StepTypes
  <1> QED
    BY <1>1, <1>2, PTL DEF Spec

\* Type correctness: whatever the coroutines, the handlers, crashes and settings saves do,
\* every attempt in hand is a row of the journal and every variable keeps its type.
THEOREM TypeCorrectness == Spec => []TypeOK
  BY TypesHold, TypeInvTypes, PTL

--------------------------------------------------------------------------------
(* One coroutine, and what a switch to the next source relies on.           *)

OneLoop == \A l, m \in Loop : Alive(l) /\ Alive(m) => l = m
KnownLoop == active \in Loop => Alive(active)
KilledPublishes == \A l \in Loop : loops[l].killed => loops[l].pc = "publish"
NobodyAlive == \A l \in Loop : ~Alive(l)
Switching ==
  /\ op["next"].pc = "check" => \A l \in Loop : Alive(l) => loops[l].killed
  /\ op["next"].pc \in {"schedule", "link", "reset"} => NobodyAlive
  /\ op["next"].pc \in {"schedule", "link"} => task.cand = op["next"].cand

\* The coroutine that a handler dispatches is the only one: the others have been stopped.
LoopsInv == OneLoop /\ KnownLoop /\ KilledPublishes /\ Switching

\* A dispatch onto a task that nobody drives.
LEMMA DispatchedAlone ==
  ASSUME TypeInv, KilledPublishes, NobodyAlive, NEW via \in {"run", "resume"}, Dispatch(via),
         Grown(journal, journal')
  PROVE  (OneLoop /\ KnownLoop /\ KilledPublishes)'
  <1>1. PICK l \in Loop : /\ active' = l /\ loops'[l] = Dispatched(via)
                          /\ \A m \in Loop \ {l} : loops'[m] = loops[m]
    BY DispatchTypes
  <1>2. Alive(l)' /\ ~loops'[l].killed /\ \A m \in Loop \ {l} : ~Alive(m)'
    BY <1>1, DispatchedDoes DEF Alive, NobodyAlive
  <1> QED
    BY <1>1, <1>2 DEF OneLoop, KnownLoop, KilledPublishes

\* Cancelling coroutines makes none.
LEMMA StoppedLoops ==
  ASSUME TypeInv, LoopsInv, NEW S \in SUBSET Loop, Stop(S), Grown(journal, journal')
  PROVE  /\ (OneLoop /\ KnownLoop /\ KilledPublishes)'
         /\ \A l \in Loop : Alive(l)' => Alive(l) /\ (l \in S \/ loops[l].killed => loops'[l].killed)
  <1>1. /\ \A l \in Loop : \/ loops'[l] = loops[l] /\ l \notin S
                           \/ loops'[l] = Off /\ l \in S
                           \/ /\ l \in S /\ loops[l].pc = "publish" /\ loops'[l].pc = "publish"
                              /\ loops'[l].killed
        /\ active' = NoLoop \/ (active' = active /\ (active \notin S \/ Alive(active)'))
    BY Stopped
  <1>2. \A l \in Loop : Alive(l)' => Alive(l) /\ (l \in S \/ loops[l].killed => loops'[l].killed)
    BY <1>1, Blanks DEF Alive
  <1>3. OneLoop' /\ KilledPublishes'
    BY <1>1, <1>2, Blanks DEF LoopsInv, OneLoop, KilledPublishes
  <1>4. KnownLoop'
    BY <1>1, LoopAssumption DEF LoopsInv, KnownLoop, Alive
  <1> QED
    BY <1>2, <1>3, <1>4

\* Every step keeps the loops' invariant.
LEMMA StepLoops ==
  ASSUME TypeInv, LoopsInv, [Next]_vars
  PROVE  LoopsInv'
  <1>0. Step /\ Grown(journal, journal')
    BY StepTypes, Frames DEF Step, Moved, CancelMoved, NextMoved, ReimportMoved, ReapMoved,
       Quiet, Rebuilt, Crashed
  <1> USE DEF LoopsInv
  <1>1. ASSUME NEW l \in Loop, Moved(l), StatusMoves(l) PROVE LoopsInv'
    <2>1. /\ Alive(l) /\ \A m \in Loop \ {l} : loops'[m] = loops[m]
          /\ \A m \in Loop \ {l} : Alive(m)' = Alive(m)
          /\ active' = active \/ (~Alive(l)' /\ active = l /\ active' = NoLoop)
          /\ ~Alive(l)' => active' # l
          /\ ~loops'[l].killed /\ (loops[l].killed => ~Alive(l)') /\ op' = op
      BY <1>1 DEF Moved, Alive, Surroundings
    <2>2. \A m \in Loop : Alive(m)' => m = l
      BY <2>1 DEF OneLoop
    <2>3. OneLoop' /\ KilledPublishes'
      BY <2>1, <2>2 DEF OneLoop, KilledPublishes
    <2>4. KnownLoop'
      BY <2>1, LoopAssumption DEF KnownLoop
    <2>5. Switching'
      BY <2>1, <2>2 DEF Switching, NobodyAlive
    <2> QED
      BY <2>3, <2>4, <2>5
  <1>2. ASSUME UNCHANGED <<loops, active, op>>, task'.cand = task.cand PROVE LoopsInv'
    BY <1>2 DEF OneLoop, KnownLoop, KilledPublishes, Switching, NobodyAlive, Alive
  <1>3. ASSUME NEW h \in Handler \ {"next"}, OthersWait(h), UNCHANGED <<loops, active>>,
               task'.cand = task.cand
        PROVE  LoopsInv'
    <2>1. op'["next"] = op["next"]
      BY <1>3 DEF OthersWait, Handler
    <2> QED
      BY <1>3, <2>1 DEF OneLoop, KnownLoop, KilledPublishes, Switching, NobodyAlive, Alive
  <1>4. CASE CancelMoved
    <2>1. CASE UNCHANGED <<loops, active>>
      BY <1>3, <1>4, <2>1 DEF CancelMoved, Handler
    <2>2. CASE CancelTask
      <3>1. Own \in SUBSET Loop /\ Stop(Own)
        BY <2>2 DEF CancelTask, Own, TypeInv, LoopsType
      <3>2. /\ (OneLoop /\ KnownLoop /\ KilledPublishes)'
            /\ \A l \in Loop : Alive(l)' => Alive(l) /\ (loops[l].killed => loops'[l].killed)
        BY <1>0, <3>1, StoppedLoops
      <3>3. op'["next"] = op["next"] /\ task' = task
        BY <1>4, <2>2 DEF CancelMoved, OthersWait, Handler, CancelTask
      <3>4. Switching'
        BY <3>2, <3>3 DEF Switching, NobodyAlive
      <3> QED
        BY <3>2, <3>4
    <2> QED
      BY <1>4, <2>1, <2>2 DEF CancelMoved
  <1>5. CASE NextMoved
    <2> DEFINE n == op["next"]
               o == op'["next"]
    <2>1. CASE o.pc \in {"idle", "asked"} /\ UNCHANGED <<loops, active>>
      BY <2>1 DEF OneLoop, KnownLoop, KilledPublishes, Switching, Alive
    <2>2. CASE n.pc = "asked" /\ o.pc = "check" /\ Stop(RunningLoops) /\ UNCHANGED task
      <3>1. RunningLoops \in SUBSET Loop /\ \A l \in Loop : Alive(l) => l \in RunningLoops
        BY DEF RunningLoops, Own, TypeInv, LoopsType, OneLoop, KnownLoop
      <3>2. /\ (OneLoop /\ KnownLoop /\ KilledPublishes)'
            /\ \A l \in Loop : Alive(l)' => loops'[l].killed
        BY <1>0, <2>2, <3>1, StoppedLoops
      <3> QED
        BY <2>2, <3>2 DEF Switching
    <2>3. CASE n.pc = "check" /\ \A l \in Loop : ~loops[l].killed
      <3>1. NobodyAlive
        BY <2>3 DEF Switching, NobodyAlive
      <3>2. CASE o.pc = "idle" /\ Dispatch("resume")
        <4>1. (OneLoop /\ KnownLoop /\ KilledPublishes)'
          BY <1>0, <3>1, <3>2, DispatchedAlone
        <4> QED
          BY <3>2, <4>1 DEF Switching
      <3>3. CASE o.pc = "schedule" /\ o.cand = task.cand /\ UNCHANGED <<task, loops, active>>
        BY <3>1, <3>3 DEF OneLoop, KnownLoop, KilledPublishes, Switching, NobodyAlive, Alive
      <3> QED
        BY <1>5, <2>1, <2>3, <3>2, <3>3 DEF NextMoved
    <2>4. CASE n.pc = "schedule" /\ o.pc = "link" /\ o.cand = n.cand /\ UNCHANGED <<task, loops, active>>
      BY <2>4 DEF OneLoop, KnownLoop, KilledPublishes, Switching, NobodyAlive, Alive
    <2>5. CASE n.pc = "link" /\ o.pc = "reset" /\ UNCHANGED <<loops, active>>
      BY <2>5 DEF OneLoop, KnownLoop, KilledPublishes, Switching, NobodyAlive, Alive
    <2>6. CASE n.pc = "reset" /\ o.pc = "idle" /\ Dispatch("run")
      <3>1. (OneLoop /\ KnownLoop /\ KilledPublishes)'
        BY <1>0, <2>6, DispatchedAlone DEF Switching
      <3> QED
        BY <2>6, <3>1 DEF Switching
    <2> QED
      BY <1>5, <2>1, <2>2, <2>3, <2>4, <2>5, <2>6 DEF NextMoved
  <1>6. CASE ReimportMoved \/ ReapMoved
    BY <1>3, <1>6 DEF ReimportMoved, ReapMoved, Handler
  <1>7. CASE Quiet
    BY <1>2, <1>7 DEF Quiet
  <1>8. CASE Rebuilt
    BY <1>8, LoopAssumption DEF Rebuilt, OneLoop, KnownLoop, KilledPublishes, Switching,
       NobodyAlive, Alive
  <1>9. CASE Crashed
    <2>1. op'["next"].pc = "idle"
      BY <1>9, Blanks DEF Crashed, Handler
    <2>2. \E x \in Loop \union {NoLoop} :
            /\ active' = x /\ \A m \in Loop \ {x} : loops'[m].pc = "off"
            /\ \A m \in Loop : ~loops'[m].killed
            /\ x \in Loop => loops'[x].pc # "off"
      <3>1. ASSUME NEW l \in Loop, NEW via \in {"run", "resume"}, active' = l,
                   loops' = [[m \in Loop |-> Off] EXCEPT ![l] = Dispatched(via)]
            PROVE  /\ \A m \in Loop \ {l} : loops'[m].pc = "off"
                   /\ \A m \in Loop : ~loops'[m].killed
                   /\ loops'[l].pc # "off"
        BY <3>1, Blanks, DispatchedDoes
      <3>2. CASE loops' = [l \in Loop |-> Off] /\ active' = NoLoop
        BY <3>2, Blanks, LoopAssumption
      <3> QED
        BY <1>9, <3>1, <3>2 DEF Crashed
    <2> QED
      BY <2>1, <2>2, LoopAssumption DEF OneLoop, KnownLoop, KilledPublishes, Switching, Alive
  <1> QED
    BY <1>0, <1>1, <1>4, <1>5, <1>6, <1>7, <1>8, <1>9 DEF Step

\* The invariant of the loops, always.
THEOREM LoopsHold == Spec => []LoopsInv
  <1>1. Init => LoopsInv
    <2> SUFFICES ASSUME Init PROVE LoopsInv
      OBVIOUS
    <2>1. PICK l \in Loop : /\ loops = [m \in Loop |-> IF m = l THEN Dispatched("run") ELSE Off]
                            /\ active = l
      BY DEF Init
    <2>2. op["next"].pc = "idle"
      BY Blanks DEF Init, Handler
    <2>3. \A m \in Loop : ~loops[m].killed /\ (loops[m].pc # "off" <=> m = l)
      BY <2>1, Blanks, DispatchedDoes
    <2> QED
      BY <2>1, <2>2, <2>3 DEF LoopsInv, OneLoop, KnownLoop, KilledPublishes, Switching, Alive
  <1>2. TypeInv /\ LoopsInv /\ [Next]_vars => LoopsInv'
    BY StepLoops
  <1> QED
    BY <1>1, <1>2, TypesHold, PTL DEF Spec

\* A manual switch moves the task on from the candidate the user saw: the coroutine that
\* could have linked another one has been stopped, and nobody dispatches a new one
\* between the comparison and the link (try_next_source).
THEOREM SwitchSkipsNobody == Spec => NextSkipsNobody
  <1>1. TypeInv /\ LoopsInv /\ [Next]_vars => [NextLinks => task.cand = op["next"].cand]_vars
    BY DEF LoopsInv, Switching, NextLinks, OpAt
  <1> QED
    BY <1>1, TypesHold, LoopsHold, PTL DEF Spec, NextSkipsNobody

--------------------------------------------------------------------------------
(* Where try_next_source is not called.                                     *)

NoSwitch == op["next"].pc = "idle"
Unswitched == MaxSwitches = 0 \/ Source = "usenet"

\* It is not called where its calls are used up, or for a Usenet task.
LEMMA NoSwitchHolds ==
  ASSUME Unswitched
  PROVE  Spec => []NoSwitch
  <1>1. Init => NoSwitch
    BY Blanks DEF Init, NoSwitch, Handler
  <1>2. ASSUME TypeInv, NoSwitch, [Next]_vars PROVE NoSwitch'
    <2>1. Step /\ budget.switches \in 0 .. MaxSwitches
      BY <1>2, StepTypes DEF TypeInv, Data, BudgetType
    <2>2. ~NextMoved
      BY <1>2, <2>1 DEF NextMoved, NoSwitch, Unswitched
    <2>3. CASE \E l \in Loop : Moved(l)
      BY <1>2, <2>3 DEF Moved, Surroundings, NoSwitch
    <2>4. CASE CancelMoved \/ ReimportMoved \/ ReapMoved
      BY <1>2, <2>4 DEF CancelMoved, ReimportMoved, ReapMoved, OthersWait, Handler, NoSwitch
    <2>5. CASE Quiet \/ Rebuilt
      BY <1>2, <2>5 DEF Quiet, Rebuilt, NoSwitch
    <2>6. CASE Crashed
      BY <2>6, Blanks DEF Crashed, NoSwitch, Handler
    <2> QED
      BY <2>1, <2>2, <2>3, <2>4, <2>5, <2>6 DEF Step
  <1> QED
    BY <1>1, <1>2, TypesHold, PTL DEF Spec

NoReimport == op["reimport"].pc = "idle"

\* Nobody re-imports where that is not one of the handlers.
LEMMA NoReimportHolds ==
  ASSUME "reimport" \notin Handlers
  PROVE  Spec => []NoReimport
  <1>1. Init => NoReimport
    BY Blanks DEF Init, NoReimport, Handler
  <1>2. ASSUME TypeInv, NoReimport, [Next]_vars PROVE NoReimport'
    <2> USE DEF NoReimport
    <2>1. Step
      BY <1>2, StepTypes
    <2>2. ~ReimportMoved
      BY <1>2 DEF ReimportMoved
    <2>3. CASE \E l \in Loop : Moved(l)
      BY <1>2, <2>3 DEF Moved, Surroundings
    <2>4. CASE CancelMoved \/ NextMoved \/ ReapMoved
      BY <1>2, <2>4 DEF CancelMoved, NextMoved, ReapMoved, OthersWait, Handler
    <2>5. CASE Quiet \/ Rebuilt
      BY <1>2, <2>5 DEF Quiet, Rebuilt
    <2>6. CASE Crashed
      BY <2>6, Blanks DEF Crashed, Handler
    <2> QED
      BY <2>1, <2>2, <2>3, <2>4, <2>5, <2>6 DEF Step
  <1> QED
    BY <1>1, <1>2, TypesHold, PTL DEF Spec

\* A coroutine at work has a task that can be neither reaped nor re-imported, and none
\* is dispatched while either goes on.
DriveInv ==
  /\ \A l \in Loop : Drives(l) => /\ task.status \notin {"failed", "partial"}
                                  /\ loops[l].status \notin {"failed", "partial"}
                                  /\ op["reimport"].pc \in {"idle", "sweep"}
  /\ op["reap"].pc = "judged" => NobodyAlive

\* A task that is not over has a coroutine at work, or a handler that will settle it;
\* a coroutine that was killed is awaited by the cancellation.
OwnerInv ==
  /\ task.status \in Running =>
       \/ \E l \in Loop : Drives(l) /\ ~loops[l].killed
       \/ op["cancel"].pc \in {"wait", "bundles", "write"}
       \/ op["reimport"].pc \in {"import", "publish", "preserve", "finish"}
  /\ \A l \in Loop : loops[l].killed => op["cancel"].pc = "wait"

\* Every step keeps both.
LEMMA StepDrives ==
  ASSUME TypeInv, LoopsInv, NoSwitch, DriveInv, OwnerInv, [Next]_vars, NoSwitch'
  PROVE  DriveInv' /\ OwnerInv'
  <1>0. Step
    BY StepTypes
  <1>1. ASSUME NEW l \in Loop, Moved(l), StatusMoves(l) PROVE DriveInv' /\ OwnerInv'
    <2>1. /\ Alive(l) /\ \A m \in Loop \ {l} : loops'[m] = loops[m] /\ ~Alive(m) /\ ~Drives(m)
          /\ \A m \in Loop \ {l} : ~Drives(m)'
          /\ ~loops'[l].killed /\ op' = op
      BY <1>1 DEF Moved, LoopsInv, OneLoop, Alive, Drives, Surroundings
    <2>2. DriveInv'
      BY <1>1, <2>1 DEF StatusMoves, DriveInv, NobodyAlive, Running
    <2>3. \A m \in Loop : loops'[m].killed => op'["cancel"].pc = "wait"
      BY <2>1 DEF OwnerInv
    <2>4. ASSUME task'.status \in Running
          PROVE  \/ \E m \in Loop : Drives(m)' /\ ~loops'[m].killed
                 \/ op'["cancel"].pc \in {"wait", "bundles", "write"}
                 \/ op'["reimport"].pc \in {"import", "publish", "preserve", "finish"}
      <3>1. CASE Drives(l)'
        BY <2>1, <3>1
      <3>2. CASE ~Drives(l)'
        <4>1. /\ task'.status = task.status
              /\ task.status = "cancelled" \/ ~Drives(l) \/ loops[l].killed
          BY <1>1, <2>4, <3>2 DEF StatusMoves, Running, Terminal
        <4> QED
          BY <2>1, <2>4, <4>1 DEF OwnerInv, Running
      <3> QED
        BY <3>1, <3>2
    <2> QED
      BY <2>2, <2>3, <2>4 DEF OwnerInv
  <1>2. CASE CancelMoved
    <2>1. op'["reimport"] = op["reimport"] /\ op'["reap"] = op["reap"]
      BY <1>2 DEF CancelMoved, OthersWait, Handler
    <2>2. CASE CancelTask /\ op'["cancel"].pc = "wait" /\ UNCHANGED <<task, lock>>
      <3>1. Own \in SUBSET Loop /\ Stop(Own) /\ Grown(journal, journal')
        BY <1>2, <2>2 DEF CancelTask, Own, TypeInv, LoopsType, CancelMoved
      <3>2. \A l \in Loop : \/ loops'[l] = loops[l]
                            \/ loops'[l] = Off
                            \/ /\ loops[l].pc = "publish" /\ loops'[l].status = loops[l].status
        BY <3>1, Stopped
      <3>3. \A l \in Loop : Drives(l)' => Drives(l) /\ loops'[l].status = loops[l].status
        BY <3>2, Blanks DEF Drives, Alive
      <3>4. NobodyAlive => NobodyAlive'
        BY <3>2, Blanks DEF NobodyAlive, Alive
      <3> QED
        BY <2>1, <2>2, <3>3, <3>4 DEF DriveInv, OwnerInv
    <2>3. CASE /\ UNCHANGED <<loops, active>>
               /\ CancelLocked /\ op'["cancel"].pc = "bundles" /\ UNCHANGED task
      BY <2>1, <2>3 DEF DriveInv, OwnerInv, CancelLocked, NobodyAlive, Drives, Alive
    <2>4. CASE /\ UNCHANGED <<loops, active>>
               /\ op["cancel"].pc = "bundles" /\ op'["cancel"].pc = "write" /\ UNCHANGED task
      BY <2>1, <2>4 DEF DriveInv, OwnerInv, NobodyAlive, Drives, Alive
    <2>5. CASE /\ UNCHANGED <<loops, active>>
               /\ op["cancel"].pc = "write" /\ task'.status = "cancelled"
      BY <2>1, <2>5 DEF DriveInv, OwnerInv, NobodyAlive, Drives, Alive, Running
    <2>6. CASE /\ UNCHANGED <<loops, active>>
               /\ op["cancel"].pc = "sweep" /\ UNCHANGED task
      BY <2>1, <2>6 DEF DriveInv, OwnerInv, NobodyAlive, Drives, Alive
    <2> QED
      BY <1>2, <2>2, <2>3, <2>4, <2>5, <2>6 DEF CancelMoved
  <1>3. CASE ReimportMoved
    <2>1. op'["cancel"] = op["cancel"] /\ op'["reap"] = op["reap"] /\ UNCHANGED <<loops, active>>
      BY <1>3 DEF ReimportMoved, OthersWait, Handler
    <2>2. OwnerInv'
      <3>1. \A l \in Loop : loops'[l].killed => op'["cancel"].pc = "wait"
        BY <2>1 DEF OwnerInv
      <3>2. task'.status \in Running =>
              \/ \E l \in Loop : Drives(l)' /\ ~loops'[l].killed
              \/ op'["cancel"].pc \in {"wait", "bundles", "write"}
              \/ op'["reimport"].pc \in {"import", "publish", "preserve", "finish"}
        BY <1>3, <2>1 DEF ReimportMoved, OwnerInv, Drives, Alive, ReimportAllowed, Running, Terminal
      <3> QED
        BY <3>1, <3>2 DEF OwnerInv
    <2>3. \A l \in Loop : ~(Drives(l)' /\ op'["reimport"].pc \notin {"idle", "sweep"})
      BY <1>3, <2>1 DEF ReimportMoved, DriveInv, Drives, Alive, ReimportAllowed
    <2>4. \A l \in Loop : Drives(l)' => task'.status = task.status
      BY <1>3, <2>1 DEF ReimportMoved, DriveInv, Drives, Alive
    <2> QED
      BY <2>1, <2>2, <2>3, <2>4 DEF DriveInv, NobodyAlive, Drives, Alive
  <1>4. CASE ReapMoved
    <2>1. op'["cancel"] = op["cancel"] /\ op'["reimport"] = op["reimport"] /\ UNCHANGED <<loops, active>>
      BY <1>4 DEF ReapMoved, OthersWait, Handler
    <2> QED
      BY <1>4, <2>1 DEF ReapMoved, DriveInv, OwnerInv, NobodyAlive, Drives, Alive, Running, Unowned
  <1>5. CASE Quiet \/ Rebuilt
    <2>1. UNCHANGED <<loops, op>> /\ task'.status = task.status
      BY <1>5 DEF Quiet, Rebuilt
    <2> QED
      BY <2>1 DEF DriveInv, OwnerInv, NobodyAlive, Drives, Alive
  <1>6. CASE Crashed
    <2>1. op'["reimport"].pc = "idle" /\ op'["reap"].pc = "idle" /\ task' = task
      BY <1>6, Blanks DEF Crashed, Handler
    <2>2. ASSUME NEW l \in Loop, NEW via \in {"run", "resume"}, task.status \in Running,
                 loops' = [[m \in Loop |-> Off] EXCEPT ![l] = Dispatched(via)]
          PROVE  DriveInv' /\ OwnerInv'
      <3>1. \A m \in Loop : loops'[m].status = "queued" /\ ~loops'[m].killed
        BY <2>2, Blanks, DispatchedDoes
      <3>2. Drives(l)'
        BY <2>2, DispatchedDoes DEF Drives, Alive
      <3> QED
        BY <2>1, <2>2, <3>1, <3>2 DEF DriveInv, OwnerInv, Running
    <2>3. CASE task.status \notin Running /\ loops' = [l \in Loop |-> Off]
      BY <2>1, <2>3, Blanks DEF DriveInv, OwnerInv, Drives, Alive
    <2> QED
      BY <1>6, <2>2, <2>3 DEF Crashed
  <1>7. ~NextMoved
    BY DEF NextMoved, NoSwitch
  <1> QED
    BY <1>0, <1>1, <1>2, <1>3, <1>4, <1>5, <1>6, <1>7 DEF Step

\* Both, always.
LEMMA DrivesHold ==
  ASSUME Unswitched
  PROVE  Spec => [](DriveInv /\ OwnerInv)
  <1>1. Init => DriveInv /\ OwnerInv
    <2> SUFFICES ASSUME Init PROVE DriveInv /\ OwnerInv
      OBVIOUS
    <2>1. PICK l \in Loop : loops = [m \in Loop |-> IF m = l THEN Dispatched("run") ELSE Off]
      BY DEF Init
    <2>2. /\ op["reap"].pc = "idle" /\ op["reimport"].pc = "idle" /\ task.status = "queued"
      BY Blanks DEF Init, Handler
    <2>3. Drives(l) /\ \A m \in Loop : ~loops[m].killed /\ loops[m].status = "queued"
      BY <2>1, Blanks, DispatchedDoes DEF Drives, Alive
    <2> QED
      BY <2>2, <2>3 DEF DriveInv, OwnerInv
  <1>2. Spec => []NoSwitch
    BY NoSwitchHolds
  <1>3. TypeInv /\ LoopsInv /\ NoSwitch /\ DriveInv /\ OwnerInv /\ [Next]_vars /\ NoSwitch'
          => DriveInv' /\ OwnerInv'
    BY StepDrives
  <1> QED
    BY <1>1, <1>2, <1>3, TypesHold, LoopsHold, PTL DEF Spec

\* Two coroutines are never at work on the task, and none beside a re-import, where there
\* are no re-imports or no manual switches, which a Usenet task never has: a coroutine is
\* dispatched when none is left, and a task that can be re-imported has none.
THEOREM NoTwoDrivers ==
  ASSUME "reimport" \notin Handlers \/ Unswitched
  PROVE  Spec => []OneDriver
  <1>1. CASE "reimport" \notin Handlers
    <2>1. Spec => []NoReimport
      BY <1>1, NoReimportHolds
    <2>2. LoopsInv /\ NoReimport => OneDriver
      BY DEF LoopsInv, OneLoop, NoReimport, OneDriver, Drives
    <2> QED
      BY <2>1, <2>2, LoopsHold, PTL
  <1>2. CASE Unswitched
    <2>1. Spec => [](DriveInv /\ OwnerInv)
      BY <1>2, DrivesHold
    <2>2. LoopsInv /\ DriveInv => OneDriver
      BY DEF LoopsInv, OneLoop, DriveInv, OneDriver, Drives
    <2> QED
      BY <2>1, <2>2, LoopsHold, PTL
  <1> QED
    BY <1>1, <1>2

\* Without manual switches a task that is not over is never left alone: a coroutine works
\* on it, or a handler that has taken it over; startup dispatches one after a crash.
THEOREM NeverAbandoned ==
  ASSUME Unswitched
  PROVE  Spec => []SomebodyDrives
  <1>1. Spec => [](DriveInv /\ OwnerInv)
    BY DrivesHold
  <1>2. OwnerInv => SomebodyDrives
    BY DEF OwnerInv, SomebodyDrives, Drives, Alive
  <1> QED
    BY <1>1, <1>2, PTL

--------------------------------------------------------------------------------
(* A cancellation without settings saves, manual switches and the reaper.   *)

OneInstance == instance = 1 /\ Instance = {1} /\ budget.rebuilds = 0

\* The handlers find every coroutine, hold the one lock in turn, and what cancel_task has
\* to wait for before it writes has ended when it does.
CancelInv ==
  /\ op["reap"].pc = "idle"
  /\ \A l \in Loop : Alive(l) => active = l
  /\ \A l \in Loop : Drives(l) => loops[l].status # "cancelled"
  /\ op["cancel"].pc \in {"bundles", "write", "sweep"} => lock[1] = "cancel"
  /\ op["reimport"].pc # "idle" => lock[1] = "reimport"
  /\ op["cancel"].pc = "wait" => \A l \in Loop : Alive(l) => loops[l].killed
  /\ op["cancel"].pc \in {"bundles", "write"} => NobodyAlive
  /\ task.status = "cancelled" => (\A l \in Loop : ~Drives(l)) /\ op["reimport"].pc \in {"idle", "sweep"}

\* Without settings saves there is one instance.
LEMMA OneInstanceHolds ==
  ASSUME MaxRebuilds = 0, TypeInv
  PROVE  OneInstance /\ \A h \in Handler : op[h].at = 1
  <1>1. Instance = {1}
    BY DEF Instance
  <1>2. instance = 1 /\ budget.rebuilds = 0
    BY <1>1 DEF TypeInv, InstanceType, Data, BudgetType
  <1> QED
    BY <1>1, <1>2, FourHandlers DEF OneInstance

\* Every step keeps the invariant, and leaves a cancelled task cancelled.
LEMMA StepCancels ==
  ASSUME MaxRebuilds = 0, "reap" \notin Handlers,
         TypeInv, LoopsInv, NoSwitch, DriveInv, OwnerInv, CancelInv, [Next]_vars, NoSwitch'
  PROVE  CancelInv' /\ (task.status = "cancelled" => task'.status = "cancelled")
  <1>0. Step
    BY StepTypes
  <1>a. OneInstance /\ (\A h \in Handler : op[h].at = 1) /\ lock \in [{1} -> Handler \union {"free"}]
    BY OneInstanceHolds DEF OneInstance, TypeInv, InstanceType
  <1>1. ASSUME NEW l \in Loop, Moved(l), StatusMoves(l)
        PROVE  CancelInv' /\ (task.status = "cancelled" => task'.status = "cancelled")
    <2>1. /\ Alive(l) /\ \A m \in Loop \ {l} : loops'[m] = loops[m] /\ ~Alive(m) /\ ~Drives(m)
          /\ \A m \in Loop \ {l} : ~Drives(m)' /\ ~Alive(m)'
          /\ active' = active \/ ~Alive(l)'
          /\ ~loops'[l].killed /\ (loops[l].killed => ~Alive(l)') /\ op' = op /\ lock' = lock
      BY <1>1 DEF Moved, LoopsInv, OneLoop, Alive, Drives, Surroundings
    <2>2. \A m \in Loop : Alive(m)' => active' = m
      BY <2>1 DEF CancelInv
    <2>3. \A m \in Loop : Drives(m)' => loops'[m].status # "cancelled"
      BY <1>1, <2>1 DEF CancelInv, StatusMoves
    <2>4. task.status = "cancelled" => task'.status = "cancelled"
      BY <1>1, <2>1 DEF CancelInv, StatusMoves
    <2>5. task'.status = "cancelled" =>
            (\A m \in Loop : ~Drives(m)') /\ op'["reimport"].pc \in {"idle", "sweep"}
      BY <1>1, <2>1 DEF CancelInv, StatusMoves, Running, DriveInv
    <2>6. /\ op'["cancel"].pc = "wait" => \A m \in Loop : Alive(m)' => loops'[m].killed
          /\ op'["cancel"].pc \in {"bundles", "write"} => NobodyAlive'
      BY <2>1 DEF CancelInv, NobodyAlive
    <2> QED
      BY <2>1, <2>2, <2>3, <2>4, <2>5, <2>6 DEF CancelInv
  <1>2. CASE CancelMoved
    <2>1. op'["reimport"] = op["reimport"] /\ op'["reap"] = op["reap"]
      BY <1>2 DEF CancelMoved, OthersWait, Handler
    <2>2. CASE CancelTask /\ op'["cancel"].pc = "wait" /\ UNCHANGED <<task, lock>>
      <3>1. Own \in SUBSET Loop /\ Stop(Own) /\ Grown(journal, journal')
        BY <1>2, <2>2 DEF CancelTask, Own, TypeInv, LoopsType, CancelMoved
      <3>2. \A l \in Loop : Alive(l) => l \in Own
        BY LoopAssumption DEF CancelInv, Own
      <3>3. \A l \in Loop : Alive(l)' => Alive(l) /\ loops'[l].killed
        BY <3>1, <3>2, StoppedLoops
      <3>4. \A l \in Loop : \/ loops'[l] = loops[l]
                            \/ loops'[l] = Off
                            \/ loops[l].pc = "publish" /\ loops'[l].status = loops[l].status
        BY <3>1, Stopped
      <3>5. \A l \in Loop : Drives(l)' => Drives(l) /\ loops'[l].status = loops[l].status
        BY <3>4, Blanks DEF Drives, Alive
      <3>6. \A l \in Loop : Alive(l)' => active' = l
        BY <3>1, <3>3 DEF CancelInv, Stop, Alive
      <3> QED
        BY <2>1, <2>2, <3>3, <3>5, <3>6 DEF CancelInv
    <2> DEFINE Same == UNCHANGED <<loops, active>>
    <2>3. CASE Same /\ CancelLocked /\ op'["cancel"].pc = "bundles" /\ UNCHANGED task
      <3>1. lock[1] = "free" /\ lock'[1] = "cancel" /\ op["cancel"].pc = "wait"
        BY <1>a, <2>3 DEF CancelLocked, Free, OpAt, Handler
      <3>2. NobodyAlive'
        BY <2>3, <3>1 DEF CancelInv, CancelLocked, NobodyAlive, Alive
      <3>3. op["reimport"].pc = "idle"
        BY <3>1 DEF CancelInv
      <3> QED
        BY <2>1, <2>3, <3>1, <3>2, <3>3 DEF CancelInv, Drives, NobodyAlive
    <2>4. CASE /\ Same /\ op["cancel"].pc = "bundles" /\ op'["cancel"].pc = "write"
               /\ UNCHANGED <<task, lock>>
      BY <2>1, <2>4 DEF CancelInv, NobodyAlive, Drives, Alive
    <2>5. CASE /\ Same /\ op["cancel"].pc = "write" /\ op'["cancel"].pc = "sweep"
               /\ task'.status = "cancelled" /\ UNCHANGED lock
      BY <2>1, <2>5 DEF CancelInv, NobodyAlive, Drives, Alive
    <2>6. CASE /\ Same /\ op["cancel"].pc = "sweep" /\ op'["cancel"].pc = "idle" /\ UNCHANGED task
      <3>1. op["reimport"].pc = "idle"
        BY <2>6 DEF CancelInv
      <3> QED
        BY <2>1, <2>6, <3>1 DEF CancelInv, NobodyAlive, Drives, Alive
    <2> QED
      BY <1>2, <2>2, <2>3, <2>4, <2>5, <2>6 DEF CancelMoved
  <1>3. CASE ReimportMoved
    <2>1. op'["cancel"] = op["cancel"] /\ op'["reap"] = op["reap"] /\ UNCHANGED <<loops, active>>
      BY <1>3 DEF ReimportMoved, OthersWait, Handler
    <2>2. op'["reimport"].pc # "idle" => lock'[1] = "reimport" /\ op["cancel"].pc \notin {"bundles", "write", "sweep"}
      BY <1>3, <1>a DEF ReimportMoved, CancelInv, Free, OneInstance
    <2>3. op'["cancel"].pc \in {"bundles", "write", "sweep"} => lock'[1] = "cancel"
      <3>1. op["cancel"].pc \in {"bundles", "write", "sweep"} => lock[1] = "cancel"
        BY DEF CancelInv
      <3>2. op["reimport"].pc # "idle" => lock[1] = "reimport"
        BY DEF CancelInv
      <3>3. op["reimport"].pc = "idle" => lock[1] = "free"
        BY <1>3, <1>a DEF ReimportMoved, Free, OneInstance
      <3> QED
        BY <2>1, <3>1, <3>2, <3>3
    <2>4. /\ task.status = "cancelled" => task'.status = "cancelled"
          /\ task'.status = "cancelled" =>
               (\A m \in Loop : ~Drives(m)') /\ op'["reimport"].pc \in {"idle", "sweep"}
      BY <1>3, <2>1 DEF ReimportMoved, CancelInv, ReimportAllowed, DriveInv, Drives, Alive
    <2> QED
      BY <2>1, <2>2, <2>3, <2>4 DEF CancelInv, NobodyAlive, Drives, Alive
  <1>4. ~ReapMoved
    BY DEF ReapMoved, CancelInv
  <1>5. CASE Quiet
    BY <1>5 DEF Quiet, CancelInv, NobodyAlive, Drives, Alive
  <1>6. ~Rebuilt
    BY <1>a DEF Rebuilt, OneInstance
  <1>7. CASE Crashed
    <2>1. /\ op'["reimport"].pc = "idle" /\ op'["reap"].pc = "idle" /\ op'["cancel"].pc = "idle"
          /\ task' = task
      BY <1>7, Blanks DEF Crashed, Handler
    <2>2. ASSUME NEW l \in Loop, NEW via \in {"run", "resume"}, task.status \in Running, active' = l,
                 loops' = [[m \in Loop |-> Off] EXCEPT ![l] = Dispatched(via)]
          PROVE  CancelInv'
      <3>1. \A m \in Loop : loops'[m].status = "queued" /\ (Alive(m)' => m = l)
        BY <2>2, Blanks, DispatchedDoes DEF Alive
      <3> QED
        BY <2>1, <2>2, <3>1 DEF CancelInv, Running
    <2>3. CASE task.status \notin Running /\ loops' = [l \in Loop |-> Off]
      BY <2>1, <2>3, Blanks DEF CancelInv, Drives, Alive
    <2> QED
      BY <1>7, <2>1, <2>2, <2>3 DEF Crashed
  <1>8. ~NextMoved
    BY DEF NextMoved, NoSwitch
  <1> QED
    BY <1>0, <1>1, <1>2, <1>3, <1>4, <1>5, <1>6, <1>7, <1>8 DEF Step

\* The invariant of a cancellation, always.
LEMMA CancelHolds ==
  ASSUME MaxRebuilds = 0, Unswitched, "reap" \notin Handlers
  PROVE  Spec => []CancelInv
  <1>1. Init => CancelInv
    <2> SUFFICES ASSUME Init PROVE CancelInv
      OBVIOUS
    <2>1. PICK l \in Loop : /\ loops = [m \in Loop |-> IF m = l THEN Dispatched("run") ELSE Off]
                            /\ active = l
      BY DEF Init
    <2>2. /\ op["reap"].pc = "idle" /\ op["reimport"].pc = "idle" /\ op["cancel"].pc = "idle"
          /\ task.status = "queued"
      BY Blanks DEF Init, Handler
    <2>3. \A m \in Loop : loops[m].status = "queued" /\ (Alive(m) => m = l)
      BY <2>1, Blanks, DispatchedDoes DEF Alive
    <2> QED
      BY <2>1, <2>2, <2>3 DEF CancelInv
  <1>2. Spec => []NoSwitch /\ [](DriveInv /\ OwnerInv)
    BY NoSwitchHolds, DrivesHold, PTL
  <1>3. TypeInv /\ LoopsInv /\ NoSwitch /\ DriveInv /\ OwnerInv /\ CancelInv /\ [Next]_vars /\ NoSwitch'
          => CancelInv'
    BY StepCancels
  <1> QED
    BY <1>1, <1>2, <1>3, TypesHold, LoopsHold, PTL DEF Spec

\* A task the user cancelled stays cancelled, where no settings save hides its coroutine
\* from the handlers, nobody switches the source by hand and the reaper does not run:
\* cancel_task awaits the coroutine it has stopped and writes under the lock that a
\* re-import holds to its end.
THEOREM CancellationIsFinal ==
  ASSUME MaxRebuilds = 0, Unswitched, "reap" \notin Handlers
  PROVE  Spec => CancelledIsFinal
  <1>1. Spec => []NoSwitch /\ [](DriveInv /\ OwnerInv) /\ []CancelInv
    BY NoSwitchHolds, DrivesHold, CancelHolds, PTL
  <1>2. TypeInv /\ LoopsInv /\ NoSwitch /\ DriveInv /\ OwnerInv /\ CancelInv /\ [Next]_vars /\ NoSwitch'
          => [task.status = "cancelled" => task.status' = "cancelled"]_vars
    BY StepCancels
  <1> QED
    BY <1>1, <1>2, TypesHold, LoopsHold, PTL DEF Spec, CancelledIsFinal

--------------------------------------------------------------------------------
(* A Usenet task polls and publishes what its candidate is downloading.     *)

\* The manifest names an attempt of the candidate whose job it holds.
ManifestOwn(j, man) ==
  man = NoManifest \/ (man.attempt \in 1 .. Len(j) /\ j[man.attempt].cand = man.cand)

\* From the hand-over to the import the manifest is the one of the coroutine's candidate,
\* and a coroutine resumes with a manifest of the task's candidate only.
Handed == {"submit", "handle", "open", "poll", "recheck", "keep", "process", "import"}
OwnState(s, j, man, c) ==
  /\ s.pc = "manifest" => j[s.attempt].cand = s.cand
  /\ s.pc \in Handed => man = NoManifest \/ man.cand = s.cand
  /\ s.pc = "prepare" /\ s.resume => man = NoManifest \/ man.cand = c
  /\ s.pc \in {"poll", "publish"} => s.handle = s.cand

OwnInv == /\ ManifestOwn(journal, manifest)
          /\ \A l \in Loop : OwnState(loops[l], journal, manifest, task.cand)

Elsewhere == LoopPc \ (Handed \union {"manifest", "prepare", "publish"})

\* Where nothing is asked of the manifest.
LEMMA OwnElsewhere ==
  ASSUME NEW s, NEW j, NEW man, NEW c, s.pc \in Elsewhere
  PROVE  OwnState(s, j, man, c)
  BY DEF OwnState, Elsewhere, Handed

\* A manifest that is kept, or removed, still names its candidate's attempt.
LEMMA ManifestKept ==
  ASSUME NEW j, NEW k, NEW man, NEW new \in {man, NoManifest}, ManifestOwn(j, man), Grown(j, k)
  PROVE  ManifestOwn(k, new)
  BY DEF ManifestOwn, Grown

\* Steps that leave the manifest, and lead to where nothing is asked of it.
LEMMA LeavingOwns ==
  ASSUME TypeInv, NEW l \in Loop,
         \/ StartEnqueue(l) \/ WaitOutage(l) \/ Finish(l) \/ RemoveStaging(l) \/ Failover(l)
         \/ AbortTransfer(l) \/ ScheduleAttempt(l) \/ LinkCandidate(l) \/ ResetTransfer(l)
         \/ Fail(l)
  PROVE  loops'[l].pc \in Elsewhere /\ manifest' \in {manifest, NoManifest}
  <1>1. loops \in [Loop -> LoopState] /\ loops[l] \in LoopState
    BY DEF TypeInv, LoopsType
  <1>2. /\ Off.pc \in Elsewhere /\ [Off EXCEPT !.pc = "sweep"].pc \in Elsewhere
    BY Blanks, Places DEF Elsewhere, Handed, Off
  <1>3. {"off", "read", "enqueue", "create", "outage", "finish", "failover", "abort", "schedule",
         "link", "reset", "fail"} \subseteq Elsewhere
    BY Places DEF Elsewhere, Handed
  <1>4. ASSUME NEW s, Become(l, s) PROVE loops'[l] = s
    BY <1>1, <1>4 DEF Become
  <1>5. ASSUME NEW pc, Goto(l, pc) PROVE loops'[l].pc = pc
    BY <1>1, <1>4, <1>5 DEF Goto, LoopState
  <1>6. CASE StartEnqueue(l)
    BY <1>1, <1>3, <1>4, <1>5, <1>6 DEF StartEnqueue, NotEnqueued, LoopState
  <1>7. CASE WaitOutage(l)
    BY <1>2, <1>3, <1>4, <1>5, <1>7 DEF WaitOutage, Done
  <1>8. CASE Finish(l)
    BY <1>2, <1>4, <1>8 DEF Finish
  <1>9. CASE RemoveStaging(l)
    BY <1>2, <1>4, <1>9 DEF RemoveStaging, Done
  <1>10. CASE Failover(l)
    BY <1>1, <1>3, <1>4, <1>10 DEF Failover, LoopState
  <1>11. CASE AbortTransfer(l)
    BY <1>2, <1>3, <1>4, <1>5, <1>11 DEF AbortTransfer, Done
  <1>12. CASE ScheduleAttempt(l)
    BY <1>3, <1>5, <1>12 DEF ScheduleAttempt
  <1>13. CASE LinkCandidate(l)
    BY <1>3, <1>5, <1>13 DEF LinkCandidate
  <1>14. CASE ResetTransfer(l)
    BY <1>1, <1>3, <1>4, <1>14 DEF ResetTransfer, LoopState
  <1>15. CASE Fail(l)
    BY <1>2, <1>4, <1>15 DEF Fail, Done
  <1> QED
    BY <1>6, <1>7, <1>8, <1>9, <1>10, <1>11, <1>12, <1>13, <1>14, <1>15

\* The steps from the row to the client.
LEMMA HandingOwns ==
  ASSUME TypeInv, OwnInv, Source = "usenet", NEW l \in Loop,
         \/ ReadTask(l) \/ ResumeTask(l) \/ Prepare(l) \/ CreateAttempt(l) \/ WriteManifest(l)
         \/ Submit(l) \/ StoreHandle(l)
  PROVE  /\ ManifestOwn(journal', manifest')
         /\ OwnState(loops'[l], journal', manifest', task'.cand)
  <1>1. loops \in [Loop -> LoopState] /\ loops[l] \in LoopState /\ Holding(loops[l], journal)
    BY DEF TypeInv, LoopsType
  <1>2. /\ OwnState(loops[l], journal, manifest, task.cand) /\ ManifestOwn(journal, manifest)
        /\ journal \in Seq(Entry) /\ Len(journal) \in Nat
    BY DEF OwnInv, TypeInv, Data, JournalType
  <1>3. ASSUME NEW s, Become(l, s) PROVE loops'[l] = s
    BY <1>1, <1>3 DEF Become
  <1>4. ASSUME NEW pc, Goto(l, pc)
        PROVE  /\ loops'[l].pc = pc /\ loops'[l].cand = loops[l].cand
               /\ loops'[l].attempt = loops[l].attempt
    BY <1>1, <1>3, <1>4 DEF Goto, LoopState
  <1>5. Grown(journal, journal')
    BY LoopMoves DEF Moved, LoopStep
  <1>6. {"off", "read", "enqueue", "outage", "failover", "fail"} \subseteq Elsewhere
    BY Places DEF Elsewhere, Handed
  <1>7. CASE ReadTask(l)
    <2>1. loops'[l].pc = "prepare" /\ ~loops'[l].resume /\ manifest' = manifest
      BY <1>1, <1>3, <1>7 DEF ReadTask, LoopState
    <2> QED
      BY <1>2, <1>5, <2>1, ManifestKept DEF OwnState, Handed
  <1>8. CASE ResumeTask(l)
    <2>1. manifest' = manifest /\ task' = task
      BY <1>8 DEF ResumeTask
    <2>2. CASE loops'[l].pc = "read"
      BY <1>2, <1>5, <1>6, <2>1, <2>2, ManifestKept, OwnElsewhere
    <2>3. CASE loops'[l].pc # "read"
      <3>1. /\ manifest # NoManifest /\ loops'[l].pc = "prepare"
            /\ journal' = Adopted(task.cand) /\ Resumable(journal')
        BY <1>1, <1>3, <1>4, <1>8, <2>3 DEF ResumeTask, LoopState
      <3>2. /\ manifest.attempt # 0 /\ manifest.attempt \in 1 .. Len(journal)
            /\ journal[manifest.attempt].cand = manifest.cand
        BY <1>2, <3>1 DEF ManifestOwn
      <3>3. ManifestAttempt = manifest.attempt /\ journal' = journal
        BY <1>2, <3>1, <3>2 DEF ManifestAttempt, Adopted
      <3>4. manifest.cand = task.cand
        BY <3>1, <3>2, <3>3 DEF Resumable
      <3> QED
        BY <1>2, <1>5, <2>1, <3>1, <3>4, ManifestKept DEF OwnState, Handed
    <2> QED
      BY <2>2, <2>3
  <1>9. CASE Prepare(l)
    <2>1. /\ loops'[l].pc = (IF loops[l].resume THEN "open" ELSE "enqueue")
          /\ loops'[l].cand = task.cand /\ manifest' = manifest
          /\ loops[l].pc = "prepare"
      BY <1>1, <1>3, <1>9 DEF Prepare, LoopState, At
    <2> QED
      BY <1>2, <1>5, <2>1, ManifestKept DEF OwnState, Handed
  <1>10. CASE CreateAttempt(l)
    <2>1. /\ Len(journal') = Len(journal) + 1 /\ journal'[Len(journal) + 1].cand = loops[l].cand
          /\ manifest' = manifest
      <3>1. loops[l].cand \in Candidate
        BY <1>1 DEF LoopState
      <3>2. /\ journal' = Inserted(journal, loops[l].cand, loops[l].cand, Created)
            /\ manifest' = manifest
        BY <1>10 DEF CreateAttempt
      <3> QED
        BY <1>2, <3>1, <3>2, Insertion, RowOps
    <2>2. PICK n \in Nat : n = Len(journal')
      BY <1>2, <2>1
    <2>3. loops'[l] = [loops[l] EXCEPT !.pc = "manifest", !.attempt = n]
      BY <1>3, <1>10, <2>2 DEF CreateAttempt
    <2>4. loops'[l].pc = "manifest" /\ loops'[l].attempt = n /\ loops'[l].cand = loops[l].cand
      BY <1>1, <2>3 DEF LoopState
    <2> QED
      BY <1>2, <1>5, <2>1, <2>2, <2>4, ManifestKept DEF OwnState, Handed
  <1>11. CASE WriteManifest(l)
    <2>1. /\ manifest' = [cand |-> loops[l].cand, attempt |-> loops[l].attempt]
          /\ loops[l].pc = "manifest" /\ journal' = journal
      BY <1>11 DEF WriteManifest, At
    <2>2. /\ loops[l].attempt \in 1 .. Len(journal)
          /\ journal[loops[l].attempt].cand = loops[l].cand
      BY <1>1, <1>2, <2>1 DEF Holding, OwnState
    <2>3. loops'[l].pc = "submit" /\ loops'[l].cand = loops[l].cand
      BY <1>4, <1>11 DEF WriteManifest
    <2> QED
      BY <2>1, <2>2, <2>3 DEF ManifestOwn, OwnState
  <1>12. CASE Submit(l)
    <2>1. /\ manifest' = manifest /\ loops[l].pc = "submit"
          /\ \/ loops'[l].pc \in Elsewhere
             \/ loops'[l].pc = "handle" /\ loops'[l].cand = loops[l].cand
      BY <1>1, <1>3, <1>4, <1>6, <1>12 DEF Submit, NotEnqueued, LoopState, At
    <2> QED
      <3>1. CASE loops'[l].pc \in Elsewhere
        BY <1>2, <1>5, <2>1, <3>1, ManifestKept, OwnElsewhere
      <3>2. CASE loops'[l].pc \notin Elsewhere
        BY <1>2, <1>5, <2>1, <3>2, ManifestKept DEF OwnState, Handed
      <3> QED
        BY <3>1, <3>2
  <1>13. CASE StoreHandle(l)
    <2>1. /\ manifest' = manifest /\ loops[l].pc = "handle"
          /\ loops'[l].pc \in {"open", "fail"} /\ loops'[l].cand = loops[l].cand
      BY <1>1, <1>3, <1>4, <1>13 DEF StoreHandle, LoopState, At
    <2> QED
      BY <1>2, <1>5, <2>1, ManifestKept DEF OwnState, Handed
  <1> QED
    BY <1>7, <1>8, <1>9, <1>10, <1>11, <1>12, <1>13

\* The steps from the poll to the end of the publication.
LEMMA PollingOwns ==
  ASSUME TypeInv, OwnInv, NEW l \in Loop,
         \/ OpenPoll(l) \/ PollProgress(l) \/ PollDone(l) \/ Recheck(l) \/ KeepTransfer(l)
         \/ Process(l) \/ ImportFiles(l) \/ EndPublication(l)
  PROVE  OwnState(loops'[l], journal', manifest', task'.cand) /\ manifest' = manifest
  <1>1. loops \in [Loop -> LoopState] /\ loops[l] \in LoopState /\ Holding(loops[l], journal)
    BY DEF TypeInv, LoopsType
  <1>2. OwnState(loops[l], journal, manifest, task.cand)
    BY DEF OwnInv
  <1>3. ASSUME NEW s, Become(l, s) PROVE loops'[l] = s
    BY <1>1, <1>3 DEF Become
  <1>4. ASSUME NEW pc, Goto(l, pc)
        PROVE  loops'[l].pc = pc /\ loops'[l].cand = loops[l].cand
    BY <1>1, <1>3, <1>4 DEF Goto, LoopState
  <1>6. {"off", "finish", "failover", "abort", "fail"} \subseteq Elsewhere
    BY Places DEF Elsewhere, Handed
  <1>5. Off.pc \in Elsewhere
    BY <1>6, Blanks
  <1>7. CASE OpenPoll(l)
    <2>1. /\ manifest' = manifest /\ loops[l].pc = "open" /\ loops'[l].cand = loops[l].cand
          /\ loops'[l].pc = (IF manifest = NoManifest THEN "fail" ELSE "poll")
          /\ loops'[l].handle = manifest.cand
      BY <1>1, <1>3, <1>7 DEF OpenPoll, LoopState, At
    <2> QED
      BY <1>2, <2>1 DEF OwnState, Handed
  <1>8. CASE PollProgress(l)
    <2>1. manifest' = manifest /\ loops' = loops /\ loops[l].pc = "poll"
      BY <1>8 DEF PollProgress, At
    <2> QED
      BY <1>2, <2>1 DEF OwnState, Handed
  <1>9. CASE PollDone(l)
    <2>1. /\ manifest' = manifest /\ loops[l].pc = "poll"
          /\ \/ loops'[l].pc \in Elsewhere
             \/ loops'[l].pc = "recheck" /\ loops'[l].cand = loops[l].cand
      BY <1>1, <1>3, <1>4, <1>5, <1>6, <1>9 DEF PollDone, Done, LoopState, At
    <2> QED
      <3>1. CASE loops'[l].pc \in Elsewhere
        BY <2>1, <3>1, OwnElsewhere
      <3>2. CASE loops'[l].pc \notin Elsewhere
        BY <1>2, <2>1, <3>2 DEF OwnState, Handed
      <3> QED
        BY <3>1, <3>2
  <1>10. CASE Recheck(l)
    <2>1. /\ manifest' = manifest /\ loops[l].pc = "recheck"
          /\ \/ loops'[l].pc \in Elsewhere
             \/ loops'[l].pc \in {"process", "keep"} /\ loops'[l].cand = loops[l].cand
      BY <1>1, <1>3, <1>4, <1>5, <1>6, <1>10 DEF Recheck, Done, LoopState, At
    <2> QED
      <3>1. CASE loops'[l].pc \in Elsewhere
        BY <2>1, <3>1, OwnElsewhere
      <3>2. CASE loops'[l].pc \notin Elsewhere
        BY <1>2, <2>1, <3>2 DEF OwnState, Handed
      <3> QED
        BY <3>1, <3>2
  <1>11. CASE KeepTransfer(l) \/ Process(l)
    <2>1. /\ manifest' = manifest /\ loops[l].pc \in {"keep", "process"}
          /\ loops'[l].pc \in {"open", "import"} /\ loops'[l].cand = loops[l].cand
      BY <1>4, <1>11 DEF KeepTransfer, Process, At
    <2> QED
      BY <1>2, <2>1 DEF OwnState, Handed
  <1>12. CASE ImportFiles(l)
    <2>1. manifest' = manifest /\ loops[l].pc = "import"
      BY <1>12 DEF ImportFiles, At
    <2>2. CASE /\ manifest # NoManifest
               /\ Become(l, [loops[l] EXCEPT !.pc = "publish", !.handle = manifest.cand])
      <3>1. /\ loops'[l].pc = "publish" /\ loops'[l].cand = loops[l].cand
            /\ loops'[l].handle = manifest.cand
        BY <1>1, <1>3, <2>2 DEF LoopState
      <3> QED
        BY <1>2, <2>1, <2>2, <3>1 DEF OwnState, Handed
    <2>3. CASE \E d \in {"discard", "preserve"} :
               \E next \in AfterImport(loops[l], [disposition |-> d, bundles |-> {}]) :
                  Become(l, next)
      <3>1. PICK d \in {"discard", "preserve"} :
               \E next \in AfterImport(loops[l], [disposition |-> d, bundles |-> {}]) :
                  Become(l, next)
        BY <2>3
      <3>2. [disposition |-> d, bundles |-> {}] \in Result
        BY DEF Result
      <3>3. PICK s \in AfterImport(loops[l], [disposition |-> d, bundles |-> {}]) : Become(l, s)
        BY <3>1
      <3>4. loops'[l] = s /\ s.pc \in {"finish", "failover"}
        BY <1>1, <1>3, <3>2, <3>3, AfterImportDoes
      <3> QED
        BY <1>6, <2>1, <3>4, OwnElsewhere
    <2>4. CASE Goto(l, "fail")
      BY <1>4, <1>6, <2>1, <2>4, OwnElsewhere
    <2> QED
      BY <1>12, <2>2, <2>3, <2>4 DEF ImportFiles
  <1>13. CASE EndPublication(l)
    <2>1. manifest' = manifest /\ loops[l].pc = "publish" /\ loops[l].handle \in Candidate
      BY <1>1, <1>13 DEF EndPublication, Holding
    <2>2. CASE Done(l)
      BY <1>3, <1>5, <2>1, <2>2, OwnElsewhere DEF Done
    <2>3. CASE \E result \in Published(loops[l].handle) :
               \E next \in AfterImport(loops[l], result) : Become(l, next)
      <3>1. PICK result \in Published(loops[l].handle) :
               \E next \in AfterImport(loops[l], result) : Become(l, next)
        BY <2>3
      <3>2. result \in Result
        BY <2>1, PublishedDoes
      <3>3. PICK s \in AfterImport(loops[l], result) : Become(l, s)
        BY <3>1
      <3>4. loops'[l] = s /\ s.pc \in {"finish", "failover"}
        BY <1>1, <1>3, <3>2, <3>3, AfterImportDoes
      <3> QED
        BY <1>6, <2>1, <3>4, OwnElsewhere
    <2> QED
      BY <1>13, <2>2, <2>3 DEF EndPublication
  <1> QED
    BY <1>7, <1>8, <1>9, <1>10, <1>11, <1>12, <1>13

\* Every step keeps the invariant.
LEMMA StepOwns ==
  ASSUME TypeInv, LoopsInv, NoSwitch, OwnInv, Source = "usenet", [Next]_vars, NoSwitch'
  PROVE  OwnInv'
  <1>0. Step
    BY StepTypes
  <1>1. ASSUME NEW l \in Loop, LoopStep(l) \/ PollProgress(l) PROVE OwnInv'
    <2>1. Moved(l)
      BY <1>1, LoopMoves
    <2>2. /\ Grown(journal, journal') /\ ManifestOwn(journal, manifest)
          /\ \A m \in Loop \ {l} : loops'[m].pc = "off"
      BY <2>1 DEF Moved, LoopsInv, OneLoop, Alive, OwnInv
    <2>3. ManifestOwn(journal', manifest') /\ OwnState(loops'[l], journal', manifest', task'.cand)
      <3>1. CASE \/ StartEnqueue(l) \/ WaitOutage(l) \/ Finish(l) \/ RemoveStaging(l) \/ Failover(l)
                 \/ AbortTransfer(l) \/ ScheduleAttempt(l) \/ LinkCandidate(l) \/ ResetTransfer(l)
                 \/ Fail(l)
        BY <2>2, <3>1, LeavingOwns, ManifestKept, OwnElsewhere
      <3>2. CASE \/ ReadTask(l) \/ ResumeTask(l) \/ Prepare(l) \/ CreateAttempt(l)
                 \/ WriteManifest(l) \/ Submit(l) \/ StoreHandle(l)
        BY <1>1, <3>2, HandingOwns
      <3>3. CASE \/ OpenPoll(l) \/ PollProgress(l) \/ PollDone(l) \/ Recheck(l) \/ KeepTransfer(l)
                 \/ Process(l) \/ ImportFiles(l) \/ EndPublication(l)
        BY <2>2, <3>3, PollingOwns, ManifestKept
      <3> QED
        BY <1>1, <3>1, <3>2, <3>3 DEF LoopStep
    <2>4. \A m \in Loop \ {l} : OwnState(loops'[m], journal', manifest', task'.cand)
      BY <2>2, OwnElsewhere, Places DEF Elsewhere, Handed
    <2> QED
      BY <2>3, <2>4 DEF OwnInv
  <1>2. ASSUME Grown(journal, journal'), manifest' \in {manifest, NoManifest}, task'.cand = task.cand,
               \A l \in Loop : \/ loops'[l] = loops[l]
                               \/ loops'[l].pc \in Elsewhere
                               \/ /\ loops[l].pc = "publish" /\ loops'[l].pc = "publish"
                                  /\ loops'[l].handle = loops[l].handle
                                  /\ loops'[l].cand = loops[l].cand
        PROVE  OwnInv'
    <2>1. ManifestOwn(journal', manifest')
      BY <1>2, ManifestKept DEF OwnInv
    <2>2. ASSUME NEW l \in Loop PROVE OwnState(loops'[l], journal', manifest', task'.cand)
      <3>1. OwnState(loops[l], journal, manifest, task.cand) /\ Holding(loops[l], journal)
        BY DEF OwnInv, TypeInv, LoopsType
      <3>2. CASE loops'[l] = loops[l]
        BY <1>2, <3>1, <3>2 DEF OwnState, Holding, Grown
      <3>3. CASE loops'[l].pc \in Elsewhere
        BY <3>3, OwnElsewhere
      <3>4. CASE /\ loops[l].pc = "publish" /\ loops'[l].pc = "publish"
                 /\ loops'[l].handle = loops[l].handle /\ loops'[l].cand = loops[l].cand
        BY <3>1, <3>4 DEF OwnState, Handed
      <3> QED
        BY <1>2, <3>2, <3>3, <3>4
    <2> QED
      BY <2>1, <2>2 DEF OwnInv
  <1>3. Off.pc \in Elsewhere /\ \A via \in {"run", "resume"} : Dispatched(via).pc \in Elsewhere
    BY Blanks, DispatchedDoes, Places DEF Elsewhere, Handed
  <1>4. CASE CancelMoved
    <2>1. CASE UNCHANGED loops
      BY <1>2, <1>4, <2>1 DEF CancelMoved
    <2>2. CASE CancelTask
      <3>1. Own \in SUBSET Loop /\ Stop(Own) /\ Grown(journal, journal')
        BY <1>4, <2>2 DEF CancelTask, Own, TypeInv, LoopsType, CancelMoved
      <3>2. \A l \in Loop : \/ loops'[l] = loops[l]
                            \/ loops'[l] = Off
                            \/ /\ loops[l].pc = "publish" /\ loops'[l].pc = "publish"
                               /\ loops'[l].handle = loops[l].handle
                               /\ loops'[l].cand = loops[l].cand
        BY <3>1, Stopped
      <3> QED
        BY <1>2, <1>3, <1>4, <3>2 DEF CancelMoved
    <2> QED
      BY <1>4, <2>1, <2>2 DEF CancelMoved
  <1>5. CASE ReimportMoved \/ ReapMoved \/ Quiet
    BY <1>2, <1>5 DEF ReimportMoved, ReapMoved, Quiet
  <1>6. CASE Rebuilt
    BY <1>2, <1>6, Frames DEF Rebuilt
  <1>7. CASE Crashed
    <2>1. \A l \in Loop : loops'[l].pc \in Elsewhere
      BY <1>3, <1>7 DEF Crashed
    <2> QED
      BY <1>2, <1>7, <2>1, Frames DEF Crashed
  <1>8. ~NextMoved
    BY DEF NextMoved, NoSwitch
  <1>9. CASE \E l \in Loop : LoopStep(l) \/ PollProgress(l)
    BY <1>1, <1>9
  <1> QED
    BY <1>0, <1>4, <1>5, <1>6, <1>7, <1>8, <1>9 DEF Step

\* What a coroutine polls and publishes is its own candidate's transfer, where the manifest
\* names the attempt, as it does for a Usenet task: a manifest left by the candidate before
\* is not resumed, and is replaced before the hand-over to the client.
THEOREM PollsItsOwn ==
  ASSUME Source = "usenet"
  PROVE  Spec => []PollsOwnCandidate
  <1>1. Init => OwnInv
    <2> SUFFICES ASSUME Init PROVE OwnInv
      OBVIOUS
    <2>1. PICK l \in Loop : loops = [m \in Loop |-> IF m = l THEN Dispatched("run") ELSE Off]
      BY DEF Init
    <2>2. \A m \in Loop : loops[m].pc \in Elsewhere
      BY <2>1, Blanks, DispatchedDoes, Places DEF Elsewhere, Handed
    <2> QED
      BY <2>2, OwnElsewhere DEF OwnInv, ManifestOwn, Init
  <1>2. Spec => []NoSwitch
    BY NoSwitchHolds DEF Unswitched
  <1>3. TypeInv /\ LoopsInv /\ NoSwitch /\ OwnInv /\ [Next]_vars /\ NoSwitch' => OwnInv'
    BY StepOwns
  <1>4. OwnInv => PollsOwnCandidate
    BY DEF OwnInv, OwnState, PollsOwnCandidate
  <1> QED
    BY <1>1, <1>2, <1>3, <1>4, TypesHold, LoopsHold, PTL DEF Spec

================================================================================
