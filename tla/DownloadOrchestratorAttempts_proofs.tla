--------------------- MODULE DownloadOrchestratorAttempts_proofs ---------------------
(* Theorems of DownloadOrchestrator about what the attempts hold while a     *)
(* coroutine or a re-import works on them: which candidate a manifest and an *)
(* attempt belong to, which attempts are live, which are given up.           *)
EXTENDS DownloadOrchestrator_proofs

--------------------------------------------------------------------------------
(* The way of a coroutine from one place to the next.                       *)

\* What a coroutine carries from one place to the next.
Kept(s, t) == /\ t.cand = s.cand /\ t.attempt = s.attempt /\ t.handle = s.handle
              /\ t.pick = s.pick /\ t.result = s.result

\* From s to t, where the attempts, the manifest and the publications stay as they are.
Onward(s, t, man, c) ==
  \/ s.pc # "publish" /\ t.pc = "off"
  \/ s.pc = "read" /\ t.pc = "prepare" /\ ~t.resume /\ t.cand = c
  \/ s.pc = "prepare" /\ t.pc = (IF s.resume THEN "open" ELSE "enqueue") /\ t.cand = c
  \/ s.pc = "reset" /\ t.pc = "enqueue" /\ t.cand = c
  \/ s.pc \in {"enqueue", "submit"} /\ t.pc = "failover" /\ t.cand = s.cand /\ t.result = FreshResult
  \/ s.pc = "enqueue" /\ t.pc = "create" /\ Kept(s, t)
  \/ s.pc = "submit" /\ t.pc = "handle" /\ Kept(s, t)
  \/ s.pc = "outage" /\ t.pc = "enqueue" /\ Kept(s, t)
  \/ s.pc = "open" /\ t.pc = "poll" /\ t.cand = s.cand /\ man # NoManifest /\ t.handle = man.cand
  \/ s.pc \in {"open", "poll", "import", "abort"} /\ t.pc = "fail" /\ t.cand = s.cand
  \/ s.pc = "poll" /\ t.pc \in {"poll", "recheck"} /\ Kept(s, t)
  \/ s.pc = "recheck" /\ t.pc \in {"process", "keep"} /\ Kept(s, t)
  \/ s.pc = "recheck" /\ t.pc = "abort" /\ t.cand = s.cand /\ t.pick > s.cand /\ t.result = FreshResult
  \/ s.pc = "keep" /\ t.pc = "open" /\ Kept(s, t)
  \/ s.pc = "process" /\ t.pc = "import" /\ Kept(s, t)
  \/ s.pc = "import" /\ t.pc \in {"finish", "failover"} /\ t.cand = s.cand /\ t.result.disposition # "none"
  \/ /\ s.pc = "failover" /\ t.pc = "finish" /\ t.cand = s.cand
     /\ t.verdict = "completed" \/ t.result = s.result
  \/ /\ s.pc = "failover" /\ t.pc = "abort" /\ t.cand = s.cand /\ t.result = s.result
     /\ t.pick > s.cand
  \/ s.pc = "abort" /\ t.pc = "schedule" /\ Kept(s, t)

\* A step of a coroutine from s to t, with what it writes.
Flow(s, t) ==
  \/ Onward(s, t, manifest, task.cand) /\ UNCHANGED <<journal, manifest, bundle>> /\ task'.cand = task.cand
     /\ (t.pc = "off" => UNCHANGED task)
  \/ s.pc = "lookup"
  \/ /\ s.pc = "submit" /\ t.pc = "outage" /\ Kept(s, t) /\ budget.outages > 0
     /\ UNCHANGED <<task, journal, manifest, bundle>>
  \/ /\ s.pc = "create" /\ t.pc = "manifest" /\ t.cand = s.cand /\ t.attempt = Len(journal')
     /\ journal' = Inserted(journal, s.cand, s.cand, Created)
     /\ UNCHANGED <<task, manifest, bundle>>
  \/ /\ s.pc = "manifest" /\ t.pc = "submit" /\ Kept(s, t)
     /\ manifest' = [cand |-> s.cand, attempt |-> IF Source = "usenet" THEN s.attempt ELSE 0]
     /\ UNCHANGED <<task, journal, bundle>>
  \/ /\ s.pc = "handle" /\ t.pc \in {"open", "fail"} /\ Kept(s, t)
     /\ \/ journal' = journal
        \/ /\ HandleUpdatable(journal[s.attempt].row)
           /\ journal' = [journal EXCEPT ![s.attempt].row = HandleUpdated(@)]
     /\ UNCHANGED <<task, manifest, bundle>>
  \/ /\ s.pc = "import" /\ t.pc = "publish" /\ t.cand = s.cand
     /\ manifest # NoManifest /\ t.handle = manifest.cand
     /\ bundle' = [bundle EXCEPT ![manifest.cand] = "publishing"]
     /\ UNCHANGED <<task, journal, manifest>>
  \/ /\ s.pc = "publish" /\ bundle' = [bundle EXCEPT ![s.handle] = "settled"]
     /\ \/ t.pc = "off"
        \/ t.pc \in {"finish", "failover"} /\ t.cand = s.cand /\ t.result.disposition # "none"
     /\ UNCHANGED <<task, journal, manifest>>
  \/ /\ s.pc = "finish" /\ t.pc = "sweep" /\ Finalize(s.cand, s.verdict, s.result)
     /\ UNCHANGED <<manifest, bundle>>
  \/ s.pc = "sweep" /\ t.pc = "off" /\ manifest' = NoManifest /\ UNCHANGED <<task, journal, bundle>>
  \/ /\ s.pc = "schedule" /\ t.pc = "link" /\ Kept(s, t) /\ ScheduleCleanup(s.cand, s.result)
     /\ UNCHANGED <<task, manifest, bundle>>
  \/ /\ s.pc = "link" /\ t.pc = "reset" /\ task'.cand = s.pick
     /\ UNCHANGED <<journal, manifest, bundle>>
  \/ s.pc = "fail" /\ t.pc = "off" /\ FailPreserving /\ UNCHANGED <<manifest, bundle>>

\* Writing the state of a coroutine, and what the EXCEPTs of its actions make of it.
LEMMA Writes ==
  ASSUME TypeInv, NEW l \in Loop
  PROVE  /\ loops[l] \in LoopState
         /\ \A s : Become(l, s) => loops'[l] = s
         /\ \A pc \in LoopPc : Goto(l, pc) => loops'[l].pc = pc /\ Kept(loops[l], loops'[l])
         /\ Done(l) => loops'[l].pc = "off"
  <1>1. loops \in [Loop -> LoopState] /\ loops[l] \in LoopState
    BY DEF TypeInv, LoopsType
  <1>2. \A s : Become(l, s) => loops'[l] = s
    BY <1>1 DEF Become
  <1>3. ASSUME NEW pc \in LoopPc, Goto(l, pc) PROVE loops'[l].pc = pc /\ Kept(loops[l], loops'[l])
    BY <1>1, <1>2, <1>3 DEF Goto, LoopState, Kept
  <1>4. Done(l) => loops'[l].pc = "off"
    BY <1>2, Blanks DEF Done
  <1> QED
    BY <1>1, <1>2, <1>3, <1>4

\* From the row to the client.
LEMMA HandingFlows ==
  ASSUME TypeInv, NEW l \in Loop,
         \/ ReadTask(l) \/ ResumeTask(l) \/ Prepare(l) \/ ResetTransfer(l)
         \/ StartEnqueue(l) \/ CreateAttempt(l) \/ WriteManifest(l) \/ Submit(l) \/ WaitOutage(l)
         \/ StoreHandle(l)
  PROVE  Flow(loops[l], loops'[l])
  <1> USE Writes, Places
  <1>0. ASSUME NotEnqueued(l)
        PROVE  /\ loops'[l].pc = "failover" /\ loops'[l].cand = loops[l].cand
               /\ loops'[l].result = FreshResult
    <2>1. loops'[l] = [loops[l] EXCEPT !.pc = "failover", !.whole = TRUE, !.result = FreshResult]
      BY <1>0 DEF NotEnqueued
    <2> QED
      BY <2>1 DEF LoopState
  <1>1. CASE ReadTask(l)
    BY <1>1 DEF ReadTask, Flow, Onward, At, LoopState
  <1>2. CASE ResumeTask(l)
    BY <1>2 DEF ResumeTask, Flow, At
  <1>3. CASE Prepare(l)
    <2>1. task'.cand = task.cand
      BY <1>3 DEF Prepare, TypeInv, Data, TaskType
    <2>2. /\ loops[l].pc = "prepare" /\ UNCHANGED <<journal, manifest, bundle>>
          /\ loops'[l] = [loops[l] EXCEPT !.pc = IF loops[l].resume THEN "open" ELSE "enqueue",
                                         !.cand = task.cand]
      BY <1>3 DEF Prepare, At
    <2>3. /\ loops'[l].pc = (IF loops[l].resume THEN "open" ELSE "enqueue")
          /\ loops'[l].cand = task.cand
      BY <2>2 DEF LoopState
    <2> QED
      BY <2>1, <2>2, <2>3 DEF Flow, Onward
  <1>4. CASE ResetTransfer(l)
    <2>1. task'.cand = task.cand
      BY <1>4 DEF ResetTransfer, Requeued, TypeInv, Data, TaskType
    <2> QED
      BY <1>4, <2>1 DEF ResetTransfer, Flow, Onward, At, LoopState
  <1>5. CASE StartEnqueue(l)
    <2>1. task'.cand = task.cand
      BY <1>5 DEF StartEnqueue, TypeInv, Data, TaskType
    <2>2. CASE NotEnqueued(l)
      BY <1>0, <1>5, <2>1, <2>2 DEF StartEnqueue, Flow, Onward, At
    <2>3. CASE Goto(l, "create")
      BY <1>5, <2>1, <2>3 DEF StartEnqueue, Flow, Onward, At
    <2> QED
      BY <1>5, <2>2, <2>3 DEF StartEnqueue
  <1>6. CASE CreateAttempt(l)
    <2>1. /\ loops[l].pc = "create" /\ journal' = Inserted(journal, loops[l].cand, loops[l].cand, Created)
          /\ loops'[l] = [loops[l] EXCEPT !.pc = "manifest", !.attempt = Len(journal')]
          /\ UNCHANGED <<task, manifest, bundle>>
      BY <1>6 DEF CreateAttempt, At
    <2>2. loops'[l].pc = "manifest" /\ loops'[l].attempt = Len(journal') /\ loops'[l].cand = loops[l].cand
      BY <2>1 DEF LoopState
    <2> QED
      BY <2>1, <2>2 DEF Flow
  <1>7. CASE WriteManifest(l)
    BY <1>7 DEF WriteManifest, Flow, At
  <1>8. CASE Submit(l)
    <2>1. CASE NotEnqueued(l)
      BY <1>0, <1>8, <2>1 DEF Submit, Flow, Onward, At
    <2>2. CASE Goto(l, "handle")
      BY <1>8, <2>2 DEF Submit, Flow, Onward, At
    <2>3. CASE Goto(l, "outage") /\ budget.outages > 0
      BY <1>8, <2>3 DEF Submit, Flow, At
    <2> QED
      BY <1>8, <2>1, <2>2, <2>3 DEF Submit
  <1>9. CASE WaitOutage(l)
    BY <1>9 DEF WaitOutage, Flow, Onward, At
  <1>10. CASE StoreHandle(l)
    <2>1. /\ loops[l].pc = "handle" /\ UNCHANGED <<task, manifest, bundle>>
          /\ \/ journal' = journal
             \/ /\ HandleUpdatable(journal[loops[l].attempt].row)
                /\ journal' = [journal EXCEPT ![loops[l].attempt].row = HandleUpdated(@)]
          /\ Goto(l, "open") \/ Goto(l, "fail")
      BY <1>10 DEF StoreHandle, At, Goto
    <2>2. loops'[l].pc \in {"open", "fail"} /\ Kept(loops[l], loops'[l])
      BY <2>1
    <2> QED
      BY <2>1, <2>2 DEF Flow
  <1> QED
    BY <1>1, <1>2, <1>3, <1>4, <1>5, <1>6, <1>7, <1>8, <1>9, <1>10

\* From the poll to the end of the publication.
LEMMA PollingFlows ==
  ASSUME TypeInv, NEW l \in Loop,
         \/ OpenPoll(l) \/ PollProgress(l) \/ PollDone(l) \/ Recheck(l) \/ KeepTransfer(l)
         \/ Process(l) \/ ImportFiles(l) \/ EndPublication(l)
  PROVE  Flow(loops[l], loops'[l])
  <1> USE Writes, Places
  <1>0. \A t \in Progressed(task) : t.cand = task.cand
    BY DEF Progressed, TypeInv, Data, TaskType
  <1>a. ASSUME NEW r \in Result, NEW s \in AfterImport(loops[l], r), r.disposition # "none"
        PROVE  s.pc \in {"finish", "failover"} /\ s.cand = loops[l].cand /\ s.result.disposition # "none"
    <2> DEFINE kept == [r EXCEPT !.disposition = "preserve"]
    <2>1. kept.disposition # "none"
      BY DEF Result
    <2> HIDE DEF kept
    <2>2. \/ s = [loops[l] EXCEPT !.pc = "failover", !.result = r]
          \/ s = [loops[l] EXCEPT !.pc = "finish", !.verdict = "failed", !.result = r]
          \/ s = [loops[l] EXCEPT !.pc = "finish", !.verdict = "completed", !.result = r]
          \/ s = [loops[l] EXCEPT !.pc = "finish", !.verdict = "failed", !.result = kept]
      BY DEF AfterImport, kept
    <2>3. loops[l] \in LoopState
      OBVIOUS
    <2> QED
      BY <1>a, <2>1, <2>2, <2>3 DEF LoopState
  <1>1. CASE OpenPoll(l)
    BY <1>1 DEF OpenPoll, Flow, Onward, At, LoopState
  <1>2. CASE PollProgress(l)
    BY <1>0, <1>2 DEF PollProgress, Flow, Onward, At, Kept
  <1>3. CASE PollDone(l)
    <2>1. CASE Done(l) /\ UNCHANGED task
      BY <1>0, <1>3, <2>1 DEF PollDone, Flow, Onward, At
    <2>2. CASE Goto(l, "fail") /\ UNCHANGED task
      BY <1>3, <2>2 DEF PollDone, Flow, Onward, At, Kept
    <2>3. CASE /\ task' \in Progressed(task)
               /\ \E whole \in BOOLEAN :
                     Become(l, [loops[l] EXCEPT !.pc = "recheck", !.whole = whole])
      <3>1. PICK whole \in BOOLEAN :
               loops'[l] = [loops[l] EXCEPT !.pc = "recheck", !.whole = whole]
        BY <2>3
      <3>2. loops'[l].pc = "recheck" /\ Kept(loops[l], loops'[l])
        BY <3>1 DEF LoopState, Kept
      <3> QED
        BY <1>0, <1>3, <2>3, <3>2 DEF PollDone, Flow, Onward, At
    <2> QED
      BY <1>3, <2>1, <2>2, <2>3 DEF PollDone
  <1>4. CASE Recheck(l)
    <2>1. CASE Done(l)
      BY <1>4, <2>1 DEF Recheck, Flow, Onward, At
    <2>2. CASE Goto(l, "process") \/ Goto(l, "keep")
      BY <1>4, <2>2 DEF Recheck, Flow, Onward, At
    <2>3. CASE \E c \in Candidate :
                  /\ c > loops[l].cand
                  /\ Become(l, [loops[l] EXCEPT !.pc = "abort", !.pick = c, !.result = FreshResult])
      BY <1>4, <2>3 DEF Recheck, Flow, Onward, At, LoopState
    <2> QED
      BY <1>4, <2>1, <2>2, <2>3 DEF Recheck
  <1>5. CASE KeepTransfer(l) \/ Process(l)
    <2>1. task'.cand = task.cand
      BY <1>5 DEF KeepTransfer, Process, TypeInv, Data, TaskType
    <2> QED
      BY <1>5, <2>1 DEF KeepTransfer, Process, Flow, Onward, At
  <1>6. CASE ImportFiles(l)
    <2>1. loops[l].pc = "import" /\ UNCHANGED <<task, journal, manifest>>
      BY <1>6 DEF ImportFiles, At
    <2>2. CASE /\ manifest # NoManifest
               /\ bundle' = [bundle EXCEPT ![manifest.cand] = "publishing"]
               /\ Become(l, [loops[l] EXCEPT !.pc = "publish", !.handle = manifest.cand])
      BY <2>1, <2>2 DEF Flow, LoopState
    <2>3. CASE /\ \E d \in {"discard", "preserve"} :
                  \E next \in AfterImport(loops[l], [disposition |-> d, bundles |-> {}]) :
                     Become(l, next)
               /\ UNCHANGED bundle
      <3>1. PICK d \in {"discard", "preserve"} :
               \E next \in AfterImport(loops[l], [disposition |-> d, bundles |-> {}]) :
                  Become(l, next)
        BY <2>3
      <3>2. [disposition |-> d, bundles |-> {}] \in Result
        BY DEF Result
      <3>3. PICK s \in AfterImport(loops[l], [disposition |-> d, bundles |-> {}]) : Become(l, s)
        BY <3>1
      <3> QED
        BY <1>a, <2>1, <2>3, <3>2, <3>3 DEF Flow, Onward
    <2>4. CASE Goto(l, "fail") /\ UNCHANGED bundle
      BY <2>1, <2>4 DEF Flow, Onward, Kept
    <2> QED
      BY <1>6, <2>2, <2>3, <2>4 DEF ImportFiles
  <1>7. CASE EndPublication(l)
    <2>1. /\ loops[l].pc = "publish" /\ UNCHANGED <<task, journal, manifest>>
          /\ bundle' = [bundle EXCEPT ![loops[l].handle] = "settled"]
          /\ loops[l].handle \in Candidate
      BY <1>7 DEF EndPublication, TypeInv, LoopsType, Holding
    <2>2. CASE Done(l)
      BY <2>1, <2>2 DEF Flow
    <2>3. CASE \E result \in Published(loops[l].handle) :
               \E next \in AfterImport(loops[l], result) : Become(l, next)
      <3>1. PICK result \in Published(loops[l].handle) :
               \E next \in AfterImport(loops[l], result) : Become(l, next)
        BY <2>3
      <3>2. result \in Result /\ result.disposition # "none"
        BY <2>1, PublishedDoes DEF Published
      <3>3. PICK s \in AfterImport(loops[l], result) : Become(l, s)
        BY <3>1
      <3> QED
        BY <1>a, <2>1, <3>2, <3>3 DEF Flow
    <2> QED
      BY <1>7, <2>2, <2>3 DEF EndPublication
  <1> QED
    BY <1>1, <1>2, <1>3, <1>4, <1>5, <1>6, <1>7

\* From the end of the import to the next candidate or to the end of the task.
LEMMA SettlingFlows ==
  ASSUME TypeInv, NEW l \in Loop,
         \/ Finish(l) \/ RemoveStaging(l) \/ Failover(l) \/ AbortTransfer(l)
         \/ ScheduleAttempt(l) \/ LinkCandidate(l) \/ Fail(l)
  PROVE  Flow(loops[l], loops'[l])
  <1> USE Writes, Places
  <1>1. CASE Finish(l)
    BY <1>1, Blanks DEF Finish, Flow, At, Off
  <1>2. CASE RemoveStaging(l)
    BY <1>2 DEF RemoveStaging, Flow, At
  <1>3. CASE Failover(l)
    <2>1. loops[l].pc = "failover" /\ UNCHANGED <<task, journal, manifest, bundle>>
      BY <1>3 DEF Failover, At
    <2>2. CASE Become(l, [loops[l] EXCEPT !.pc = "finish", !.verdict = "completed", !.result = NoResult])
      BY <2>1, <2>2 DEF Flow, Onward, LoopState
    <2>3. CASE \E verdict \in {"partial", "failed"} :
                  Become(l, [loops[l] EXCEPT !.pc = "finish", !.verdict = verdict])
      BY <2>1, <2>3 DEF Flow, Onward, LoopState
    <2>4. CASE \E c \in Candidate : /\ c > loops[l].cand
                                    /\ Become(l, [loops[l] EXCEPT !.pc = "abort", !.pick = c])
      BY <2>1, <2>4 DEF Flow, Onward, LoopState
    <2> QED
      BY <1>3, <2>2, <2>3, <2>4 DEF Failover
  <1>4. CASE AbortTransfer(l)
    BY <1>4 DEF AbortTransfer, Flow, Onward, At, Kept
  <1>5. CASE ScheduleAttempt(l)
    BY <1>5 DEF ScheduleAttempt, Flow, At
  <1>6. CASE LinkCandidate(l)
    <2>1. task'.cand = loops[l].pick
      BY <1>6 DEF LinkCandidate, TypeInv, Data, TaskType
    <2> QED
      BY <1>6, <2>1 DEF LinkCandidate, Flow, At
  <1>7. CASE Fail(l)
    BY <1>7 DEF Fail, Flow, At
  <1> QED
    BY <1>1, <1>2, <1>3, <1>4, <1>5, <1>6, <1>7

\* A step of a coroutine, whichever it is.
LEMMA LoopFlows ==
  ASSUME TypeInv, NEW l \in Loop, LoopStep(l) \/ PollProgress(l)
  PROVE  Flow(loops[l], loops'[l])
  BY HandingFlows, PollingFlows, SettlingFlows DEF LoopStep

--------------------------------------------------------------------------------
(* What a write of the journal leaves.                                      *)

Open == {"acquiring", "in_use"}
Gone == {"cleanup_pending", "complete"}

\* From j to k at most one attempt of candidate c is made; candidates and handles stay.
Extends(j, k, c) ==
  /\ Len(j) \in Nat /\ Len(k) \in {Len(j), Len(j) + 1}
  /\ \A a \in 1 .. Len(j) : k[a].cand = j[a].cand /\ k[a].bytes = j[a].bytes
  /\ Len(k) = Len(j) + 1 => k[Len(k)].cand = c /\ k[Len(k)].bytes <= c

\* No row but that of x is written, and the attempt made is x.
OnlyAt(j, k, x) ==
  /\ x \in 0 .. Len(k)
  /\ Len(k) = Len(j) + 1 => x = Len(k)
  /\ \A a \in 1 .. Len(j) : a # x => k[a].row = j[a].row

\* The states that the store's operations leave.
LEMMA StatesLeft ==
  /\ Created.state = "acquiring" /\ HandleUpdated(Created).state = "in_use"
  /\ \A r \in Row :
       /\ HandleUpdated(r).state = "in_use" /\ Reacquired(r).state = "in_use"
       /\ Completed(r).state = "complete"
       /\ \A bs : /\ Scheduled(r, "discard", bs).state = "cleanup_pending"
                  /\ Scheduled(r, "preserve", bs).state = "preserved"
  <1>1. Created \in Row /\ Created.state = "acquiring"
    BY RowOps DEF Created, Absent
  <1>2. ASSUME NEW r \in Row
        PROVE  /\ HandleUpdated(r).state = "in_use" /\ Reacquired(r).state = "in_use"
               /\ Completed(r).state = "complete"
               /\ \A bs : /\ Scheduled(r, "discard", bs).state = "cleanup_pending"
                          /\ Scheduled(r, "preserve", bs).state = "preserved"
    <2>1. Released(r) \in Row
      BY DEF Row, Released
    <2> DEFINE x == Released(r)
    <2> HIDE DEF x
    <2>2. x \in Row
      BY <2>1 DEF x
    <2>3. /\ [x EXCEPT !.state = "in_use", !.due = TRUE, !.error = "none"].state = "in_use"
          /\ [x EXCEPT !.state = "complete", !.error = "none"].state = "complete"
          /\ \A bs, s : [x EXCEPT !.state = s, !.bundles = bs, !.due = TRUE, !.error = "none"].state = s
      BY <2>2 DEF Row
    <2>4. HandleUpdated(r).state = "in_use"
      BY DEF HandleUpdated, Row
    <2> QED
      BY <2>3, <2>4 DEF x, Reacquired, Completed, Scheduled
  <1> QED
    BY <1>1, <1>2

\* The number above all others of a set is its largest.
LEMMA MaxIsTop ==
  ASSUME NEW S \in SUBSET Nat, NEW n \in S, \A x \in S : x <= n
  PROVE  Max(S) = n
  <1>1. \A m \in S : (\A y \in S : m >= y) => m = n
    OBVIOUS
  <1>2. \A y \in S : n >= y
    OBVIOUS
  <1>3. Max(S) \in S /\ \A y \in S : Max(S) >= y
    BY <1>2 DEF Max
  <1> QED
    BY <1>1, <1>3

\* A journal as long as before.
LEMMA SameLength ==
  ASSUME NEW j, NEW k, NEW c, Len(j) \in Nat, Len(k) = Len(j),
         \A a \in 1 .. Len(j) : k[a].cand = j[a].cand /\ k[a].bytes = j[a].bytes
  PROVE  Extends(j, k, c)
  BY DEF Extends

\* One attempt is another, or none.
LEMMA OneWritten ==
  ASSUME NEW j, NEW k, NEW c, Len(j) \in Nat, Len(k) = Len(j), NEW a \in 1 .. Len(j),
         k[a].cand = j[a].cand, k[a].bytes = j[a].bytes,
         \A b \in 1 .. Len(j) : b # a => k[b] = j[b]
  PROVE  Extends(j, k, c) /\ OnlyAt(j, k, a)
  <1>1. \A b \in 1 .. Len(j) : k[b].cand = j[b].cand /\ k[b].bytes = j[b].bytes
    OBVIOUS
  <1>2. Extends(j, k, c)
    BY <1>1 DEF Extends
  <1>3. OnlyAt(j, k, a)
    BY DEF OnlyAt
  <1> QED
    BY <1>2, <1>3

\* Writing the row of one attempt, and making one.
LEMMA RowLeft ==
  ASSUME NEW j \in Seq(Entry), NEW a \in DOMAIN j, NEW r \in Row, NEW c
  PROVE  /\ Extends(j, [j EXCEPT ![a].row = r], c) /\ OnlyAt(j, [j EXCEPT ![a].row = r], a)
         /\ Len([j EXCEPT ![a].row = r]) = Len(j) /\ [j EXCEPT ![a].row = r][a].row = r
         /\ [j EXCEPT ![a].row = r] \in Seq(Entry)
  <1> DEFINE e == [j[a] EXCEPT !.row = r]
  <1>1. j[a] \in Entry /\ Len(j) \in Nat /\ DOMAIN j = 1 .. Len(j)
    OBVIOUS
  <1>2. e.cand = j[a].cand /\ e.bytes = j[a].bytes /\ e.row = r
    BY <1>1 DEF Entry
  <1>3. PICK k : k = [j EXCEPT ![a] = e] /\ k = [j EXCEPT ![a].row = r]
    OBVIOUS
  <1>4. k \in Seq(Entry)
    BY <1>3, RowWritten
  <1> HIDE DEF e
  <1>5. Len(k) = Len(j) /\ k[a] = e /\ \A b \in 1 .. Len(j) : b # a => k[b] = j[b]
    BY <1>1, <1>3
  <1>6. a \in 1 .. Len(j) /\ k[a].cand = j[a].cand /\ k[a].bytes = j[a].bytes /\ k[a].row = r
    BY <1>1, <1>2, <1>5
  <1>7. Extends(j, k, c) /\ OnlyAt(j, k, a)
    BY <1>1, <1>5, <1>6, OneWritten, Zenon
  <1> QED
    BY <1>3, <1>4, <1>5, <1>6, <1>7, Zenon

LEMMA InsertLeft ==
  ASSUME NEW j \in Seq(Entry), NEW c \in Candidate, NEW b \in Candidate, b <= c, NEW r \in Row,
         NEW k, k = Inserted(j, c, b, r)
  PROVE  /\ Extends(j, k, c) /\ OnlyAt(j, k, Len(j) + 1) /\ Len(k) = Len(j) + 1
         /\ k[Len(j) + 1].cand = c /\ k[Len(j) + 1].bytes = b /\ k[Len(j) + 1].row = r
  <1>1. Len(j) \in Nat /\ Len(k) = Len(j) + 1
    BY DEF Inserted, Entry
  <1>2. /\ k[Len(j) + 1] = [cand |-> c, bytes |-> b, row |-> r]
        /\ \A a \in 1 .. Len(j) : k[a] = j[a]
    BY DEF Inserted, Entry
  <1>3. k[Len(j) + 1].cand = c /\ k[Len(j) + 1].bytes = b /\ k[Len(j) + 1].row = r
    BY <1>2
  <1> QED
    BY <1>1, <1>2, <1>3 DEF Extends, OnlyAt

\* A schedule UPDATE closes its attempt, and preserving discards none.
LEMMA ScheduleLeft ==
  ASSUME NEW j \in Seq(Entry), NEW a \in DOMAIN j, NEW d \in {"discard", "preserve"},
         NEW bs \in SUBSET Bundle, NEW c, NEW k, k = ScheduledIn(j, a, d, bs)
  PROVE  /\ Extends(j, k, c) /\ OnlyAt(j, k, a) /\ Len(k) = Len(j) /\ k \in Seq(Entry)
         /\ k[a].row.state \notin Open
         /\ d = "preserve" /\ k[a].row.state \in Gone => j[a].row.state \in Gone
  <1>1. j[a] \in Entry /\ Len(j) \in Nat /\ a \in 1 .. Len(j) /\ a # 0
    OBVIOUS
  <1>2. j[a].row \in Row
    BY <1>1 DEF Entry
  <1> DEFINE r == Scheduled(j[a].row, d, bs)
  <1>3. r \in Row /\ r.state = IF d = "discard" THEN "cleanup_pending" ELSE "preserved"
    <2>1. r \in Row
      BY <1>2, RowOps
    <2>2. CASE d = "discard"
      BY <1>2, <2>1, <2>2, StatesLeft
    <2>3. CASE d = "preserve"
      BY <1>2, <2>1, <2>3, StatesLeft
    <2> QED
      BY <2>2, <2>3
  <1>4. CASE Schedulable(j[a].row)
    <2>1. k = [j EXCEPT ![a].row = r]
      BY <1>1, <1>4 DEF ScheduledIn, Entry
    <2> HIDE DEF r
    <2>2. /\ Extends(j, [j EXCEPT ![a].row = r], c) /\ OnlyAt(j, [j EXCEPT ![a].row = r], a)
          /\ Len([j EXCEPT ![a].row = r]) = Len(j) /\ [j EXCEPT ![a].row = r][a].row = r
          /\ [j EXCEPT ![a].row = r] \in Seq(Entry)
      BY <1>3, RowLeft
    <2>3. /\ Extends(j, k, c) /\ OnlyAt(j, k, a) /\ Len(k) = Len(j) /\ k[a].row = r
          /\ k \in Seq(Entry)
      BY <2>1, <2>2, Zenon
    <2> QED
      BY <1>3, <2>3 DEF Open, Gone
  <1>5. CASE ~Schedulable(j[a].row)
    <2>1. k = j
      BY <1>1, <1>5 DEF ScheduledIn
    <2>2. j[a].row.state \notin Open
      BY <1>5 DEF Schedulable, Open
    <2> QED
      BY <1>1, <2>1, <2>2 DEF Extends, OnlyAt
  <1> QED
    BY <1>4, <1>5

\* The attempt that a scheduling picks for candidate c, or makes.
Target(c, x) ==
  \/ x = manifest.attempt /\ manifest.attempt # 0
  \/ x = LatestOf(Live)
  \/ x = Len(journal) + 1 /\ Live = {}
  \/ x = LatestOf(OfCandidate(c))

\* What closing an attempt of candidate c leaves: it is the one picked.
Closed(c, x) ==
  /\ Extends(journal, journal', c) /\ OnlyAt(journal, journal', x)
  /\ Target(c, x) /\ (x # 0 => journal'[x].row.state \notin Open)

\* The attempt that the manifest stands for is closed.
LEMMA ManifestClosed ==
  ASSUME TypeInv, NEW c \in Candidate, manifest # NoManifest, manifest.cand <= c,
         NEW d \in {"discard", "preserve"}, NEW bs \in SUBSET Bundle,
         journal' = ScheduledIn(Adopted(c), ManifestAttempt, d, bs)
  PROVE  \E x \in Nat : Closed(c, x)
  <1>1. JournalType /\ ManifestType /\ journal \in Seq(Entry) /\ Len(journal) \in Nat
    BY DEF TypeInv, Data, JournalType
  <1>2. /\ Adopted(c) \in Seq(Entry) /\ ManifestAttempt \in DOMAIN Adopted(c)
        /\ DOMAIN Adopted(c) = 1 .. Len(Adopted(c))
    BY <1>1, AdoptedDoes
  <1> DEFINE j == Adopted(c)
             x == ManifestAttempt
             k == journal'
  <1> HIDE DEF j, x
  <1>3. /\ Extends(j, k, c) /\ OnlyAt(j, k, x) /\ Len(k) = Len(j)
        /\ k[x].row.state \notin Open
    <2>1. k = ScheduledIn(j, x, d, bs)
      BY DEF j, x
    <2>2. j \in Seq(Entry) /\ x \in DOMAIN j
      BY <1>2 DEF j, x
    <2> QED
      BY <2>1, <2>2, ScheduleLeft
  <1>4. CASE x > Len(journal)
    <2>1. j = Inserted(journal, c, manifest.cand, HandleUpdated(Created))
      BY <1>4 DEF Adopted, j, x
    <2>2. manifest.attempt = 0 /\ Live = {} /\ x = Len(journal) + 1
      BY <1>1, <1>4, Lookups DEF ManifestAttempt, ManifestType, x
    <2>3. manifest.cand \in Candidate
      BY <1>1 DEF ManifestType, NoManifest
    <2>4. /\ Extends(journal, j, c) /\ OnlyAt(journal, j, Len(journal) + 1)
          /\ Len(j) = Len(journal) + 1
      <3>1. HandleUpdated(Created) \in Row
        BY RowOps
      <3> QED
        BY <1>1, <2>1, <2>3, <3>1, InsertLeft
    <2>5. Extends(journal, k, c) /\ OnlyAt(journal, k, x)
      BY <1>3, <2>2, <2>4 DEF Extends, OnlyAt
    <2> QED
      BY <1>1, <1>3, <2>2, <2>5 DEF Closed, Target
  <1>5. CASE ~(x > Len(journal))
    <2>1. j = journal
      BY <1>5 DEF Adopted, j, x
    <2>2. x \in Nat /\ Target(c, x)
      BY <1>1, <1>2, <1>5, Lookups DEF Target, ManifestAttempt, LatestOf, x
    <2> QED
      BY <1>3, <2>1, <2>2 DEF Closed
  <1> QED
    BY <1>4, <1>5

\* An attempt of the journal is closed, if there is one.
LEMMA LookupClosed ==
  ASSUME TypeInv, NEW c \in Candidate, NEW a, a = LatestOf(Live) \/ a = LatestOf(OfCandidate(c)),
         NEW d \in {"discard", "preserve"}, NEW bs \in SUBSET Bundle,
         journal' = ScheduledIn(journal, a, d, bs)
  PROVE  \E x \in Nat : Closed(c, x)
  <1>1. JournalType /\ journal \in Seq(Entry) /\ Len(journal) \in Nat
    BY DEF TypeInv, Data, JournalType
  <1>2. a \in {0} \union DOMAIN journal /\ DOMAIN journal = 1 .. Len(journal)
    BY <1>1, Lookups
  <1>3. CASE a = 0
    <2>1. journal' = journal
      BY <1>3 DEF ScheduledIn
    <2> QED
      BY <1>1, <1>3, <2>1 DEF Closed, Target, Extends, OnlyAt
  <1>4. CASE a # 0
    <2>1. /\ Extends(journal, journal', c) /\ OnlyAt(journal, journal', a)
          /\ journal'[a].row.state \notin Open
      BY <1>1, <1>2, <1>4, ScheduleLeft
    <2> QED
      BY <1>1, <1>2, <2>1 DEF Closed, Target
  <1> QED
    BY <1>3, <1>4

\* Scheduling the cleanup, finalizing and failing close an attempt.
LEMMA SettlingCloses ==
  ASSUME TypeInv, NEW c \in Candidate, manifest.cand <= c
  PROVE  /\ \A r \in Result : ScheduleCleanup(c, r) /\ r.disposition # "none"
              => \E x \in Nat : Closed(c, x)
         /\ \A v : \A r \in Result : Finalize(c, v, r) /\ r.disposition # "none"
              => \E x \in Nat : Closed(c, x)
         /\ FailPreserving => \E x \in Nat : Closed(c, x)
  <1>1. ASSUME NEW r \in Result, ScheduleCleanup(c, r), r.disposition # "none"
        PROVE  \E x \in Nat : Closed(c, x)
    <2>1. r.disposition \in {"discard", "preserve"} /\ r.bundles \in SUBSET Bundle
      BY <1>1 DEF Result
    <2>2. CASE manifest # NoManifest
      BY <1>1, <2>1, <2>2, ManifestClosed DEF ScheduleCleanup
    <2>3. CASE manifest = NoManifest
      <3>1. PICK a : /\ a = LatestOf(Live) \/ a = LatestOf(OfCandidate(c))
                     /\ journal' = ScheduledIn(journal, a, r.disposition, r.bundles)
        BY <1>1, <2>3 DEF ScheduleCleanup, LatestOf
      <3> QED
        BY <2>1, <3>1, LookupClosed
    <2> QED
      BY <2>2, <2>3
  <1>2. ASSUME NEW v, NEW r \in Result, Finalize(c, v, r), r.disposition # "none"
        PROVE  \E x \in Nat : Closed(c, x)
    <2>1. r.disposition \in {"discard", "preserve"} /\ r.bundles \in SUBSET Bundle
      BY <1>2 DEF Result
    <2>2. CASE manifest # NoManifest
      BY <1>2, <2>1, <2>2, ManifestClosed DEF Finalize
    <2>3. CASE manifest = NoManifest
      <3>1. journal' = ScheduledIn(journal, LatestOf(OfCandidate(c)), r.disposition, r.bundles)
        BY <1>2, <2>3 DEF Finalize
      <3> QED
        BY <2>1, <3>1, LookupClosed
    <2> QED
      BY <2>2, <2>3
  <1>3. ASSUME FailPreserving PROVE \E x \in Nat : Closed(c, x)
    <2>1. journal' = ScheduledIn(journal, LatestOf(Live), "preserve", {})
      BY <1>3 DEF FailPreserving
    <2> QED
      BY <2>1, LookupClosed
  <1> QED
    BY <1>1, <1>2, <1>3

--------------------------------------------------------------------------------
(* Where a cancellation finds every coroutine, or there is none.            *)

NoCancel == op["cancel"].pc = "idle"

\* Nobody cancels where the calls are used up.
LEMMA NoCancelHolds ==
  ASSUME MaxCancels = 0
  PROVE  Spec => []NoCancel
  <1>1. Init => NoCancel
    BY Blanks DEF Init, NoCancel, Handler
  <1>2. ASSUME TypeInv, NoCancel, [Next]_vars PROVE NoCancel'
    <2> USE DEF NoCancel
    <2>1. Step /\ budget.cancels = 0
      BY <1>2, StepTypes DEF TypeInv, Data, BudgetType
    <2>2. ~CancelMoved
      BY <1>2, <2>1 DEF CancelMoved, CancelTask, CancelLocked, OpAt
    <2>3. CASE \E l \in Loop : Moved(l)
      BY <1>2, <2>3 DEF Moved, Surroundings
    <2>4. CASE NextMoved \/ ReimportMoved \/ ReapMoved
      BY <1>2, <2>4 DEF NextMoved, ReimportMoved, ReapMoved, OthersWait, Handler
    <2>5. CASE Quiet \/ Rebuilt
      BY <1>2, <2>5 DEF Quiet, Rebuilt
    <2>6. CASE Crashed
      BY <2>6, Blanks DEF Crashed, Handler
    <2> QED
      BY <2>1, <2>2, <2>3, <2>4, <2>5, <2>6 DEF Step
  <1> QED
    BY <1>1, <1>2, TypesHold, PTL DEF Spec

\* The one instance has a handle of every coroutine, and its one lock is held in turn.
StopInv ==
  /\ \A l \in Loop : Alive(l) => active = l
  /\ op["cancel"].pc \in {"bundles", "write", "sweep"} => lock[1] = "cancel"
  /\ op["reimport"].pc # "idle" => lock[1] = "reimport"
  /\ op["cancel"].pc = "wait" => \A l \in Loop : Alive(l) => loops[l].killed
  /\ op["cancel"].pc \in {"bundles", "write"} => NobodyAlive

\* Every step keeps that.
LEMMA StepStops ==
  ASSUME MaxRebuilds = 0, TypeInv, LoopsInv, NoSwitch, StopInv, [Next]_vars, NoSwitch'
  PROVE  StopInv'
  <1>0. Step
    BY StepTypes
  <1>a. OneInstance /\ (\A h \in Handler : op[h].at = 1) /\ lock \in [{1} -> Handler \union {"free"}]
    BY OneInstanceHolds DEF OneInstance, TypeInv, InstanceType
  <1>1. ASSUME NEW l \in Loop, Moved(l) PROVE StopInv'
    <2>1. /\ Alive(l) /\ \A m \in Loop \ {l} : loops'[m] = loops[m] /\ ~Alive(m) /\ ~Alive(m)'
          /\ active' = active \/ ~Alive(l)'
          /\ (loops[l].killed => ~Alive(l)') /\ op' = op /\ lock' = lock
      BY <1>1 DEF Moved, LoopsInv, OneLoop, Alive, Surroundings
    <2>2. \A m \in Loop : Alive(m)' => active' = m
      BY <2>1 DEF StopInv
    <2>3. /\ op'["cancel"].pc = "wait" => \A m \in Loop : Alive(m)' => loops'[m].killed
          /\ op'["cancel"].pc \in {"bundles", "write"} => NobodyAlive'
      BY <2>1 DEF StopInv, NobodyAlive
    <2> QED
      BY <2>1, <2>2, <2>3 DEF StopInv
  <1>2. CASE CancelMoved
    <2>1. op'["reimport"] = op["reimport"]
      BY <1>2 DEF CancelMoved, OthersWait, Handler
    <2>2. CASE CancelTask /\ op'["cancel"].pc = "wait" /\ UNCHANGED <<task, lock>>
      <3>1. Own \in SUBSET Loop /\ Stop(Own) /\ Grown(journal, journal')
        BY <1>2, <2>2 DEF CancelTask, Own, TypeInv, LoopsType, CancelMoved
      <3>2. \A l \in Loop : Alive(l) => l \in Own
        BY LoopAssumption DEF StopInv, Own
      <3>3. \A l \in Loop : Alive(l)' => Alive(l) /\ loops'[l].killed
        BY <3>1, <3>2, StoppedLoops
      <3>4. \A l \in Loop : Alive(l)' => active' = l
        BY <3>1, <3>3 DEF StopInv, Stop, Alive
      <3> QED
        BY <2>1, <2>2, <3>3, <3>4 DEF StopInv
    <2> DEFINE Same == UNCHANGED <<loops, active>>
    <2>3. CASE Same /\ CancelLocked /\ op'["cancel"].pc = "bundles"
      <3>1. lock[1] = "free" /\ lock'[1] = "cancel" /\ op["cancel"].pc = "wait"
        BY <1>a, <2>3 DEF CancelLocked, Free, OpAt, Handler
      <3>2. NobodyAlive'
        BY <2>3, <3>1 DEF StopInv, CancelLocked, NobodyAlive, Alive
      <3>3. op["reimport"].pc = "idle"
        BY <3>1 DEF StopInv
      <3> QED
        BY <2>1, <2>3, <3>1, <3>2, <3>3 DEF StopInv, NobodyAlive
    <2>4. CASE /\ Same /\ op["cancel"].pc \in {"bundles", "write"}
               /\ op'["cancel"].pc \in {"write", "sweep"} /\ UNCHANGED lock
      BY <2>1, <2>4 DEF StopInv, NobodyAlive, Alive
    <2>5. CASE /\ Same /\ op["cancel"].pc = "sweep" /\ op'["cancel"].pc = "idle"
      <3>1. op["reimport"].pc = "idle"
        BY <2>5 DEF StopInv
      <3> QED
        BY <2>1, <2>5, <3>1 DEF StopInv, NobodyAlive, Alive
    <2> QED
      BY <1>2, <2>2, <2>3, <2>4, <2>5 DEF CancelMoved
  <1>3. CASE ReimportMoved
    <2>1. op'["cancel"] = op["cancel"] /\ UNCHANGED <<loops, active>>
      BY <1>3 DEF ReimportMoved, OthersWait, Handler
    <2>2. op'["reimport"].pc # "idle" => lock'[1] = "reimport" /\ op["cancel"].pc \notin {"bundles", "write", "sweep"}
      BY <1>3, <1>a DEF ReimportMoved, StopInv, Free, OneInstance
    <2>3. op'["cancel"].pc \in {"bundles", "write", "sweep"} => lock'[1] = "cancel"
      <3>1. op["cancel"].pc \in {"bundles", "write", "sweep"} => lock[1] = "cancel"
        BY DEF StopInv
      <3>2. op["reimport"].pc # "idle" => lock[1] = "reimport"
        BY DEF StopInv
      <3>3. op["reimport"].pc = "idle" => lock[1] = "free"
        BY <1>3, <1>a DEF ReimportMoved, Free, OneInstance
      <3> QED
        BY <2>1, <3>1, <3>2, <3>3
    <2> QED
      BY <2>1, <2>2, <2>3 DEF StopInv, NobodyAlive, Alive
  <1>4. CASE ReapMoved
    <2>1. op'["reimport"] = op["reimport"] /\ op'["cancel"] = op["cancel"] /\ UNCHANGED <<loops, active, lock>>
      BY <1>4 DEF ReapMoved, OthersWait, Handler
    <2> QED
      BY <2>1 DEF StopInv, NobodyAlive, Alive
  <1>5. CASE Quiet
    BY <1>5 DEF Quiet, StopInv, NobodyAlive, Alive
  <1>6. ~Rebuilt
    BY <1>a DEF Rebuilt, OneInstance
  <1>7. CASE Crashed
    <2>1. op'["reimport"].pc = "idle" /\ op'["cancel"].pc = "idle"
      BY <1>7, Blanks DEF Crashed, Handler
    <2>2. ASSUME NEW l \in Loop, NEW via \in {"run", "resume"}, active' = l,
                 loops' = [[m \in Loop |-> Off] EXCEPT ![l] = Dispatched(via)]
          PROVE  StopInv'
      <3>1. \A m \in Loop : Alive(m)' => m = l
        BY <2>2, Blanks DEF Alive
      <3> QED
        BY <2>1, <2>2, <3>1 DEF StopInv
    <2>3. CASE loops' = [l \in Loop |-> Off]
      BY <2>1, <2>3, Blanks DEF StopInv, Alive
    <2> QED
      BY <1>7, <2>2, <2>3 DEF Crashed
  <1>8. ~NextMoved
    BY DEF NextMoved, NoSwitch
  <1> QED
    BY <1>0, <1>1, <1>2, <1>3, <1>4, <1>5, <1>6, <1>7, <1>8 DEF Step

\* A cancellation that reads the barriers or writes is alone with the task.
CancelAlone ==
  op["cancel"].pc \in {"bundles", "write"} => NobodyAlive /\ op["reimport"].pc = "idle"
Stoppable == MaxCancels = 0 \/ MaxRebuilds = 0

\* It is where no settings save hides a coroutine, or nobody cancels.
LEMMA AloneHolds ==
  ASSUME Unswitched, Stoppable
  PROVE  Spec => []CancelAlone
  <1>1. CASE MaxCancels = 0
    <2>1. Spec => []NoCancel
      BY <1>1, NoCancelHolds
    <2>2. NoCancel => CancelAlone
      BY DEF NoCancel, CancelAlone
    <2> QED
      BY <2>1, <2>2, PTL
  <1>2. CASE MaxRebuilds = 0
    <2>1. Init => StopInv
      <3> SUFFICES ASSUME Init PROVE StopInv
        OBVIOUS
      <3>1. PICK l \in Loop : /\ loops = [m \in Loop |-> IF m = l THEN Dispatched("run") ELSE Off]
                              /\ active = l
        BY DEF Init
      <3>2. op["reimport"].pc = "idle" /\ op["cancel"].pc = "idle"
        BY Blanks DEF Init, Handler
      <3>3. \A m \in Loop : Alive(m) => m = l
        BY <3>1, Blanks DEF Alive
      <3> QED
        BY <3>1, <3>2, <3>3 DEF StopInv
    <2>2. TypeInv /\ LoopsInv /\ NoSwitch /\ StopInv /\ [Next]_vars /\ NoSwitch' => StopInv'
      BY <1>2, StepStops
    <2>3. StopInv => CancelAlone
      BY DEF StopInv, CancelAlone
    <2>4. Spec => []NoSwitch
      BY NoSwitchHolds
    <2> QED
      BY <2>1, <2>2, <2>3, <2>4, TypesHold, LoopsHold, PTL DEF Spec
  <1> QED
    BY <1>1, <1>2 DEF Stoppable

--------------------------------------------------------------------------------
(* The steps of the others, where nobody switches and nothing crashes.      *)

Newest == Len(journal)

\* Attempts, their candidates and the manifest are in the order of the candidates, and the
\* attempt made last for the task's candidate is the newest.
Ordered ==
  /\ \A a \in 1 .. Newest : journal[a].bytes <= journal[a].cand /\ journal[a].cand <= task.cand
  /\ \A a, b \in 1 .. Newest : a <= b => journal[a].cand <= journal[b].cand
  /\ manifest.cand <= task.cand
  /\ Source = "usenet" => manifest = NoManifest \/ manifest.attempt # 0

\* What a step of another leaves of a coroutine.
Left(l) ==
  \/ loops'[l] = loops[l]
  \/ loops[l].pc # "publish" /\ loops'[l].pc = "off"
  \/ /\ loops[l].pc = "publish" /\ loops'[l].pc = "publish"
     /\ loops'[l].handle = loops[l].handle /\ loops'[l].cand = loops[l].cand

\* A step that neither writes the journal nor starts or ends a publication.
Still ==
  /\ UNCHANGED <<journal, bundle>> /\ manifest' \in {manifest, NoManifest}
  /\ task'.cand = task.cand /\ task'.status = task.status
  /\ op["cancel"].pc = "write" => op'["cancel"].pc = "write"
  /\ \/ op'["reimport"] = op["reimport"]
     \/ op["reimport"].pc = "sweep" /\ op'["reimport"].pc = "idle"

Deed ==
  \/ CancelReadsBundles \/ CancelWrites
  \/ Reimport \/ ReimportProcesses \/ ReimportImports \/ ReimportPublishes
  \/ ReimportPreserves \/ ReimportFinishes
  \/ ReapFails
  \/ \E a \in DOMAIN journal : CleanUp(a)

\* Every step is one of a coroutine or one of these.
LEMMA Deeds ==
  ASSUME MaxCrashes = 0, TypeInv, NoSwitch, [Next]_vars, NoSwitch'
  PROVE  \/ \E l \in Loop : LoopStep(l) \/ PollProgress(l)
         \/ (Still \/ Deed) /\ \A l \in Loop : Left(l)
  <1> USE FourHandlers
  <1>1. CASE UNCHANGED vars
    BY <1>1 DEF vars, Still, Left
  <1>2. CASE CancelTask
    <2>1. op'["reimport"] = op["reimport"] /\ op["cancel"].pc = "idle"
      BY <1>2, CancelMoves DEF CancelTask, CancelMoved, OthersWait, OpAt
    <2>2. Own \in SUBSET Loop /\ Stop(Own) /\ Grown(journal, journal')
      BY <1>2, CancelMoves DEF CancelTask, Own, TypeInv, LoopsType, CancelMoved
    <2>a. ASSUME NEW l \in Loop, loops[l].pc = "publish" PROVE loops'[l].pc = "publish"
      <3>1. loops[l] \in LoopState
        BY DEF TypeInv, LoopsType
      <3>2. [loops[l] EXCEPT !.killed = TRUE].pc = "publish"
        BY <2>a, <3>1 DEF LoopState
      <3>3. loops'[l] \in {loops[l], [loops[l] EXCEPT !.killed = TRUE]}
        BY <2>2, <2>a DEF Stop, Killed
      <3> QED
        BY <2>a, <3>2, <3>3
    <2>3. \A l \in Loop : Left(l)
      BY <2>2, <2>a, Stopped, Blanks DEF Left
    <2> QED
      BY <1>2, <2>1, <2>3 DEF CancelTask, Still
  <1>3. CASE CancelLocked
    <2>1. op'["reimport"] = op["reimport"] /\ op["cancel"].pc = "wait"
      BY <1>3, CancelMoves DEF CancelLocked, CancelMoved, OthersWait, OpAt
    <2> QED
      BY <1>3, <2>1 DEF CancelLocked, Still, Left
  <1>4. CASE HandlerSweeps("cancel")
    <2>1. op'["reimport"] = op["reimport"] /\ op["cancel"].pc = "sweep"
      BY <1>4, CancelMoves DEF HandlerSweeps, CancelMoved, OthersWait, OpAt
    <2> QED
      BY <1>4, <2>1 DEF HandlerSweeps, Still, Left
  <1>5. CASE HandlerSweeps("reimport")
    <2>1. /\ op'["cancel"] = op["cancel"] /\ op["reimport"].pc = "sweep"
          /\ op'["reimport"].pc = "idle"
      BY <1>5, ReimportMoves, Blanks DEF HandlerSweeps, ReimportMoved, OthersWait, OpAt, Return
    <2> QED
      BY <1>5, <2>1 DEF HandlerSweeps, Still, Left
  <1>6. CASE "reap" \in Handlers /\ ReapJudges
    <2>1. op'["cancel"] = op["cancel"] /\ op'["reimport"] = op["reimport"]
      BY <1>6, ReapMoves DEF ReapMoved, OthersWait
    <2> QED
      BY <1>6, <2>1 DEF ReapJudges, Still, Left
  <1>7. CASE Idling
    <2>1. Quiet
      BY <1>7, QuietMoves
    <2> QED
      BY <1>7, <2>1 DEF Quiet, Idling, Still, Left
  <1>8. CASE RebuildOrchestrator
    BY <1>8 DEF RebuildOrchestrator, Still, Left
  <1>9. CASE Deed
    <2>1. UNCHANGED loops
      BY <1>9 DEF Deed, CancelReadsBundles, CancelWrites, Reimport, ReimportProcesses,
         ReimportImports, ReimportPublishes, ReimportPreserves, ReimportFinishes, ReapFails, CleanUp
    <2> QED
      BY <1>9, <2>1 DEF Left
  <1>10. ~Crash
    BY DEF Crash, TypeInv, Data, BudgetType
  <1>11. ~(\/ NextSource \/ NextStopsLoop \/ NextChecks \/ NextSchedules \/ NextLinks
           \/ NextDispatches)
    BY NextMoves DEF NextMoved, NoSwitch
  <1> QED
    BY <1>1, <1>2, <1>3, <1>4, <1>5, <1>6, <1>7, <1>8, <1>9, <1>10, <1>11
       DEF Next, HandlerStep, Deed

\* What reading the barriers leaves: the attempt that the manifest stands for exists.
LEMMA AdoptLeft ==
  ASSUME TypeInv, Ordered, CancelReadsBundles
  PROVE  /\ Extends(journal, journal', task.cand)
         /\ \/ journal' = journal
            \/ /\ Live = {} /\ Len(journal') = Newest + 1
               /\ OnlyAt(journal, journal', Newest + 1)
               /\ journal'[Newest + 1].row.state = "in_use"
               /\ journal'[Newest + 1].cand = task.cand
  <1>1. JournalType /\ ManifestType /\ Newest \in Nat /\ task.cand \in Candidate
        /\ journal \in Seq(Entry)
    BY DEF TypeInv, Data, JournalType, TaskType, Newest
  <1>2. CASE journal' = journal
    BY <1>1, <1>2 DEF Extends, Newest
  <1>3. CASE manifest # NoManifest /\ ManifestAttempt > Newest
    <2>1. journal' = Inserted(journal, task.cand, manifest.cand, HandleUpdated(Created))
      BY <1>3 DEF CancelReadsBundles, Adopted, Newest
    <2>2. Live = {}
      BY <1>1, <1>3, Lookups DEF ManifestAttempt, ManifestType, Newest
    <2>3. /\ manifest.cand \in Candidate /\ manifest.cand <= task.cand
          /\ HandleUpdated(Created) \in Row /\ HandleUpdated(Created).state = "in_use"
      BY <1>1, <1>3, RowOps, StatesLeft DEF ManifestType, NoManifest, Ordered
    <2>4. /\ Extends(journal, journal', task.cand) /\ OnlyAt(journal, journal', Newest + 1)
          /\ Len(journal') = Newest + 1
          /\ journal'[Newest + 1].cand = task.cand
          /\ journal'[Newest + 1].row = HandleUpdated(Created)
      BY <1>1, <2>1, <2>3, InsertLeft DEF Newest
    <2> QED
      BY <2>2, <2>3, <2>4
  <1> QED
    BY <1>2, <1>3 DEF CancelReadsBundles, Adopted, Newest

\* What a cancellation leaves: no attempt is open.
LEMMA CancelLeft ==
  ASSUME TypeInv, CancelWrites
  PROVE  /\ Extends(journal, journal', task.cand) /\ Len(journal') = Newest
         /\ \A a \in 1 .. Newest : journal'[a].row.state \notin Open
  <1>1. JournalType /\ Newest \in Nat /\ DOMAIN journal = 1 .. Newest
    BY DEF TypeInv, Data, JournalType, Newest
  <1>2. PICK d \in {"discard", "preserve"} :
          journal' = [a \in DOMAIN journal |->
                        IF Schedulable(journal[a].row)
                        THEN [journal[a] EXCEPT !.row = Scheduled(@, d,
                                IF d = "discard" THEN op["cancel"].bundles ELSE {})]
                        ELSE journal[a]]
    BY DEF CancelWrites
  <1> DEFINE bs == IF d = "discard" THEN op["cancel"].bundles ELSE {}
  <1>3. DOMAIN journal' = 1 .. Newest /\ Len(journal') = Newest
    <2>1. bs \in SUBSET Bundle
      BY FourHandlers DEF OpState
    <2>2. JournalType'
      BY <1>1, <1>2, <2>1, ScheduledAll
    <2>3. DOMAIN journal' = 1 .. Newest
      BY <1>1, <1>2
    <2> QED
      BY <1>1, <2>2, <2>3 DEF JournalType
  <1>4. ASSUME NEW a \in 1 .. Newest
        PROVE  /\ journal'[a].cand = journal[a].cand /\ journal'[a].bytes = journal[a].bytes
               /\ journal'[a].row.state \notin Open
    <2>1. journal[a] \in Entry /\ journal[a].row \in Row
      <3>1. journal[a] \in Entry
        BY <1>1 DEF JournalType
      <3> QED
        BY <3>1 DEF Entry
    <2>2. CASE Schedulable(journal[a].row)
      <3> DEFINE r == Scheduled(journal[a].row, d, bs)
      <3>1. r.state \in {"cleanup_pending", "preserved"}
        BY <2>1, StatesLeft
      <3> HIDE DEF r
      <3>2. journal'[a] = [journal[a] EXCEPT !.row = r]
        BY <1>1, <1>2, <2>1, <2>2 DEF r, Entry
      <3> QED
        BY <2>1, <3>1, <3>2 DEF Entry, Open
    <2>3. CASE ~Schedulable(journal[a].row)
      BY <1>1, <1>2, <2>3 DEF Schedulable, Open
    <2> QED
      BY <2>2, <2>3
  <1> QED
    BY <1>1, <1>3, <1>4, SameLength DEF Newest

\* The attempt made last for the task's candidate is the newest.
LEMMA LastIsNewest ==
  ASSUME TypeInv, Ordered
  PROVE  /\ OfCandidate(task.cand) = {} => \A a \in 1 .. Newest : journal[a].cand # task.cand
         /\ OfCandidate(task.cand) # {}
              => /\ Newest # 0 /\ journal[Newest].cand = task.cand
                 /\ LatestOf(OfCandidate(task.cand)) = Newest
  <1>1. /\ Newest \in Nat /\ DOMAIN journal = 1 .. Newest /\ task.cand \in Nat
        /\ \A a \in 1 .. Newest : journal[a].cand \in Nat
    <2>1. /\ Newest \in Nat /\ DOMAIN journal = 1 .. Newest /\ task.cand \in Candidate
          /\ \A a \in 1 .. Newest : journal[a] \in Entry
      BY DEF TypeInv, Data, JournalType, TaskType, Newest
    <2> QED
      BY <2>1, Blanks DEF Entry
  <1>2. OfCandidate(task.cand) = {} => \A a \in 1 .. Newest : journal[a].cand # task.cand
    BY <1>1 DEF OfCandidate
  <1>3. ASSUME OfCandidate(task.cand) # {}
        PROVE  /\ Newest # 0 /\ journal[Newest].cand = task.cand
               /\ LatestOf(OfCandidate(task.cand)) = Newest
    <2>1. PICK a \in 1 .. Newest : journal[a].cand = task.cand
      BY <1>1, <1>3 DEF OfCandidate
    <2>2. Newest \in 1 .. Newest /\ journal[Newest].cand = task.cand
      BY <1>1, <2>1 DEF Ordered
    <2>3. OfCandidate(task.cand) \in SUBSET (1 .. Newest) /\ Newest \in OfCandidate(task.cand)
      BY <1>1, <2>2 DEF OfCandidate
    <2>4. \A x \in OfCandidate(task.cand) : x <= Newest
      BY <1>1, <2>3
    <2>5. Max(OfCandidate(task.cand)) = Newest
      BY <1>1, <2>3, <2>4, MaxIsTop
    <2> QED
      BY <1>1, <1>3, <2>2, <2>5 DEF LatestOf
  <1> QED
    BY <1>2, <1>3

\* What starting a re-import leaves: the newest attempt, in use.
LEMMA ReimportLeft ==
  ASSUME TypeInv, Ordered, Reimport
  PROVE  /\ Extends(journal, journal', task.cand) /\ Len(journal') # 0
         /\ OnlyAt(journal, journal', Len(journal'))
         /\ Len(journal') # Newest => \A b \in 1 .. Newest : journal[b].cand # task.cand
         /\ journal'[Len(journal')].row.state = "in_use"
         /\ journal'[Len(journal')].cand = task.cand
         /\ op'["reimport"].pc = "status" /\ op'["reimport"].attempt = Len(journal')
         /\ op'["reimport"].cand = task.cand
         /\ OthersWait("reimport")
  <1> DEFINE a == LatestOf(OfCandidate(task.cand))
  <1>1. JournalType /\ Newest \in Nat /\ task.cand \in Candidate
        /\ journal \in Seq(Entry) /\ DOMAIN journal = 1 .. Newest /\ task.cand \in Nat
    BY Blanks DEF TypeInv, Data, JournalType, TaskType, Newest
  <1>2. /\ op'["reimport"].pc = "status"
        /\ op'["reimport"].attempt = IF a = 0 THEN Len(journal') ELSE a
        /\ op'["reimport"].cand = task.cand /\ OthersWait("reimport")
    <2> DEFINE o == [Idle EXCEPT !.pc = "status", !.at = instance, !.cand = task.cand,
                                 !.attempt = IF a = 0 THEN Len(journal') ELSE a]
    <2>1. Idle \in OpState
      BY Blanks
    <2>2. /\ o.pc = "status" /\ o.attempt = (IF a = 0 THEN Len(journal') ELSE a)
          /\ o.cand = task.cand
      BY <2>1 DEF OpState
    <2>3. op'["reimport"] = o /\ OthersWait("reimport")
      BY FourHandlers DEF Reimport, TypeInv, OpsType, OthersWait
    <2> HIDE DEF o
    <2> QED
      BY <2>2, <2>3
  <1>3. CASE a # 0
    <2>1. a = Newest /\ Newest # 0 /\ journal[Newest].cand = task.cand
      BY <1>3, LastIsNewest DEF LatestOf
    <2>2. journal' = [journal EXCEPT ![a].row = Reacquired(@)]
      BY <1>3 DEF Reimport
    <2> DEFINE r == Reacquired(journal[Newest].row)
    <2>3. journal[Newest] \in Entry /\ journal[Newest].row \in Row
      <3>1. journal[Newest] \in Entry
        BY <1>1, <2>1
      <3> QED
        BY <3>1 DEF Entry
    <2>4. r \in Row /\ r.state = "in_use"
      BY <2>3, RowOps, StatesLeft
    <2>5. journal' = [journal EXCEPT ![Newest].row = r]
      BY <1>1, <2>1, <2>2, <2>3 DEF Entry
    <2>6. Newest \in DOMAIN journal
      BY <1>1, <2>1
    <2> HIDE DEF r, a
    <2>7. /\ Extends(journal, journal', task.cand) /\ OnlyAt(journal, journal', Newest)
          /\ Len(journal') = Newest /\ journal'[Newest].row = r
      BY <1>1, <2>4, <2>5, <2>6, RowLeft DEF Newest
    <2> QED
      BY <1>1, <1>2, <1>3, <2>1, <2>4, <2>7 DEF Extends
  <1>4. CASE a = 0
    <2>1. journal' = Inserted(journal, task.cand, task.cand, HandleUpdated(Created))
      BY <1>4 DEF Reimport
    <2>2. HandleUpdated(Created) \in Row /\ HandleUpdated(Created).state = "in_use"
      BY RowOps, StatesLeft
    <2>3. /\ Extends(journal, journal', task.cand) /\ OnlyAt(journal, journal', Newest + 1)
          /\ Len(journal') = Newest + 1
          /\ journal'[Newest + 1].cand = task.cand
          /\ journal'[Newest + 1].row = HandleUpdated(Created)
      BY <1>1, <2>1, <2>2, InsertLeft DEF Newest
    <2>4. \A b \in 1 .. Newest : journal[b].cand # task.cand
      BY <1>1, <1>4, LastIsNewest
    <2> HIDE DEF a
    <2> QED
      BY <1>1, <1>2, <1>4, <2>2, <2>3, <2>4
  <1> QED
    BY <1>3, <1>4

\* What ending a re-import leaves: the attempt it had in hand is closed, where there is a result.
LEMMA HandLeft ==
  ASSUME TypeInv, ReimportPreserves \/ ReimportFinishes
  PROVE  /\ Extends(journal, journal', task.cand) /\ Len(journal') = Newest
         /\ OnlyAt(journal, journal', op["reimport"].attempt)
         /\ op["reimport"].attempt \in 1 .. Newest
         /\ ReimportPreserves \/ op["reimport"].result.disposition # "none"
              => journal'[op["reimport"].attempt].row.state \notin Open
         /\ ReimportFinishes /\ op["reimport"].result.disposition = "none" => journal' = journal
  <1> DEFINE a == op["reimport"].attempt
             r == op["reimport"].result
  <1>1. /\ journal \in Seq(Entry) /\ Newest \in Nat /\ DOMAIN journal = 1 .. Newest
        /\ a \in 1 .. Newest /\ r \in Result
    BY FourHandlers DEF TypeInv, Data, JournalType, ReimportType, OpState, ReimportPreserves,
       ReimportFinishes, OpAt, Newest
  <1>2. r.disposition \in {"none", "discard", "preserve"} /\ r.bundles \in SUBSET Bundle
    BY <1>1 DEF Result
  <1>3. ASSUME NEW d \in {"discard", "preserve"}, NEW bs \in SUBSET Bundle,
               journal' = ScheduledIn(journal, a, d, bs)
        PROVE  /\ Extends(journal, journal', task.cand) /\ Len(journal') = Newest
               /\ OnlyAt(journal, journal', a) /\ journal'[a].row.state \notin Open
    <2> HIDE DEF a, r
    <2>1. a \in DOMAIN journal /\ journal \in Seq(Entry)
      BY <1>1
    <2>2. /\ Extends(journal, journal', task.cand) /\ Len(journal') = Len(journal)
          /\ OnlyAt(journal, journal', a) /\ journal'[a].row.state \notin Open
      BY <1>3, <2>1, ScheduleLeft
    <2> QED
      BY <2>2 DEF Newest
  <1>4. CASE ReimportPreserves
    BY <1>1, <1>3, <1>4 DEF ReimportPreserves, ReimportFinishes, OpAt
  <1>5. CASE ReimportFinishes /\ r.disposition # "none"
    BY <1>1, <1>2, <1>3, <1>5 DEF ReimportPreserves, ReimportFinishes, OpAt
  <1>6. CASE ReimportFinishes /\ r.disposition = "none"
    <2>1. journal' = journal
      BY <1>6 DEF ReimportFinishes, ScheduledIn
    <2> QED
      BY <1>1, <1>6, <2>1 DEF ReimportPreserves, ReimportFinishes, OpAt, Extends, OnlyAt, Newest
  <1> QED
    BY <1>4, <1>5, <1>6

\* What the reaper leaves: an attempt is closed, and none discarded.
LEMMA ReapLeft ==
  ASSUME TypeInv, Ordered, ReapFails
  PROVE  /\ \E x \in Nat : Closed(task.cand, x)
         /\ Len(journal') = Newest
         /\ OnlyAt(journal, journal', LatestOf(Live))
         /\ LatestOf(Live) # 0 => journal'[LatestOf(Live)].row.state \notin Open
         /\ \A a \in 1 .. Newest : journal'[a].row.state \in Gone => StateOf(a) \in Gone
         /\ task'.status = "failed" /\ task'.cand = task.cand
  <1> DEFINE a == LatestOf(Live)
  <1>1. /\ JournalType /\ journal \in Seq(Entry) /\ Newest \in Nat /\ DOMAIN journal = 1 .. Newest
        /\ task.cand \in Candidate /\ FailPreserving /\ manifest.cand <= task.cand
    BY DEF TypeInv, Data, JournalType, TaskType, Newest, ReapFails, Ordered
  <1>2. \E x \in Nat : Closed(task.cand, x)
    BY <1>1, SettlingCloses
  <1>3. a \in {0} \union DOMAIN journal /\ journal' = ScheduledIn(journal, a, "preserve", {})
    BY <1>1, Lookups DEF FailPreserving
  <1> HIDE DEF a
  <1>4. /\ Len(journal') = Newest
        /\ OnlyAt(journal, journal', a) /\ (a # 0 => journal'[a].row.state \notin Open)
        /\ \A b \in 1 .. Newest : journal'[b].row.state \in Gone => StateOf(b) \in Gone
    <2>1. CASE a = 0
      <3>1. journal' = journal
        BY <1>3, <2>1 DEF ScheduledIn
      <3>2. Len(journal) \in Nat
        BY <1>1 DEF Newest
      <3>3. OnlyAt(journal, journal, 0)
        BY <3>2 DEF OnlyAt
      <3>4. OnlyAt(journal, journal', a)
        BY <2>1, <3>1, <3>3
      <3> QED
        BY <2>1, <3>1, <3>4 DEF StateOf, Newest
    <2>2. CASE a # 0
      <3>1. /\ OnlyAt(journal, journal', a) /\ Len(journal') = Newest
            /\ journal'[a].row.state \notin Open
            /\ journal'[a].row.state \in Gone => journal[a].row.state \in Gone
        <4>1. a \in DOMAIN journal /\ {} \in SUBSET Bundle
          BY <1>3, <2>2
        <4>3. journal'[a].row.state \notin Open
          BY <1>1, <1>3, <4>1, ScheduleLeft
        <4>2. /\ Extends(journal, journal', task.cand)
              /\ OnlyAt(journal, journal', a) /\ Len(journal') = Len(journal)
              /\ journal'[a].row.state \in Gone => journal[a].row.state \in Gone
          BY <1>1, <1>3, <4>1, ScheduleLeft
        <4> QED
          BY <4>2, <4>3 DEF Newest
      <3> QED
        BY <1>1, <3>1 DEF OnlyAt, StateOf, Newest
    <2> QED
      BY <2>1, <2>2
  <1>5. task'.status = "failed" /\ task'.cand = task.cand
    BY <1>1, FailPreservingDoes
  <1> QED
    BY <1>2, <1>4, <1>5 DEF a

\* What the cleanup service leaves: what was up for deletion is deleted.
LEMMA CleanLeft ==
  ASSUME TypeInv, NEW a \in DOMAIN journal, CleanUp(a)
  PROVE  /\ Extends(journal, journal', task.cand) /\ Len(journal') = Newest
         /\ OnlyAt(journal, journal', a) /\ a \in 1 .. Newest
         /\ StateOf(a) = "cleanup_pending" /\ journal'[a].row.state = "complete"
  <1>1. /\ journal \in Seq(Entry) /\ Newest \in Nat /\ DOMAIN journal = 1 .. Newest
        /\ journal[a] \in Entry
    BY DEF TypeInv, Data, JournalType, Newest
  <1>2. journal[a].row \in Row
    BY <1>1 DEF Entry
  <1> DEFINE r == Completed(journal[a].row)
  <1>3. r \in Row /\ r.state = "complete"
    BY <1>2, RowOps, StatesLeft
  <1>4. journal' = [journal EXCEPT ![a].row = r] /\ StateOf(a) = "cleanup_pending"
    BY <1>1 DEF CleanUp, Entry
  <1> HIDE DEF r
  <1>5. /\ Extends(journal, journal', task.cand) /\ OnlyAt(journal, journal', a)
        /\ Len(journal') = Newest /\ journal'[a].row = r
    BY <1>1, <1>3, <1>4, RowLeft DEF Newest
  <1> QED
    BY <1>1, <1>3, <1>4, <1>5

\* The order stays where attempts are made for the task's candidate only, and the task moves
\* to later candidates.
LEMMA OrderedStays ==
  ASSUME TypeInv, TypeInv', Ordered, Extends(journal, journal', task.cand), task'.cand >= task.cand,
         \/ manifest' \in {manifest, NoManifest}
         \/ manifest'.cand <= task.cand /\ (Source = "usenet" => manifest'.attempt # 0)
  PROVE  Ordered'
  <1>0. /\ Newest \in Nat /\ Len(journal') \in Nat /\ task.cand \in Nat /\ task'.cand \in Nat
        /\ \A a \in 1 .. Newest : journal[a].cand \in Nat /\ journal[a].bytes \in Nat
        /\ \A a \in 1 .. Len(journal') : journal'[a].cand \in Nat /\ journal'[a].bytes \in Nat
        /\ manifest.cand \in Nat /\ manifest'.cand \in Nat
    <2>1. /\ Newest \in Nat /\ Len(journal') \in Nat /\ task.cand \in Candidate
          /\ task'.cand \in Candidate
          /\ \A a \in 1 .. Newest : journal[a] \in Entry
          /\ \A a \in 1 .. Len(journal') : journal'[a] \in Entry
          /\ manifest.cand \in {0} \union Candidate /\ manifest'.cand \in {0} \union Candidate
      BY DEF TypeInv, Data, JournalType, TaskType, ManifestType, Newest
    <2> QED
      BY <2>1, Blanks DEF Entry
  <1>1. \A a \in 1 .. Len(journal') :
          \/ /\ a \in 1 .. Newest /\ journal'[a].cand = journal[a].cand
             /\ journal'[a].bytes = journal[a].bytes
          \/ a = Len(journal') /\ journal'[a].cand = task.cand /\ journal'[a].bytes <= task.cand
    BY <1>0 DEF Extends, Newest
  <1>2. \A a \in 1 .. Len(journal') :
          journal'[a].bytes <= journal'[a].cand /\ journal'[a].cand <= task.cand
    BY <1>0, <1>1 DEF Ordered
  <1>3. \A a, b \in 1 .. Len(journal') : a <= b => journal'[a].cand <= journal'[b].cand
    BY <1>0, <1>1, <1>2 DEF Ordered
  <1>4. /\ manifest'.cand <= task'.cand
        /\ Source = "usenet" => manifest' = NoManifest \/ manifest'.attempt # 0
    BY <1>0 DEF Ordered, NoManifest
  <1>5. \A a \in 1 .. Len(journal') :
          journal'[a].bytes <= journal'[a].cand /\ journal'[a].cand <= task'.cand
    BY <1>0, <1>2
  <1> QED
    BY <1>3, <1>4, <1>5 DEF Ordered, Newest

--------------------------------------------------------------------------------
(* A coroutine works on the task's candidate.                               *)

\* The candidate that a coroutine carries is the task's from its first read on, it has a
\* result wherever it will settle an attempt, and what it polls and publishes is its own.
Course(s, man, c) ==
  /\ s.pc # "lookup" /\ (s.pc = "prepare" => ~s.resume)
  /\ s.pc \notin {"off", "sweep", "reset"} => s.cand = c
  /\ s.pc \in {"abort", "schedule", "link"} => s.pick > s.cand
  /\ s.pc \in {"failover", "abort", "schedule"} => s.result.disposition # "none"
  /\ s.pc = "finish" => s.verdict = "completed" \/ s.result.disposition # "none"
  /\ s.pc \in Handed => man = NoManifest \/ man.cand = s.cand
  /\ s.pc \in {"poll", "publish"} => s.handle = s.cand

CourseInv == Ordered /\ \A l \in Loop : Course(loops[l], manifest, task.cand)

\* The journal after a step of a coroutine.
LEMMA FlowWrites ==
  ASSUME TypeInv, CourseInv, NEW l \in Loop, Flow(loops[l], loops'[l])
  PROVE  /\ Extends(journal, journal', task.cand)
         /\ loops[l].pc = "create" /\ journal' # journal
              => /\ Len(journal') = Newest + 1 /\ OnlyAt(journal, journal', Newest + 1)
                 /\ journal'[Newest + 1].cand = task.cand
                 /\ journal'[Newest + 1].bytes = task.cand
                 /\ journal'[Newest + 1].row.state = "acquiring"
         /\ loops[l].pc = "handle" /\ journal' # journal
              => /\ Len(journal') = Newest /\ OnlyAt(journal, journal', loops[l].attempt)
                 /\ journal'[loops[l].attempt].row.state = "in_use"
                 /\ StateOf(loops[l].attempt) \in Open
         /\ loops[l].pc \in {"finish", "schedule", "fail"} /\ journal' # journal
              => \E x \in Nat : Closed(task.cand, x)
         /\ loops[l].pc \notin {"create", "handle", "finish", "schedule", "fail"} => journal' = journal
         /\ loops[l].pc = "schedule" => loops'[l].pc = "off" \/ \E x \in Nat : Closed(task.cand, x)
         /\ loops[l].pc = "fail" /\ loops'[l].pc = "off" /\ task'.status = "failed" /\ FailPreserving
              => \E x \in Nat : Closed(task.cand, x)
         /\ loops[l].pc = "finish" /\ loops'[l].pc = "sweep"
              => \/ loops[l].verdict = "completed" \/ \E x \in Nat : Closed(task.cand, x)
  <1> DEFINE s == loops[l]
             t == loops'[l]
  <1>0. /\ journal \in Seq(Entry) /\ Newest \in Nat /\ DOMAIN journal = 1 .. Newest
        /\ s \in LoopState /\ Holding(s, journal) /\ task.cand \in Candidate
        /\ Candidate \subseteq Nat
    BY Blanks DEF TypeInv, Data, JournalType, LoopsType, TaskType, Newest
  <1>1. /\ Course(s, manifest, task.cand) /\ Ordered /\ s.pc # "lookup"
        /\ manifest.cand <= task.cand
    BY DEF CourseInv, Course, Ordered
  <1>2. Extends(journal, journal, task.cand)
    BY <1>0, SameLength DEF Newest
  <1>3. s.result \in Result
    BY <1>0 DEF LoopState
  <1>4. CASE s.pc = "create" /\ journal' = Inserted(journal, s.cand, s.cand, Created)
    <2>1. s.cand = task.cand /\ Created \in Row /\ Created.state = "acquiring"
      BY <1>1, <1>4, RowOps, StatesLeft DEF Course
    <2>b. PICK b \in Candidate : b = task.cand
      BY <1>0
    <2>2. b = task.cand /\ b <= task.cand
      BY <1>0, <2>b
    <2>a. journal' = Inserted(journal, task.cand, b, Created)
      BY <1>4, <2>1, <2>2
    <2> HIDE DEF s, t
    <2>3. /\ Extends(journal, journal', task.cand) /\ OnlyAt(journal, journal', Len(journal) + 1)
          /\ Len(journal') = Len(journal) + 1
          /\ journal'[Len(journal) + 1].cand = task.cand
          /\ journal'[Len(journal) + 1].bytes = b
          /\ journal'[Len(journal) + 1].row = Created
      BY <1>0, <2>1, <2>2, <2>a, InsertLeft
    <2> QED
      BY <1>4, <2>1, <2>2, <2>3 DEF Newest, s
  <1>5. CASE /\ s.pc = "handle" /\ HandleUpdatable(journal[s.attempt].row)
             /\ journal' = [journal EXCEPT ![s.attempt].row = HandleUpdated(@)]
    <2> DEFINE a == s.attempt
               r == HandleUpdated(journal[a].row)
    <2>1. a \in DOMAIN journal /\ journal[a] \in Entry
      BY <1>0, <1>5 DEF Holding, Newest
    <2>2. r \in Row /\ r.state = "in_use" /\ StateOf(a) \in Open
      <3>1. journal[a].row \in Row
        BY <2>1 DEF Entry
      <3> QED
        BY <1>5, <3>1, RowOps, StatesLeft DEF HandleUpdatable, StateOf, Open
    <2>3. journal' = [journal EXCEPT ![a].row = r]
      BY <1>5, <2>1 DEF Entry
    <2> HIDE DEF r, a
    <2>4. /\ Extends(journal, journal', task.cand) /\ OnlyAt(journal, journal', a)
          /\ Len(journal') = Len(journal) /\ journal'[a].row = r
      BY <1>0, <2>1, <2>2, <2>3, RowLeft
    <2> QED
      BY <1>5, <2>2, <2>4 DEF Newest, a
  <1>6. ASSUME s.pc \in {"finish", "schedule", "fail"}
        PROVE  /\ journal' = journal \/ \E x \in Nat : Closed(task.cand, x)
               /\ s.pc = "schedule" => t.pc = "off" \/ \E x \in Nat : Closed(task.cand, x)
               /\ s.pc = "fail" /\ FailPreserving => \E x \in Nat : Closed(task.cand, x)
               /\ s.pc = "finish" /\ t.pc = "sweep"
                    => \/ s.verdict = "completed" \/ \E x \in Nat : Closed(task.cand, x)
    <2>1. s.cand = task.cand
      BY <1>1, <1>6 DEF Course
    <2>2. CASE t.pc = "off" /\ journal' = journal
      BY <1>0, <1>1, <1>6, <2>2, SettlingCloses
    <2>3. CASE s.pc = "finish" /\ t.pc = "sweep" /\ Finalize(s.cand, s.verdict, s.result)
      <3>1. CASE s.result.disposition = "none"
        BY <1>1, <2>3, <3>1 DEF Finalize, Course
      <3>2. CASE s.result.disposition # "none"
        <4>1. Finalize(task.cand, s.verdict, s.result)
          BY <2>1, <2>3
        <4>2. \E x \in Nat : Closed(task.cand, x)
          BY <1>0, <1>1, <1>3, <3>2, <4>1, SettlingCloses
        <4> QED
          BY <2>3, <4>2
      <3> QED
        BY <3>1, <3>2
    <2>4. CASE s.pc = "schedule" /\ ScheduleCleanup(s.cand, s.result)
      <3>1. s.result.disposition # "none"
        BY <1>1, <2>4 DEF Course
      <3>2. \E x \in Nat : Closed(task.cand, x)
        BY <1>0, <1>1, <1>3, <2>1, <2>4, <3>1, SettlingCloses
      <3> QED
        BY <2>4, <3>2
    <2>5. CASE s.pc = "fail" /\ FailPreserving
      BY <1>0, <1>1, <2>5, SettlingCloses
    <2> QED
      BY <1>1, <1>6, <2>2, <2>3, <2>4, <2>5 DEF Flow, Onward
  <1>7. \/ journal' = journal /\ s.pc \notin {"finish", "schedule", "fail"}
        \/ s.pc = "create" /\ journal' = Inserted(journal, s.cand, s.cand, Created)
        \/ /\ s.pc = "handle" /\ HandleUpdatable(journal[s.attempt].row)
           /\ journal' = [journal EXCEPT ![s.attempt].row = HandleUpdated(@)]
        \/ s.pc \in {"finish", "schedule", "fail"}
    BY <1>1 DEF Flow, Onward
  <1>8. (\E x \in Nat : Closed(task.cand, x)) => Extends(journal, journal', task.cand)
    BY DEF Closed
  <1> QED
    BY <1>2, <1>4, <1>5, <1>6, <1>7, <1>8

\* A step of a coroutine keeps it on its course.
LEMMA FlowCourse ==
  ASSUME TypeInv, TypeInv', CourseInv, NEW l \in Loop, Flow(loops[l], loops'[l])
  PROVE  Ordered' /\ Course(loops'[l], manifest', task'.cand)
  <1> DEFINE s == loops[l]
             t == loops'[l]
  <1>0. /\ task.cand \in Nat /\ task'.cand \in Nat /\ Newest \in Nat /\ Len(journal') \in Nat
        /\ s.cand \in Nat /\ s.pick \in Nat /\ Holding(s, journal)
    <2>1. /\ task.cand \in Candidate /\ task'.cand \in Candidate /\ Newest \in Nat
          /\ Len(journal') \in Nat /\ s \in LoopState /\ Holding(s, journal)
      BY DEF TypeInv, Data, TaskType, JournalType, Newest, LoopsType
    <2> QED
      BY <2>1, Blanks DEF LoopState
  <1>1. Course(s, manifest, task.cand) /\ Ordered
    BY DEF CourseInv
  <1>2. Course(t, manifest', task'.cand)
    <2>1. CASE Onward(s, t, manifest, task.cand) /\ manifest' = manifest /\ task'.cand = task.cand
      BY <1>1, <2>1 DEF Onward, Course, Kept, Handed, FreshResult
    <2>2. CASE /\ Kept(s, t) /\ task'.cand = task.cand
               /\ \/ s.pc = "submit" /\ t.pc = "outage"
                  \/ s.pc = "manifest" /\ t.pc = "submit" /\ manifest'.cand = s.cand
                  \/ s.pc = "handle" /\ t.pc \in {"open", "fail"} /\ manifest' = manifest
                  \/ s.pc = "schedule" /\ t.pc = "link"
      BY <1>1, <2>2 DEF Course, Kept, Handed
    <2>3. CASE /\ t.pc \in {"off", "sweep", "reset"}
      BY <2>3 DEF Course, Handed
    <2>4. CASE /\ t.pc = "manifest" /\ t.cand = s.cand /\ s.pc = "create" /\ task'.cand = task.cand
      BY <1>1, <2>4 DEF Course, Handed
    <2>5. CASE /\ s.pc = "import" /\ t.pc = "publish" /\ t.cand = s.cand
               /\ manifest # NoManifest /\ t.handle = manifest.cand /\ task'.cand = task.cand
      BY <1>1, <2>5 DEF Course, Handed
    <2>6. CASE /\ t.pc \in {"finish", "failover"} /\ t.cand = s.cand /\ t.result.disposition # "none"
               /\ s.pc = "publish" /\ task'.cand = task.cand
      BY <1>1, <2>6 DEF Course, Handed
    <2>7. s.pc # "lookup"
      BY <1>1 DEF Course
    <2>8. s.pc = "manifest" /\ manifest' = [cand |-> s.cand, attempt |-> IF Source = "usenet" THEN s.attempt ELSE 0]
            => manifest'.cand = s.cand
      OBVIOUS
    <2> QED
      BY <2>1, <2>2, <2>3, <2>4, <2>5, <2>6, <2>7, <2>8 DEF Flow
  <1>3. Extends(journal, journal', task.cand)
    BY FlowWrites
  <1>4. task'.cand >= task.cand
    BY <1>0, <1>1 DEF Flow, Finalize, FailPreserving, Course, TypeInv, Data, TaskType
  <1>5. \/ manifest' \in {manifest, NoManifest}
        \/ /\ s.pc = "manifest" /\ task' = task
           /\ manifest' = [cand |-> s.cand, attempt |-> IF Source = "usenet" THEN s.attempt ELSE 0]
    BY <1>1 DEF Flow, Course
  <1>6. CASE manifest' \in {manifest, NoManifest}
    BY <1>1, <1>2, <1>3, <1>4, <1>6, OrderedStays
  <1>7. CASE /\ s.pc = "manifest" /\ task' = task
             /\ manifest' = [cand |-> s.cand, attempt |-> IF Source = "usenet" THEN s.attempt ELSE 0]
    <2>1. manifest'.cand = task.cand /\ (Source = "usenet" => manifest'.attempt # 0)
      BY <1>0, <1>1, <1>7 DEF Course, Holding
    <2> QED
      BY <1>0, <1>1, <1>2, <1>3, <1>4, <2>1, OrderedStays
  <1> QED
    BY <1>2, <1>5, <1>6, <1>7


\* What a step of another does to the order: it stays.
LEMMA DeedExtends ==
  ASSUME TypeInv, Ordered, Deed
  PROVE  /\ Extends(journal, journal', task.cand)
         /\ task'.cand = task.cand /\ UNCHANGED manifest
  <1>0. Newest \in Nat /\ TaskType
    BY DEF TypeInv, Data, JournalType, Newest
  <1>1. CASE CancelReadsBundles
    BY <1>1, AdoptLeft DEF CancelReadsBundles
  <1>2. CASE CancelWrites
    BY <1>0, <1>2, CancelLeft DEF CancelWrites, TaskType
  <1>3. CASE Reimport
    BY <1>3, ReimportLeft DEF Reimport
  <1>4. CASE ReimportProcesses \/ ReimportImports \/ ReimportPublishes
    BY <1>0, <1>4, SameLength
       DEF ReimportProcesses, ReimportImports, ReimportPublishes, TaskType, Newest
  <1>5. CASE ReimportPreserves \/ ReimportFinishes
    BY <1>0, <1>5, HandLeft DEF ReimportPreserves, ReimportFinishes, TaskType
  <1>6. CASE ReapFails
    BY <1>6, ReapLeft DEF ReapFails, Closed
  <1>7. ASSUME NEW a \in DOMAIN journal, CleanUp(a)
        PROVE  Extends(journal, journal', task.cand) /\ task'.cand = task.cand /\ UNCHANGED manifest
    BY <1>7, CleanLeft DEF CleanUp
  <1> QED
    BY <1>1, <1>2, <1>3, <1>4, <1>5, <1>6, <1>7 DEF Deed

\* Every step keeps the coroutines on their course.
LEMMA StepCourse ==
  ASSUME MaxCrashes = 0, TypeInv, LoopsInv, NoSwitch, CourseInv, [Next]_vars, NoSwitch'
  PROVE  CourseInv'
  <1>0. TypeInv'
    BY StepTypes
  <1>1. ASSUME NEW l \in Loop, LoopStep(l) \/ PollProgress(l)
        PROVE  CourseInv'
    <2>1. Ordered' /\ Course(loops'[l], manifest', task'.cand)
      BY <1>0, <1>1, LoopFlows, FlowCourse
    <2>2. \A m \in Loop \ {l} : loops'[m] = loops[m] /\ loops[m].pc = "off"
      BY <1>1, LoopMoves DEF Moved, LoopsInv, OneLoop, Alive
    <2>3. \A m \in Loop \ {l} : Course(loops'[m], manifest', task'.cand)
      BY <2>2 DEF Course, Handed
    <2> QED
      BY <2>1, <2>3 DEF CourseInv
  <1>2. CASE (Still \/ Deed) /\ \A l \in Loop : Left(l)
    <2>1. /\ Extends(journal, journal', task.cand) /\ task'.cand = task.cand
          /\ manifest' \in {manifest, NoManifest} /\ task.cand \in Nat
      <3>1. CASE Still
        BY <1>2, <3>1, SameLength, Blanks DEF Still, TypeInv, Data, JournalType, TaskType
      <3>2. CASE Deed
        BY <3>2, DeedExtends, Blanks DEF CourseInv, TypeInv, Data, TaskType
      <3> QED
        BY <1>2, <3>1, <3>2
    <2>2. Ordered'
      BY <1>0, <2>1, OrderedStays DEF CourseInv
    <2>3. ASSUME NEW l \in Loop PROVE Course(loops'[l], manifest', task'.cand)
      <3>1. Course(loops[l], manifest, task.cand) /\ Left(l)
        BY <1>2 DEF CourseInv
      <3> QED
        BY <2>1, <3>1 DEF Course, Left, Handed
    <2> QED
      BY <2>2, <2>3 DEF CourseInv
  <1> QED
    BY <1>1, <1>2, Deeds

LEMMA CourseHolds ==
  ASSUME Unswitched, MaxCrashes = 0
  PROVE  Spec => []CourseInv
  <1>1. Init => CourseInv
    <2> SUFFICES ASSUME Init PROVE CourseInv
      OBVIOUS
    <2>1. /\ journal = <<>> /\ manifest = NoManifest /\ task.cand = 1
          /\ \A l \in Loop : loops[l] = Off \/ loops[l] = Dispatched("run")
      BY DEF Init
    <2>2. Off.pc = "off" /\ Off.cand = 1 /\ Dispatched("run").pc = "read" /\ Dispatched("run").cand = 1
      BY DEF Off, Dispatched
    <2>3. Ordered
      BY <2>1 DEF Ordered, NoManifest, Newest
    <2>4. \A l \in Loop : Course(loops[l], manifest, task.cand)
      BY <2>1, <2>2 DEF Course, Handed
    <2> QED
      BY <2>3, <2>4 DEF CourseInv
  <1>2. TypeInv /\ LoopsInv /\ NoSwitch /\ CourseInv /\ [Next]_vars /\ NoSwitch' => CourseInv'
    BY StepCourse
  <1>3. Spec => []NoSwitch
    BY NoSwitchHolds
  <1> QED
    BY <1>1, <1>2, <1>3, TypesHold, LoopsHold, PTL DEF Spec

--------------------------------------------------------------------------------
(* A coroutine works with the attempt made last.                            *)

\* From the attempt's row to the end of the import; and all the places where a candidate is
\* worked on, given up or settled.
Held == {"manifest", "submit", "handle", "open", "poll", "recheck", "keep", "process",
         "import", "publish"}
Working == Held \union {"read", "prepare", "enqueue", "create", "outage", "finish",
                        "failover", "abort", "schedule", "fail"}

\* The attempt made last is open, and one of the candidate in work.
HeldLast == Newest # 0 /\ StateOf(Newest) \in Open /\ journal[Newest].cand = task.cand
\* That candidate has had no attempt yet.
Untried == \A a \in 1 .. Newest : journal[a].cand # task.cand
\* The manifest names no earlier attempt of that candidate.
NamesLast ==
  manifest.attempt # 0 /\ journal[manifest.attempt].cand = task.cand => manifest.attempt = Newest

HeldState(l) ==
  /\ loops[l].pc \in Held => HeldLast /\ journal[Newest].bytes = task.cand
  /\ loops[l].pc \in {"manifest", "submit", "handle"} => loops[l].attempt = Newest
  /\ loops[l].pc \in Working => Untried \/ HeldLast
  /\ loops[l].pc \in Working \ {"manifest"} => NamesLast
  /\ loops[l].pc = "reset" => Untried

HeldInv == \A l \in Loop : HeldState(l)

\* What a coroutine holds depends on the journal, the manifest and the task's candidate.
LEMMA HeldSame ==
  ASSUME UNCHANGED journal, task'.cand = task.cand,
         manifest' \in {manifest, NoManifest}
  PROVE  /\ HeldLast' = HeldLast /\ Untried' = Untried /\ Newest' = Newest
         /\ (NamesLast => NamesLast')
         /\ journal'[Newest'].bytes = journal[Newest].bytes
  BY DEF HeldLast, Untried, NamesLast, Newest, StateOf, NoManifest

\* A step of a coroutine keeps what it holds.
LEMMA FlowHeld ==
  ASSUME TypeInv, TypeInv', CourseInv, NEW l \in Loop, HeldState(l), Flow(loops[l], loops'[l])
  PROVE  HeldState(l)'
  <1> DEFINE s == loops[l]
             t == loops'[l]
             Same == UNCHANGED journal /\ task'.cand = task.cand /\ UNCHANGED manifest
  <1>0. /\ Newest \in Nat /\ Len(journal') \in Nat /\ task.cand \in Nat /\ task'.cand \in Nat
        /\ Course(s, manifest, task.cand) /\ Ordered
        /\ \A a \in 1 .. Newest : journal[a].cand \in Nat
        /\ s.cand \in Nat /\ s.pick \in Nat
    <2>1. /\ Newest \in Nat /\ Len(journal') \in Nat /\ task.cand \in Candidate
          /\ task'.cand \in Candidate /\ Course(s, manifest, task.cand) /\ Ordered
          /\ \A a \in 1 .. Newest : journal[a] \in Entry
          /\ s.cand \in Candidate /\ s.pick \in Candidate
      BY DEF TypeInv, Data, JournalType, TaskType, Newest, CourseInv, LoopsType, LoopState
    <2> QED
      BY <2>1, Blanks DEF Entry
  <1>1. CASE t.pc \in {"off", "sweep", "link"}
    BY <1>1 DEF HeldState, Held, Working
  <1>2. ASSUME Same
        PROVE  /\ HeldLast' = HeldLast /\ Untried' = Untried /\ Newest' = Newest
               /\ (NamesLast => NamesLast')
               /\ journal'[Newest'].bytes = journal[Newest].bytes /\ task'.cand = task.cand
    BY <1>2, HeldSame
  <1>3. CASE Onward(s, t, manifest, task.cand) /\ Same
    <2>1. \/ t.pc = "off"
          \/ /\ t.pc \in Held \ {"manifest"} => s.pc \in Held \ {"manifest"}
             /\ t.pc \notin {"manifest", "submit", "handle"} \/ (s.pc = "submit" /\ t.attempt = s.attempt)
             /\ t.pc \in Working => s.pc \in Working \ {"manifest"} \/ (s.pc = "reset" /\ t.pc = "enqueue")
             /\ t.pc # "reset" /\ t.pc # "manifest"
      BY <1>0, <1>3 DEF Onward, Held, Working, Kept, Course
    <2>2. Untried => NamesLast
      <3>1. manifest.attempt \in 0 .. Newest
        BY DEF TypeInv, Data, ManifestType, Newest
      <3> QED
        BY <1>0, <3>1 DEF Untried, NamesLast
    <2> QED
      BY <1>1, <1>2, <1>3, <2>1, <2>2 DEF HeldState, Held, Working
  <1>4. CASE Same /\ s.pc = "submit" /\ t.pc = "outage"
    BY <1>2, <1>4 DEF HeldState, Held, Working
  <1>5. CASE /\ s.pc = "create" /\ t.pc = "manifest" /\ t.attempt = Len(journal')
             /\ journal' = Inserted(journal, s.cand, s.cand, Created) /\ UNCHANGED task
    <2>1. journal' # journal
      BY <1>0, <1>5 DEF Inserted, Newest, TypeInv, Data, JournalType
    <2>2. /\ Len(journal') = Newest + 1
          /\ journal'[Newest + 1].cand = task.cand /\ journal'[Newest + 1].bytes = task.cand
          /\ journal'[Newest + 1].row.state = "acquiring"
      BY <1>5, <2>1, FlowWrites
    <2> QED
      BY <1>0, <1>5, <2>2 DEF HeldState, Held, Working, HeldLast, StateOf, Newest, Open
  <1>6. CASE /\ s.pc = "manifest" /\ t.pc = "submit" /\ t.attempt = s.attempt
             /\ manifest' = [cand |-> s.cand, attempt |-> IF Source = "usenet" THEN s.attempt ELSE 0]
             /\ UNCHANGED <<task, journal>>
    <2>1. s.attempt = Newest /\ HeldLast /\ journal[Newest].bytes = task.cand
      BY <1>6 DEF HeldState, Held
    <2>2. manifest'.attempt \in {0, Newest}
      BY <1>6, <2>1
    <2> QED
      BY <1>6, <2>1, <2>2 DEF HeldState, Held, Working, HeldLast, StateOf, Newest, NamesLast
  <1>7. CASE /\ s.pc = "handle" /\ t.pc \in {"open", "fail"} /\ UNCHANGED <<task, manifest>>
    <2>1. s.attempt = Newest /\ HeldLast /\ journal[Newest].bytes = task.cand /\ NamesLast
      BY <1>7 DEF HeldState, Held, Working
    <2>2. CASE journal' = journal
      BY <1>2, <1>7, <2>1, <2>2 DEF HeldState, Held, Working
    <2>3. CASE journal' # journal
      <3>1. /\ Len(journal') = Newest /\ journal'[Newest].row.state = "in_use"
            /\ Extends(journal, journal', task.cand)
        BY <1>7, <2>1, <2>3, FlowWrites
      <3>2. \A a \in 1 .. Newest : journal'[a].cand = journal[a].cand /\ journal'[a].bytes = journal[a].bytes
        BY <3>1 DEF Extends, Newest
      <3>3. manifest.attempt \in 0 .. Newest
        BY DEF TypeInv, Data, ManifestType, Newest
      <3>4. HeldLast' /\ NamesLast' /\ journal'[Newest'].bytes = task'.cand
        BY <1>0, <1>7, <2>1, <3>1, <3>2, <3>3 DEF HeldLast, NamesLast, StateOf, Newest, Open
      <3> QED
        BY <1>7, <3>4 DEF HeldState, Held, Working
    <2> QED
      BY <2>2, <2>3
  <1>8. CASE Same /\ s.pc \in {"import", "publish"} /\ t.pc \in {"publish", "finish", "failover"}
    BY <1>2, <1>8 DEF HeldState, Held, Working
  <1>9. CASE s.pc = "link" /\ t.pc = "reset" /\ task'.cand = s.pick /\ UNCHANGED <<journal, manifest>>
    <2>1. \A a \in 1 .. Newest : journal[a].cand # task'.cand
      BY <1>0, <1>9 DEF Course, Ordered
    <2> QED
      BY <1>9, <2>1 DEF HeldState, Held, Working, Untried, Newest
  <1>10. s.pc # "lookup"
    BY <1>0 DEF Course
  <1> QED
    BY <1>1, <1>3, <1>4, <1>5, <1>6, <1>7, <1>8, <1>9, <1>10 DEF Flow, Kept

\* While a coroutine is at work the journal is otherwise written by the cleanup service only.
LEMMA WorkedAlone ==
  ASSUME TypeInv, CancelAlone, DriveInv, Deed, NEW l \in Loop, Drives(l)
  PROVE  \E a \in DOMAIN journal : CleanUp(a)
  <1>1. /\ op["cancel"].pc \notin {"bundles", "write"}
        /\ op["reimport"].pc \in {"idle", "sweep"} /\ op["reap"].pc # "judged"
        /\ task.status \notin {"failed", "partial"}
    BY DEF CancelAlone, DriveInv, NobodyAlive, Drives
  <1>2. ~CancelReadsBundles /\ ~CancelWrites
    BY <1>1 DEF CancelReadsBundles, CancelWrites, OpAt
  <1>3. /\ ~Reimport /\ ~ReimportProcesses /\ ~ReimportImports /\ ~ReimportPublishes
        /\ ~ReimportPreserves /\ ~ReimportFinishes
    BY <1>1 DEF Reimport, ReimportAllowed, ReimportProcesses, ReimportImports, ReimportPublishes,
       ReimportPreserves, ReimportFinishes, OpAt
  <1>4. ~ReapFails
    BY <1>1 DEF ReapFails, OpAt
  <1> QED
    BY <1>2, <1>3, <1>4 DEF Deed

\* A coroutine's attempt is none that the cleanup service deletes.
LEMMA CleanHeld ==
  ASSUME TypeInv, NEW a \in DOMAIN journal, CleanUp(a), NEW l \in Loop, HeldState(l),
         loops'[l] = loops[l]
  PROVE  HeldState(l)'
  <1>1. /\ Extends(journal, journal', task.cand) /\ Len(journal') = Newest
        /\ OnlyAt(journal, journal', a) /\ a \in 1 .. Newest
        /\ StateOf(a) = "cleanup_pending" /\ Newest \in Nat
        /\ manifest.attempt \in 0 .. Newest
    BY CleanLeft DEF TypeInv, Data, JournalType, ManifestType, Newest
  <1>2. UNCHANGED <<task, manifest>>
    BY DEF CleanUp
  <1>3. \A b \in 1 .. Newest : journal'[b].cand = journal[b].cand /\ journal'[b].bytes = journal[b].bytes
    BY <1>1 DEF Extends, Newest
  <1>4. (HeldLast => HeldLast' /\ journal'[Newest].bytes = journal[Newest].bytes)
    <2>1. HeldLast => a # Newest /\ Newest \in 1 .. Newest
      BY <1>1 DEF HeldLast, Open
    <2> QED
      BY <1>1, <1>2, <1>3, <2>1 DEF HeldLast, OnlyAt, StateOf, Newest
  <1>5. (Untried => Untried') /\ (NamesLast => NamesLast') /\ Newest' = Newest
    BY <1>1, <1>2, <1>3 DEF Untried, NamesLast, Newest
  <1> QED
    BY <1>2, <1>4, <1>5 DEF HeldState, Held, Working

\* A step of another leaves what a coroutine holds.
LEMMA StepHeld ==
  ASSUME MaxCrashes = 0, TypeInv, LoopsInv, NoSwitch, CourseInv, CancelAlone, DriveInv, HeldInv,
         [Next]_vars, NoSwitch'
  PROVE  HeldInv'
  <1>0. TypeInv'
    BY StepTypes
  <1>1. ASSUME NEW l \in Loop, LoopStep(l) \/ PollProgress(l)
        PROVE  HeldInv'
    <2>1. HeldState(l)'
      BY <1>0, <1>1, LoopFlows, FlowHeld DEF HeldInv
    <2>2. \A m \in Loop \ {l} : loops'[m].pc = "off"
      BY <1>1, LoopMoves DEF Moved, LoopsInv, OneLoop, Alive
    <2> QED
      BY <2>1, <2>2 DEF HeldInv, HeldState, Held, Working
  <1>2. ASSUME Still \/ Deed, NEW l \in Loop, Left(l)
        PROVE  HeldState(l)'
    <2>1. HeldState(l)
      BY DEF HeldInv
    <2>2. CASE loops'[l].pc \in {"off", "sweep"}
      BY <2>2 DEF HeldState, Held, Working
    <2>3. CASE loops'[l].pc \notin {"off", "sweep"}
      <3>1. /\ loops'[l] = loops[l] \/ (loops[l].pc = "publish" /\ loops'[l].pc = "publish")
            /\ Drives(l)
        BY <1>2, <2>3 DEF Left, Drives, Alive
      <3>2. CASE Still
        <4>1. /\ HeldLast' = HeldLast /\ Untried' = Untried /\ Newest' = Newest
              /\ (NamesLast => NamesLast')
              /\ journal'[Newest'].bytes = journal[Newest].bytes /\ task'.cand = task.cand
          BY <3>2, HeldSame DEF Still
        <4> QED
          BY <2>1, <3>1, <4>1 DEF HeldState, Held, Working
      <3>3. CASE Deed
        <4>1. PICK a \in DOMAIN journal : CleanUp(a)
          BY <3>1, <3>3, WorkedAlone
        <4>2. loops'[l] = loops[l]
          BY <4>1 DEF CleanUp
        <4> QED
          BY <2>1, <4>1, <4>2, CleanHeld
      <3> QED
        BY <1>2, <3>2, <3>3
    <2> QED
      BY <2>2, <2>3
  <1> QED
    BY <1>1, <1>2, Deeds DEF HeldInv

LEMMA HeldHolds ==
  ASSUME Unswitched, MaxCrashes = 0, Stoppable
  PROVE  Spec => []HeldInv
  <1>1. Init => HeldInv
    <2> SUFFICES ASSUME Init PROVE HeldInv
      OBVIOUS
    <2>1. /\ journal = <<>> /\ manifest = NoManifest
          /\ \A l \in Loop : loops[l] = Off \/ loops[l] = Dispatched("run")
      BY DEF Init
    <2>2. Off.pc = "off" /\ Dispatched("run").pc = "read"
      BY DEF Off, Dispatched
    <2>3. Untried /\ NamesLast
      BY <2>1 DEF Untried, NamesLast, NoManifest, Newest
    <2> QED
      BY <2>1, <2>2, <2>3 DEF HeldInv, HeldState, Held, Working
  <1>2. TypeInv /\ LoopsInv /\ NoSwitch /\ CourseInv /\ CancelAlone /\ DriveInv /\ HeldInv
          /\ [Next]_vars /\ NoSwitch' => HeldInv'
    BY StepHeld
  <1>3. Spec => []NoSwitch
    BY NoSwitchHolds
  <1>4. Spec => []CourseInv /\ []CancelAlone
    BY CourseHolds, AloneHolds
  <1>5. Spec => []DriveInv
    BY DrivesHold, PTL
  <1> QED
    BY <1>1, <1>2, <1>3, <1>4, <1>5, TypesHold, LoopsHold, PTL DEF Spec

\* ImportsHeldBytes, what DownloadFileProcessor and the publisher read: files are imported from
\* the live attempt of the very candidate, never from a source that is up for deletion, whatever
\* outages, cancellations, re-imports and reaping there are in one life of the process.
THEOREM ImportsFromTheLive ==
  ASSUME Unswitched, MaxCrashes = 0, Stoppable
  PROVE  Spec => []ImportsHeldBytes
  <1>1. TypeInv /\ CourseInv /\ HeldInv => ImportsHeldBytes
    <2> SUFFICES ASSUME TypeInv, CourseInv, HeldInv, NEW l \in Loop, loops[l].pc = "publish"
                 PROVE  \E a \in Live : journal[a].bytes = loops[l].handle
      BY DEF ImportsHeldBytes
    <2>1. Newest \in Nat /\ DOMAIN journal = 1 .. Newest
      BY DEF TypeInv, Data, JournalType, Newest
    <2>2. Course(loops[l], manifest, task.cand) /\ HeldState(l)
      BY DEF CourseInv, HeldInv
    <2>3. loops[l].handle = task.cand
      BY <2>2 DEF Course
    <2>4. HeldLast /\ journal[Newest].bytes = task.cand
      BY <2>2 DEF HeldState, Held
    <2>5. Newest \in Live
      BY <2>1, <2>4 DEF HeldLast, Live, Open
    <2> QED
      BY <2>3, <2>4, <2>5
  <1>2. Spec => []CourseInv /\ []HeldInv
    BY CourseHolds, HeldHolds
  <1> QED
    BY <1>1, <1>2, TypesHold, PTL

\* PollsOwnCandidate, what _poll_until_done and the processor ask of the manifest, for either
\* source in one life of the process: the transfer a coroutine polls and publishes is the one of
\* the candidate its task is linked to.
THEOREM PollsItsOwnInOneLife ==
  ASSUME Unswitched, MaxCrashes = 0
  PROVE  Spec => []PollsOwnCandidate
  <1>1. CourseInv => PollsOwnCandidate
    BY DEF CourseInv, Course, PollsOwnCandidate
  <1> QED
    BY <1>1, CourseHolds, PTL

--------------------------------------------------------------------------------
(* What is given up.                                                        *)

\* Of the attempts of the task's candidate only the one made last is up for deletion; or none is.
LastGone ==
  \A a \in 1 .. Newest : journal[a].cand = task.cand /\ StateOf(a) \in Gone => a = Newest
NoneGone ==
  \A a \in 1 .. Newest : journal[a].cand = task.cand => StateOf(a) \notin Gone

Engaged == Working \union {"reset"}

\* What a coroutine closes is no earlier attempt of its candidate.
LEMMA ClosedLast ==
  ASSUME TypeInv, Ordered, NEW x \in Nat, Closed(task.cand, x), Untried \/ HeldLast, NamesLast
  PROVE  /\ Len(journal') \in {Newest, Newest + 1}
         /\ \A a \in 1 .. Len(journal') : journal'[a].cand = task.cand
              => \/ a = Len(journal')
                 \/ /\ a \in 1 .. Newest /\ journal[a].cand = task.cand
                    /\ journal'[a].row = journal[a].row
  <1>1. /\ Newest \in Nat /\ DOMAIN journal = 1 .. Newest /\ Len(journal') \in {Newest, Newest + 1}
        /\ Extends(journal, journal', task.cand) /\ OnlyAt(journal, journal', x)
        /\ manifest.attempt \in 0 .. Newest
    BY DEF TypeInv, Data, JournalType, ManifestType, Newest, Closed, Extends
  <1>2. ASSUME x \in 1 .. Newest, journal[x].cand = task.cand
        PROVE  x = Newest
    <2>1. HeldLast
      BY <1>2 DEF Untried
    <2>2. Newest \in Live /\ Live \in SUBSET (1 .. Newest)
      BY <1>1, <2>1 DEF HeldLast, Live, Open
    <2>3. \A y \in Live : y <= Newest
      BY <1>1, <2>2
    <2>4. LatestOf(Live) = Newest
      BY <1>1, <2>2, <2>3, MaxIsTop DEF LatestOf
    <2>5. LatestOf(OfCandidate(task.cand)) = Newest
      BY <1>1, <2>1, LastIsNewest DEF HeldLast, OfCandidate
    <2>6. Target(task.cand, x)
      BY DEF Closed
    <2>7. CASE x = manifest.attempt /\ manifest.attempt # 0
      BY <1>2, <2>7 DEF NamesLast
    <2>8. x # Len(journal) + 1
      BY <1>1, <1>2 DEF Newest
    <2> QED
      BY <2>4, <2>5, <2>6, <2>7, <2>8 DEF Target
  <1>3. \A a \in 1 .. Newest : journal'[a].cand = journal[a].cand
    BY <1>1 DEF Extends, Newest
  <1>4. ASSUME NEW a \in 1 .. Len(journal'), journal'[a].cand = task.cand, a # Len(journal')
        PROVE  /\ a \in 1 .. Newest /\ journal[a].cand = task.cand
               /\ journal'[a].row = journal[a].row
    <2>1. a \in 1 .. Newest /\ journal[a].cand = task.cand
      BY <1>1, <1>3, <1>4
    <2>2. a # x
      BY <1>1, <1>2, <1>4, <2>1 DEF OnlyAt, Newest
    <2> QED
      BY <1>1, <2>1, <2>2 DEF OnlyAt, Newest
  <1> QED
    BY <1>1, <1>4

\* A step of a coroutine gives up no attempt of its candidate but the last, and that at its end.
LEMMA FlowGone ==
  ASSUME TypeInv, TypeInv', CourseInv, NEW l \in Loop, HeldState(l), HeldState(l)',
         Flow(loops[l], loops'[l]), loops[l].pc \in Engaged => NoneGone
  PROVE  /\ loops'[l].pc \in Engaged => NoneGone'
         /\ loops[l].pc \in Engaged => LastGone'
         /\ loops[l].pc \notin Engaged => journal' = journal /\ (task'.cand = task.cand \/ NoneGone')
  <1> DEFINE s == loops[l]
             t == loops'[l]
  <1>0. /\ Newest \in Nat /\ Len(journal') \in Nat /\ Course(s, manifest, task.cand) /\ Ordered
        /\ TaskType
    BY DEF TypeInv, Data, JournalType, Newest, CourseInv
  <1>1. CASE journal' = journal /\ task'.cand = task.cand
    <2>1. NoneGone' = NoneGone /\ (NoneGone => LastGone')
      BY <1>1 DEF NoneGone, LastGone, Newest, StateOf
    <2>2. t.pc \in Engaged => s.pc \in Engaged \/ (s.pc = "link" /\ t.pc = "reset")
      BY <1>0 DEF Flow, Onward, Engaged, Working, Held, Course
    <2>3. CASE s.pc = "link" /\ t.pc = "reset"
      BY <1>1, <2>3 DEF HeldState, Untried, NoneGone, Engaged, Working, Held
    <2> QED
      BY <1>1, <2>1, <2>2, <2>3
  <1>2. CASE s.pc = "link" /\ t.pc = "reset" /\ journal' = journal
    BY <1>2 DEF HeldState, Untried, NoneGone, Engaged, Working, Held
  <1>3. CASE journal' # journal /\ s.pc = "create"
    <2>1. /\ Len(journal') = Newest + 1 /\ journal'[Newest + 1].row.state = "acquiring"
          /\ Extends(journal, journal', task.cand) /\ OnlyAt(journal, journal', Newest + 1)
      BY <1>3, FlowWrites
    <2>2. task'.cand = task.cand /\ NoneGone
      BY <1>3 DEF Flow, Onward, Engaged, Working
    <2>3. NoneGone'
      BY <1>0, <2>1, <2>2 DEF NoneGone, Extends, OnlyAt, StateOf, Newest, Gone
    <2> QED
      BY <1>3, <2>3 DEF NoneGone, LastGone, Engaged, Working
  <1>4. CASE journal' # journal /\ s.pc = "handle"
    <2>1. /\ Len(journal') = Newest /\ journal'[s.attempt].row.state = "in_use"
          /\ Extends(journal, journal', task.cand) /\ OnlyAt(journal, journal', s.attempt)
      BY <1>4, FlowWrites
    <2>2. task'.cand = task.cand /\ NoneGone
      BY <1>4 DEF Flow, Onward, Engaged, Working, Held
    <2>3. NoneGone'
      BY <1>0, <2>1, <2>2 DEF NoneGone, Extends, OnlyAt, StateOf, Newest, Gone
    <2> QED
      BY <1>4, <2>3 DEF NoneGone, LastGone, Engaged, Working, Held
  <1>5. CASE journal' # journal /\ s.pc \in {"finish", "schedule", "fail"}
    <2>1. PICK x \in Nat : Closed(task.cand, x)
      BY <1>5, FlowWrites
    <2>2. NoneGone /\ (Untried \/ HeldLast) /\ NamesLast
      BY <1>5 DEF HeldState, Engaged, Working, Held
    <2>3. task'.cand = task.cand /\ t.pc \in {"off", "sweep", "link"}
      BY <1>0, <1>5 DEF Flow, Onward, Finalize, FailPreserving, TaskType
    <2>4. LastGone'
      BY <1>0, <2>1, <2>2, <2>3, ClosedLast DEF LastGone, NoneGone, StateOf, Newest
    <2> QED
      BY <1>5, <2>3, <2>4 DEF Engaged, Working, Held
  <1>6. /\ s.pc \notin {"create", "handle", "finish", "schedule", "fail"} => journal' = journal
        /\ task'.cand = task.cand \/ (s.pc = "link" /\ t.pc = "reset" /\ journal' = journal)
    BY <1>0, FlowWrites DEF Flow, Finalize, FailPreserving, TaskType, Course
  <1> QED
    BY <1>1, <1>2, <1>3, <1>4, <1>5, <1>6

\* The way of a re-import.
Onwards(n, o) ==
  \/ n.pc = "status" /\ o.pc = "import" /\ UNCHANGED <<journal, bundle>>
  \/ n.pc = "import" /\ o.pc = "publish" /\ bundle' = [bundle EXCEPT ![n.cand] = "publishing"]
     /\ UNCHANGED <<journal, task>>
  \/ n.pc = "import" /\ o.pc = "finish" /\ o.result.disposition # "none"
     /\ UNCHANGED <<journal, bundle, task>>
  \/ n.pc = "import" /\ o.pc = "preserve" /\ UNCHANGED <<journal, bundle, task>>
  \/ n.pc = "publish" /\ o.pc = "finish" /\ o.result.disposition # "none"
     /\ bundle' = [bundle EXCEPT ![n.cand] = "settled"] /\ UNCHANGED <<journal, task>>
  \/ n.pc = "preserve" /\ o.pc = "finish" /\ UNCHANGED <<bundle, task>>
  \/ n.pc = "finish" /\ o.pc = "sweep" /\ UNCHANGED bundle

Reimporting == \/ ReimportProcesses \/ ReimportImports \/ ReimportPublishes
               \/ ReimportPreserves \/ ReimportFinishes

LEMMA ReimportGoes ==
  ASSUME TypeInv, Reimporting
  PROVE  /\ OthersWait("reimport") /\ Onwards(op["reimport"], op'["reimport"])
         /\ UNCHANGED <<manifest, loops>> /\ task'.cand = task.cand
         /\ op'["reimport"].pc # "sweep"
              => /\ op'["reimport"].attempt = op["reimport"].attempt
                 /\ op'["reimport"].cand = op["reimport"].cand
  <1> DEFINE n == op["reimport"]
  <1>0. /\ n \in OpState /\ op \in [Handler -> OpState] /\ n.cand \in Candidate /\ TaskType
        /\ "reimport" \in Handler
    BY FourHandlers DEF TypeInv, Data, OpsType
  <1>a. ASSUME NEW o, op' = [op EXCEPT !["reimport"] = o]
        PROVE  op'["reimport"] = o /\ OthersWait("reimport")
    BY <1>0, <1>a DEF OthersWait
  <1>b. ASSUME NEW r \in Result, r.disposition # "none", NEW o \in AfterReimport(n, r),
               op' = [op EXCEPT !["reimport"] = o]
        PROVE  /\ OthersWait("reimport")
               /\ op'["reimport"].pc = "finish" /\ op'["reimport"].result.disposition # "none"
               /\ op'["reimport"].attempt = n.attempt /\ op'["reimport"].cand = n.cand
    <2>1. PICK v \in {"completed", "partial", "failed"} :
             o = [n EXCEPT !.pc = "finish", !.verdict = v, !.result = r]
      BY <1>b DEF AfterReimport
    <2>2. /\ o.pc = "finish" /\ o.result = r /\ o.attempt = n.attempt /\ o.cand = n.cand
      BY <1>0, <2>1 DEF OpState
    <2>3. op'["reimport"] = o /\ OthersWait("reimport")
      BY <1>a, <1>b
    <2> QED
      BY <1>b, <2>2, <2>3
  <1>c. ASSUME NEW pc \in OpPc, OpGoto("reimport", pc)
        PROVE  /\ OthersWait("reimport") /\ op'["reimport"].pc = pc
               /\ op'["reimport"].attempt = n.attempt /\ op'["reimport"].cand = n.cand
    <2>1. PICK o \in OpState : /\ op' = [op EXCEPT !["reimport"] = o] /\ o.pc = pc
                               /\ o.cand = n.cand /\ o.attempt = n.attempt
      BY <1>0, <1>c, OpWent
    <2>2. op'["reimport"] = o /\ OthersWait("reimport")
      BY <1>a, <2>1
    <2> QED
      BY <2>1, <2>2
  <1>1. CASE ReimportProcesses
    BY <1>0, <1>1, <1>c, Places DEF ReimportProcesses, OpAt, Onwards, TaskType
  <1>2. CASE ReimportImports
    <2>1. ASSUME NEW d \in {"discard", "preserve"}
          PROVE  [disposition |-> d, bundles |-> {}] \in Result
      BY DEF Result
    <2>2. CASE /\ bundle' = bundle
               /\ \E d \in {"discard", "preserve"} :
                  \E next \in AfterReimport(n, [disposition |-> d, bundles |-> {}]) :
                    op' = [op EXCEPT !["reimport"] = next]
      <3>1. PICK d \in {"discard", "preserve"} :
                  \E next \in AfterReimport(n, [disposition |-> d, bundles |-> {}]) :
                    op' = [op EXCEPT !["reimport"] = next]
        BY <2>2
      <3>2. PICK r \in Result : r = [disposition |-> d, bundles |-> {}] /\ r.disposition # "none"
        BY <2>1
      <3>3. PICK o \in AfterReimport(n, r) : op' = [op EXCEPT !["reimport"] = o]
        BY <3>1, <3>2
      <3>4. /\ OthersWait("reimport")
            /\ op'["reimport"].pc = "finish" /\ op'["reimport"].result.disposition # "none"
            /\ op'["reimport"].attempt = n.attempt /\ op'["reimport"].cand = n.cand
        BY <1>b, <3>2, <3>3
      <3> QED
        BY <1>2, <2>2, <3>4 DEF ReimportImports, OpAt, Onwards
    <2>3. CASE OpGoto("reimport", "publish") /\ bundle' = [bundle EXCEPT ![n.cand] = "publishing"]
      BY <1>2, <1>c, <2>3, Places DEF ReimportImports, OpAt, Onwards
    <2>4. CASE OpGoto("reimport", "preserve") /\ bundle' = bundle
      BY <1>2, <1>c, <2>4, Places DEF ReimportImports, OpAt, Onwards
    <2> QED
      BY <1>2, <2>2, <2>3, <2>4 DEF ReimportImports
  <1>3. CASE ReimportPublishes
    <2>1. PICK r \in Published(n.cand) :
             \E o \in AfterReimport(n, r) : op' = [op EXCEPT !["reimport"] = o]
      BY <1>3 DEF ReimportPublishes
    <2>2. r \in Result /\ r.disposition # "none"
      BY <1>0, PublishedDoes DEF Published
    <2>3. PICK o \in AfterReimport(n, r) : op' = [op EXCEPT !["reimport"] = o]
      BY <2>1
    <2>4. /\ OthersWait("reimport")
          /\ op'["reimport"].pc = "finish" /\ op'["reimport"].result.disposition # "none"
          /\ op'["reimport"].attempt = n.attempt /\ op'["reimport"].cand = n.cand
      BY <1>b, <2>2, <2>3
    <2> QED
      BY <1>3, <2>4 DEF ReimportPublishes, OpAt, Onwards
  <1>4. CASE ReimportPreserves
    <2> DEFINE o == [n EXCEPT !.pc = "finish", !.verdict = "failed", !.result = NoResult]
    <2>1. o.pc = "finish" /\ o.attempt = n.attempt /\ o.cand = n.cand
      BY <1>0 DEF OpState
    <2>2. op' = [op EXCEPT !["reimport"] = o]
      BY <1>4 DEF ReimportPreserves
    <2> HIDE DEF o
    <2>3. op'["reimport"] = o /\ OthersWait("reimport")
      BY <1>a, <2>2
    <2> QED
      BY <1>4, <2>1, <2>3 DEF ReimportPreserves, OpAt, Onwards
  <1>5. CASE ReimportFinishes
    <2> DEFINE o == [Idle EXCEPT !.pc = "sweep", !.at = n.at]
    <2>1. o.pc = "sweep"
      BY Blanks DEF OpState
    <2>2. op' = [op EXCEPT !["reimport"] = o]
      BY <1>5 DEF ReimportFinishes, OpSweeps
    <2> HIDE DEF o
    <2>3. op'["reimport"] = o /\ OthersWait("reimport")
      BY <1>a, <2>2
    <2> QED
      BY <1>0, <1>5, <2>1, <2>3 DEF ReimportFinishes, OpAt, Onwards, TaskType
  <1> QED
    BY <1>1, <1>2, <1>3, <1>4, <1>5 DEF Reimporting

\* Unless the user has cancelled or is about to, only the last attempt of the task's candidate
\* can be up for deletion; none is while a coroutine is engaged with it, or a re-import before
\* its end.  What is being published is published by one of the two.
Uncancelled == (MaxCancels = 0 \/ task.status # "cancelled") /\ op["cancel"].pc # "write"
ReimportHas ==
  /\ op["reimport"].pc \notin {"idle", "sweep"}
       => /\ op["reimport"].attempt = Newest /\ op["reimport"].cand = task.cand /\ LastGone
  /\ op["reimport"].pc \in {"status", "import", "publish"} => NoneGone
Publishers ==
  \A c \in Candidate : bundle[c] = "publishing"
    => \/ \E l \in Loop : loops[l].pc = "publish" /\ loops[l].handle = c
       \/ op["reimport"].pc = "publish" /\ op["reimport"].cand = c

GoneInv ==
  /\ Uncancelled => LastGone
  /\ \A l \in Loop : loops[l].pc \in Engaged => NoneGone
  /\ ReimportHas
  /\ Publishers

\* A cancelled task stays so, or nobody cancels.
Final == (MaxCancels = 0 /\ NoCancel) \/ (MaxCancels # 0 /\ CancelInv)

\* What is given up depends on the journal and the task's candidate.
LEMMA GoneSame ==
  ASSUME UNCHANGED journal, task'.cand = task.cand
  PROVE  LastGone' = LastGone /\ NoneGone' = NoneGone /\ Newest' = Newest
  BY DEF LastGone, NoneGone, Newest, StateOf

LEMMA LoopGone ==
  ASSUME TypeInv, TypeInv', LoopsInv, CourseInv, DriveInv, HeldInv, HeldInv', Final, GoneInv,
         NEW l \in Loop, LoopStep(l) \/ PollProgress(l)
  PROVE  GoneInv'
  <1> DEFINE s == loops[l]
             t == loops'[l]
  <1>1. Flow(s, t) /\ Moved(l) /\ StatusMoves(l) /\ Course(s, manifest, task.cand)
    BY LoopFlows, LoopMoves DEF CourseInv
  <1>2. /\ t.pc \in Engaged => NoneGone'
        /\ s.pc \in Engaged => LastGone'
        /\ s.pc \notin Engaged => journal' = journal /\ (task'.cand = task.cand \/ NoneGone')
    BY <1>1, FlowGone DEF GoneInv, HeldInv
  <1>3. /\ \A m \in Loop \ {l} : loops'[m] = loops[m] /\ loops[m].pc = "off"
        /\ Alive(l) /\ op' = op
    BY <1>1 DEF Moved, LoopsInv, OneLoop, Alive, Surroundings
  <1>4. \A m \in Loop : loops'[m].pc \in Engaged => NoneGone'
    BY <1>2, <1>3 DEF Engaged, Working, Held
  <1>5. Uncancelled' => LastGone'
    <2>1. CASE s.pc \in Engaged \/ NoneGone'
      BY <1>2, <2>1 DEF NoneGone, LastGone
    <2>2. CASE s.pc \notin Engaged /\ task'.cand = task.cand
      <3>1. LastGone' = LastGone
        BY <1>2, <2>2, GoneSame
      <3>2. Drives(l) => MaxCancels = 0 \/ task.status # "cancelled"
        BY DEF Final, CancelInv
      <3>3. ~Drives(l) => task'.status = task.status
        BY <1>1 DEF StatusMoves
      <3> QED
        BY <1>3, <3>1, <3>2, <3>3 DEF Uncancelled, GoneInv
    <2> QED
      BY <1>2, <2>1, <2>2
  <1>6. ReimportHas'
    <2>1. CASE op["reimport"].pc \in {"idle", "sweep"}
      BY <1>3, <2>1 DEF ReimportHas
    <2>2. CASE op["reimport"].pc \notin {"idle", "sweep"}
      <3>1. s.pc = "sweep"
        BY <1>3, <2>2 DEF DriveInv, Drives
      <3>2. journal' = journal /\ task'.cand = task.cand
        BY <1>1, <3>1 DEF Flow, Onward
      <3>3. LastGone' = LastGone /\ NoneGone' = NoneGone /\ Newest' = Newest
        BY <3>2, GoneSame
      <3> QED
        BY <1>3, <3>2, <3>3 DEF ReimportHas, GoneInv
    <2> QED
      BY <2>1, <2>2
  <1>7. Publishers'
    <2>1. BundleType /\ Publishers
      BY DEF TypeInv, Data, GoneInv
    <2>2. \/ bundle' = bundle /\ s.pc # "publish"
          \/ /\ s.pc = "import" /\ t.pc = "publish" /\ t.handle = manifest.cand
             /\ bundle' = [bundle EXCEPT ![manifest.cand] = "publishing"]
          \/ s.pc = "publish" /\ bundle' = [bundle EXCEPT ![s.handle] = "settled"]
      BY <1>1 DEF Flow, Onward, Course
    <2>3. CASE bundle' = bundle /\ s.pc # "publish"
      BY <1>3, <2>1, <2>3 DEF Publishers
    <2>4. CASE /\ s.pc = "import" /\ t.pc = "publish" /\ t.handle = manifest.cand
               /\ bundle' = [bundle EXCEPT ![manifest.cand] = "publishing"]
      BY <1>3, <2>1, <2>4 DEF Publishers, BundleType
    <2>5. CASE s.pc = "publish" /\ bundle' = [bundle EXCEPT ![s.handle] = "settled"]
      BY <1>3, <2>1, <2>5 DEF Publishers, BundleType
    <2> QED
      BY <2>2, <2>3, <2>4, <2>5
  <1> QED
    BY <1>4, <1>5, <1>6, <1>7 DEF GoneInv

LEMMA StillGone ==
  ASSUME GoneInv, Still, \A l \in Loop : Left(l)
  PROVE  GoneInv'
  <1>1. LastGone' = LastGone /\ NoneGone' = NoneGone /\ Newest' = Newest
    BY GoneSame DEF Still
  <1>2. Uncancelled' => Uncancelled
    BY DEF Uncancelled, Still
  <1>3. \A l \in Loop : loops'[l].pc \in Engaged => loops[l].pc \in Engaged
    BY DEF Left, Engaged, Working, Held
  <1>4. ReimportHas'
    BY <1>1 DEF ReimportHas, GoneInv, Still
  <1>5. Publishers'
    BY DEF Publishers, GoneInv, Still, Left
  <1> QED
    BY <1>1, <1>2, <1>3, <1>4, <1>5 DEF GoneInv

\* Where nobody is at work nothing is published but by a re-import.
LEMMA DeedGone ==
  ASSUME TypeInv, TypeInv', CourseInv, DriveInv, CancelAlone, CancelAlone', Final, GoneInv, Deed
  PROVE  GoneInv'
  <1>0. /\ Newest \in Nat /\ Len(journal') \in Nat /\ Ordered
        /\ (\A l \in Loop : Drives(l) \/ loops[l].pc \notin Engaged)
        /\ (\A l \in Loop : Drives(l) \/ loops[l].pc # "publish")
        /\ "cancel" \in Handler /\ "reimport" \in Handler /\ "reap" \in Handler /\ BundleType
        /\ TaskType
    BY DEF TypeInv, Data, JournalType, Newest, CourseInv, Drives, Alive, Engaged, Working, Held, Handler
  <1>1. CASE CancelReadsBundles
    <2>1. /\ op["cancel"].pc = "bundles" /\ OthersWait("cancel") /\ op'["cancel"].pc = "write"
          /\ UNCHANGED <<loops, bundle>>
      BY <1>1, CancelMoves DEF CancelReadsBundles, CancelMoved, OthersWait, OpAt, CancelTask, CancelLocked
    <2>2. (\A l \in Loop : loops[l].pc = "off") /\ op["reimport"].pc = "idle"
          /\ op'["reimport"].pc = "idle"
      BY <1>0, <2>1 DEF CancelAlone, NobodyAlive, Alive, OthersWait
    <2> QED
      BY <2>1, <2>2
         DEF GoneInv, Uncancelled, ReimportHas, Publishers, Engaged, Working, Held
  <1>2. CASE CancelWrites
    <2>1. /\ op["cancel"].pc = "write" /\ OthersWait("cancel")
          /\ UNCHANGED <<loops, bundle>> /\ task'.status = "cancelled"
      BY <1>0, <1>2, CancelMoves DEF CancelWrites, CancelMoved, OthersWait, OpAt, TaskType
    <2>2. /\ (\A l \in Loop : loops[l].pc = "off") /\ op["reimport"].pc = "idle"
          /\ op'["reimport"].pc = "idle"
      BY <1>0, <2>1 DEF CancelAlone, NobodyAlive, Alive, OthersWait
    <2>4. MaxCancels # 0
      BY <2>1 DEF Final, NoCancel
    <2> QED
      BY <2>1, <2>2, <2>4
         DEF GoneInv, Uncancelled, ReimportHas, Publishers, Engaged, Working, Held
  <1>3. CASE Reimport
    <2>1. /\ Extends(journal, journal', task.cand) /\ Len(journal') # 0
          /\ OnlyAt(journal, journal', Len(journal'))
          /\ Len(journal') # Newest => \A b \in 1 .. Newest : journal[b].cand # task.cand
          /\ journal'[Len(journal')].row.state = "in_use"
          /\ op'["reimport"].pc = "status" /\ op'["reimport"].attempt = Len(journal')
          /\ op'["reimport"].cand = task.cand
          /\ OthersWait("reimport")
      BY <1>0, <1>3, ReimportLeft
    <2>2. /\ UNCHANGED <<task, loops, bundle>> /\ op["reimport"].pc = "idle"
          /\ task.status \in {"failed", "partial"}
      BY <1>3 DEF Reimport, OpAt, ReimportAllowed
    <2>3. op["cancel"].pc # "write" /\ op'["cancel"] = op["cancel"]
      BY <1>0, <2>1 DEF CancelAlone, OthersWait
    <2>4. LastGone
      BY <2>2, <2>3 DEF GoneInv, Uncancelled
    <2>5. NoneGone'
      BY <1>0, <2>1, <2>2, <2>4 DEF LastGone, NoneGone, Extends, OnlyAt, StateOf, Newest, Gone
    <2>6. LastGone' /\ ReimportHas'
      BY <2>1, <2>2, <2>5 DEF LastGone, NoneGone, ReimportHas, Newest
    <2>7. Publishers'
      BY <2>2 DEF GoneInv, Publishers
    <2> QED
      BY <2>5, <2>6, <2>7 DEF GoneInv
  <1>4. CASE Reimporting
    <2> DEFINE n == op["reimport"]
               o == op'["reimport"]
    <2>1. /\ OthersWait("reimport") /\ Onwards(n, o) /\ UNCHANGED <<manifest, loops>>
          /\ task'.cand = task.cand
          /\ o.pc # "sweep" => o.attempt = n.attempt /\ o.cand = n.cand
      BY <1>4, ReimportGoes
    <2>2. n.pc \notin {"idle", "sweep"} /\ n.attempt = Newest /\ n.cand = task.cand /\ LastGone
      BY <2>1 DEF Onwards, GoneInv, ReimportHas
    <2>3. \A l \in Loop : loops[l].pc \notin Engaged /\ loops[l].pc # "publish"
      BY <1>0, <2>2 DEF DriveInv
    <2>4. CASE ReimportPreserves \/ ReimportFinishes
      <3>1. /\ Extends(journal, journal', task.cand) /\ Len(journal') = Newest
            /\ OnlyAt(journal, journal', Newest)
        BY <2>2, <2>4, HandLeft
      <3>2. LastGone'
        BY <1>0, <2>1, <2>2, <3>1 DEF LastGone, Extends, OnlyAt, StateOf, Newest
      <3>3. o.pc \in {"finish", "sweep"} /\ UNCHANGED bundle /\ n.pc # "publish"
        BY <2>1, <2>4 DEF Onwards, ReimportPreserves, ReimportFinishes, OpAt
      <3> QED
        BY <2>1, <2>2, <2>3, <3>1, <3>2, <3>3 DEF GoneInv, ReimportHas, Publishers, Newest
    <2>5. CASE ~ReimportPreserves /\ ~ReimportFinishes
      <3>1. journal' = journal /\ n.pc \in {"status", "import", "publish"}
            /\ o.pc \in {"import", "publish", "finish", "preserve"}
        BY <1>4, <2>1, <2>5 DEF Reimporting, ReimportProcesses, ReimportImports, ReimportPublishes,
           OpAt, Onwards
      <3>2. LastGone' = LastGone /\ NoneGone' = NoneGone /\ Newest' = Newest /\ NoneGone
        BY <2>1, <3>1, GoneSame DEF GoneInv, ReimportHas
      <3>3. Publishers'
        <4>1. \/ o.pc # "publish" /\ n.pc # "publish" /\ bundle' = bundle
              \/ o.pc = "publish" /\ bundle' = [bundle EXCEPT ![n.cand] = "publishing"]
              \/ n.pc = "publish" /\ bundle' = [bundle EXCEPT ![n.cand] = "settled"]
          BY <2>1, <3>1 DEF Onwards
        <4>2. \A c \in Candidate : bundle[c] = "publishing" => n.pc = "publish" /\ n.cand = c
          BY <2>3 DEF GoneInv, Publishers
        <4>3. o.cand = n.cand
          BY <2>1, <3>1
        <4> QED
          BY <1>0, <4>1, <4>2, <4>3 DEF Publishers, BundleType
      <3> QED
        BY <2>1, <2>2, <2>3, <3>1, <3>2, <3>3 DEF GoneInv, ReimportHas
    <2> QED
      BY <2>4, <2>5
  <1>5. CASE ReapFails
    <2>1. /\ Len(journal') = Newest /\ task'.status = "failed" /\ task'.cand = task.cand
          /\ \A a \in 1 .. Newest : journal'[a].row.state \in Gone => StateOf(a) \in Gone
          /\ \E x \in Nat : Closed(task.cand, x)
      BY <1>0, <1>5, ReapLeft
    <2>2. \A a \in 1 .. Newest : journal'[a].cand = journal[a].cand
      BY <2>1 DEF Closed, Extends, Newest
    <2>3. op["reap"].pc = "judged" /\ OthersWait("reap") /\ UNCHANGED <<loops, bundle>>
      BY <1>5, ReapMoves DEF ReapFails, ReapMoved, OpAt
    <2>4. MaxCancels = 0 /\ op["cancel"].pc = "idle"
      BY <2>3 DEF Final, CancelInv, NoCancel
    <2>5. LastGone /\ LastGone' /\ (NoneGone => NoneGone') /\ Newest' = Newest
      <3>1. LastGone
        BY <2>4 DEF GoneInv, Uncancelled
      <3> QED
        BY <1>0, <2>1, <2>2, <3>1 DEF LastGone, NoneGone, StateOf, Newest
    <2>6. op'["reimport"] = op["reimport"]
      BY <1>0, <2>3 DEF OthersWait
    <2> QED
      BY <2>1, <2>3, <2>5, <2>6 DEF GoneInv, ReimportHas, Publishers
  <1>6. ASSUME NEW a \in DOMAIN journal, CleanUp(a) PROVE GoneInv'
    <2>1. /\ Extends(journal, journal', task.cand) /\ Len(journal') = Newest
          /\ OnlyAt(journal, journal', a) /\ a \in 1 .. Newest
          /\ StateOf(a) = "cleanup_pending" /\ journal'[a].row.state = "complete"
      BY <1>6, CleanLeft
    <2>2. UNCHANGED <<task, loops, op, bundle>>
      BY <1>6 DEF CleanUp
    <2>3. \A b \in 1 .. Newest : /\ journal'[b].cand = journal[b].cand
                                 /\ journal'[b].row.state \in Gone => StateOf(b) \in Gone
      BY <2>1 DEF Extends, OnlyAt, StateOf, Newest, Gone
    <2>4. (LastGone => LastGone') /\ (NoneGone => NoneGone') /\ Newest' = Newest
      BY <2>1, <2>2, <2>3 DEF LastGone, NoneGone, StateOf, Newest
    <2> QED
      BY <2>2, <2>4 DEF GoneInv, ReimportHas, Publishers, Uncancelled
  <1> QED
    BY <1>1, <1>2, <1>3, <1>4, <1>5, <1>6 DEF Deed, Reimporting

\* Where the user's cancellation is final, or there is none.
Undisturbed == MaxCancels = 0 \/ (MaxRebuilds = 0 /\ "reap" \notin Handlers)

LEMMA FinalHolds ==
  ASSUME Unswitched, Undisturbed
  PROVE  Spec => []Final
  <1>1. CASE MaxCancels = 0
    <2>1. Spec => []NoCancel
      BY <1>1, NoCancelHolds
    <2>2. NoCancel => Final
      BY <1>1 DEF Final
    <2> QED
      BY <2>1, <2>2, PTL
  <1>2. CASE MaxCancels # 0
    <2>1. Spec => []CancelInv
      BY <1>2, CancelHolds DEF Undisturbed
    <2>2. CancelInv => Final
      BY <1>2 DEF Final
    <2> QED
      BY <2>1, <2>2, PTL
  <1> QED
    BY <1>1, <1>2

LEMMA GoneHolds ==
  ASSUME Unswitched, MaxCrashes = 0, Undisturbed
  PROVE  Spec => []GoneInv
  <1>1. Init => GoneInv
    <2> SUFFICES ASSUME Init PROVE GoneInv
      OBVIOUS
    <2>1. /\ journal = <<>> /\ op["reimport"].pc = "idle"
          /\ \A c \in Candidate : bundle[c] = "none"
      BY Blanks DEF Init, Handler
    <2> QED
      BY <2>1 DEF GoneInv, LastGone, NoneGone, ReimportHas, Publishers, Newest
  <1>2. ASSUME TypeInv, LoopsInv, NoSwitch, CourseInv, CancelAlone, DriveInv, HeldInv, Final, GoneInv,
               [Next]_vars, NoSwitch', CancelAlone', HeldInv'
        PROVE  GoneInv'
    <2>1. TypeInv'
      BY <1>2, StepTypes
    <2>2. CASE \E l \in Loop : LoopStep(l) \/ PollProgress(l)
      BY <1>2, <2>1, <2>2, LoopGone
    <2>3. CASE Still /\ \A l \in Loop : Left(l)
      BY <1>2, <2>3, StillGone
    <2>4. CASE Deed
      BY <1>2, <2>1, <2>4, DeedGone
    <2> QED
      BY <1>2, <2>2, <2>3, <2>4, Deeds
  <1>3. Stoppable
    BY DEF Undisturbed, Stoppable
  <1>4. Spec => []NoSwitch /\ []CourseInv /\ []CancelAlone /\ []HeldInv /\ []Final
    BY <1>3, NoSwitchHolds, CourseHolds, AloneHolds, HeldHolds, FinalHolds
  <1>5. Spec => []DriveInv
    BY DrivesHold, PTL
  <1> QED
    BY <1>1, <1>2, <1>4, <1>5, TypesHold, LoopsHold, PTL DEF Spec

\* DiscardAwaitsPublication, what publisher_bundle_ids are recorded for: while a publication
\* reads a candidate's source, no attempt of it is up for deletion without naming the
\* publication.  In one life of the process, where a cancellation is final: a settings save or
\* the reaper beside a cancellation break it.
THEOREM DiscardsAwaitPublications ==
  ASSUME Unswitched, MaxCrashes = 0, Undisturbed
  PROVE  Spec => []DiscardAwaitsPublication
  <1>1. TypeInv /\ CourseInv /\ GoneInv => DiscardAwaitsPublication
    <2> SUFFICES ASSUME TypeInv, CourseInv, GoneInv, NEW a \in DOMAIN journal, StateOf(a) \in Gone,
                        bundle[journal[a].bytes] = "publishing"
                 PROVE  FALSE
      BY DEF DiscardAwaitsPublication, Gone
    <2>1. /\ a \in 1 .. Newest /\ journal[a].bytes \in Candidate
          /\ journal[a].bytes \in Nat /\ journal[a].cand \in Nat /\ task.cand \in Nat
      <3>1. a \in 1 .. Newest /\ journal[a] \in Entry /\ task.cand \in Candidate
        BY DEF TypeInv, Data, JournalType, TaskType, Newest
      <3> QED
        BY <3>1, Blanks DEF Entry
    <2>2. journal[a].bytes = task.cand /\ NoneGone
      <3>1. \/ \E l \in Loop : loops[l].pc = "publish" /\ loops[l].handle = journal[a].bytes
            \/ op["reimport"].pc = "publish" /\ op["reimport"].cand = journal[a].bytes
        BY <2>1 DEF GoneInv, Publishers
      <3>2. CASE \E l \in Loop : loops[l].pc = "publish" /\ loops[l].handle = journal[a].bytes
        BY <3>2 DEF CourseInv, Course, GoneInv, Engaged, Working, Held
      <3>3. CASE op["reimport"].pc = "publish" /\ op["reimport"].cand = journal[a].bytes
        BY <3>3 DEF GoneInv, ReimportHas
      <3> QED
        BY <3>1, <3>2, <3>3
    <2>3. journal[a].cand = task.cand
      BY <2>1, <2>2 DEF CourseInv, Ordered
    <2> QED
      BY <2>1, <2>2, <2>3 DEF NoneGone
  <1> QED
    BY <1>1, CourseHolds, GoneHolds, TypesHold, PTL

--------------------------------------------------------------------------------
(* What is live.                                                            *)

\* Only the attempt made last is live; or none is.
LastLive == \A a \in 1 .. Newest : StateOf(a) \in Open => a = Newest
NoneLive == \A a \in 1 .. Newest : StateOf(a) \notin Open

\* Nothing is live before a candidate's attempt is made and after it is settled; in between
\* what is live is of the candidate in work, and the manifest names it or nothing.  The attempt
\* that is made and submitted is the last, live or already given up.
Between == {"read", "prepare", "enqueue", "create", "outage", "link", "reset"}
LiveState(l) ==
  /\ loops[l].pc \in Between => NoneLive
  /\ loops[l].pc \in Working => NoneLive \/ journal[Newest].cand = task.cand
  /\ loops[l].pc \in Working \ {"manifest"} => NoneLive \/ manifest.attempt \in {0, Newest}
  /\ loops[l].pc \in {"manifest", "submit", "handle"}
       => loops[l].attempt = Newest /\ Newest # 0 /\ journal[Newest].cand = task.cand

\* A task that is to be re-imported has nothing live (on Soulseek, unless a cancellation that
\* will close it has just adopted it), and a re-import works with the last attempt.
ReimportLive ==
  /\ task.status \in {"failed", "partial"}
       => \/ NoneLive
          \/ op["reimport"].pc \notin {"idle", "sweep"}
          \/ Source = "soulseek" /\ op["cancel"].pc = "write"
  /\ op["reimport"].pc \notin {"idle", "sweep"} => op["reimport"].attempt = Newest
  /\ op["reimport"].pc = "finish" => op["reimport"].result.disposition # "none" \/ NoneLive

LiveInv == LastLive /\ ReimportLive /\ \A l \in Loop : LiveState(l)

LEMMA LiveSame ==
  ASSUME UNCHANGED journal
  PROVE  LastLive' = LastLive /\ NoneLive' = NoneLive /\ Newest' = Newest
  BY DEF LastLive, NoneLive, Newest, StateOf

\* The live attempt, if there is one, is the last the lookup finds.
LEMMA LastIsLive ==
  ASSUME TypeInv, LastLive
  PROVE  /\ NoneLive => Live = {} /\ LatestOf(Live) = 0
         /\ ~NoneLive => Newest # 0 /\ StateOf(Newest) \in Open /\ Live # {} /\ LatestOf(Live) = Newest
  <1>1. Newest \in Nat /\ DOMAIN journal = 1 .. Newest
    BY DEF TypeInv, Data, JournalType, Newest
  <1>2. CASE NoneLive
    <2>1. Live = {}
      BY <1>1, <1>2 DEF Live, NoneLive, Open
    <2> QED
      BY <1>2, <2>1 DEF LatestOf
  <1>3. CASE ~NoneLive
    <2>1. PICK a \in 1 .. Newest : StateOf(a) \in Open
      BY <1>3 DEF NoneLive
    <2>2. a = Newest
      BY <2>1 DEF LastLive
    <2>3. Newest \in Live /\ Live \in SUBSET Nat /\ \A y \in Live : y <= Newest
      BY <1>1, <2>1, <2>2 DEF Live, Open
    <2>4. Max(Live) = Newest
      BY <2>3, MaxIsTop
    <2> QED
      BY <1>1, <1>3, <2>1, <2>2, <2>3, <2>4 DEF LatestOf
  <1> QED
    BY <1>2, <1>3

\* Closing an attempt leaves none live.
LEMMA ClosedNone ==
  ASSUME TypeInv, Ordered, LastLive, NEW x \in Nat, Closed(task.cand, x),
         NoneLive \/ (journal[Newest].cand = task.cand /\ manifest.attempt \in {0, Newest})
  PROVE  NoneLive'
  <1>1. /\ Newest \in Nat /\ DOMAIN journal = 1 .. Newest
        /\ Extends(journal, journal', task.cand) /\ OnlyAt(journal, journal', x)
        /\ Len(journal') \in {Newest, Newest + 1}
        /\ x # 0 => journal'[x].row.state \notin Open
    BY DEF TypeInv, Data, JournalType, Newest, Closed, Extends
  <1>2. CASE NoneLive
    BY <1>1, <1>2 DEF NoneLive, OnlyAt, StateOf, Newest
  <1>3. CASE ~NoneLive /\ journal[Newest].cand = task.cand /\ manifest.attempt \in {0, Newest}
    <2>1. Newest # 0 /\ Live # {} /\ LatestOf(Live) = Newest
      BY <1>3, LastIsLive
    <2>2. LatestOf(OfCandidate(task.cand)) = Newest
      BY <1>1, <1>3, <2>1, LastIsNewest DEF OfCandidate
    <2>3. x = Newest
      BY <1>3, <2>1, <2>2 DEF Closed, Target
    <2>4. Len(journal') = Newest
      BY <1>1, <2>3 DEF OnlyAt, Newest
    <2> QED
      BY <1>1, <1>3, <2>1, <2>3, <2>4 DEF NoneLive, LastLive, OnlyAt, StateOf, Newest
  <1> QED
    BY <1>2, <1>3

\* A step of a coroutine keeps one attempt live, if any.
LEMMA FlowLive ==
  ASSUME TypeInv, TypeInv', MaxOutages = 0, CourseInv, NEW l \in Loop,
         Flow(loops[l], loops'[l]), LastLive, LiveState(l)
  PROVE  /\ LastLive' /\ LiveState(l)'
         /\ loops[l].pc = "fail" => UNCHANGED task \/ loops'[l].pc # "off" \/ NoneLive'
         /\ loops[l].pc = "finish" /\ loops'[l].pc = "sweep"
              => loops[l].verdict = "completed" \/ NoneLive'
  <1> DEFINE s == loops[l]
             t == loops'[l]
             Same == UNCHANGED <<journal, manifest>> /\ task'.cand = task.cand
             Goal == /\ LastLive' /\ LiveState(l)'
                     /\ s.pc = "fail" => UNCHANGED task \/ t.pc # "off" \/ NoneLive'
                     /\ s.pc = "finish" /\ t.pc = "sweep" => s.verdict = "completed" \/ NoneLive'
  <1>0. /\ Newest \in Nat /\ Len(journal') \in Nat /\ Course(s, manifest, task.cand) /\ Ordered
        /\ TaskType /\ manifest.attempt \in 0 .. Newest
    BY DEF TypeInv, Data, JournalType, ManifestType, Newest, CourseInv
  <1>1. Same => LastLive' = LastLive /\ NoneLive' = NoneLive /\ Newest' = Newest
                /\ journal'[Newest'] = journal[Newest]
    BY LiveSame DEF Newest
  <1>2. CASE Onward(s, t, manifest, task.cand) /\ Same /\ (t.pc = "off" => UNCHANGED task)
    <2>1. /\ t.pc \in Between => s.pc \in Between
          /\ t.pc \in Working => s.pc \in Between \/ s.pc \in Working \ {"manifest"}
          /\ t.pc # "manifest" /\ ~(s.pc = "finish" /\ t.pc = "sweep")
          /\ t.pc \in {"submit", "handle"} => s.pc = "submit" /\ t.attempt = s.attempt
      BY <1>0, <1>2 DEF Onward, Between, Working, Held, Course, Kept
    <2> QED
      BY <1>1, <1>2, <2>1 DEF LiveState
  <1>3. ~(budget.outages > 0)
    BY DEF TypeInv, Data, BudgetType
  <1>4. CASE s.pc = "create" /\ t.pc = "manifest" /\ journal' = Inserted(journal, s.cand, s.cand, Created)
    <2>1. journal' # journal
      BY <1>0, <1>4 DEF Inserted, Newest, TypeInv, Data, JournalType
    <2>2. /\ Len(journal') = Newest + 1 /\ OnlyAt(journal, journal', Newest + 1)
          /\ journal'[Newest + 1].cand = task.cand
      BY <1>4, <2>1, FlowWrites
    <2>3. NoneLive
      BY <1>4 DEF LiveState, Between
    <2>4. LastLive'
      BY <1>0, <2>2, <2>3 DEF LastLive, NoneLive, OnlyAt, StateOf, Newest
    <2>5. UNCHANGED task /\ t.attempt = Len(journal')
      BY <1>0, <1>4 DEF Flow, Onward
    <2> QED
      BY <1>0, <1>4, <2>2, <2>4, <2>5 DEF LiveState, Between, Newest
  <1>5. CASE /\ s.pc = "manifest" /\ t.pc = "submit" /\ UNCHANGED <<task, journal>>
             /\ manifest' = [cand |-> s.cand, attempt |-> IF Source = "usenet" THEN s.attempt ELSE 0]
    <2>1. s.attempt = Newest /\ Newest # 0 /\ journal[Newest].cand = task.cand
      BY <1>5 DEF LiveState
    <2>2. manifest'.attempt \in {0, Newest}
      BY <1>5, <2>1
    <2>3. LastLive' = LastLive /\ Newest' = Newest
      BY <1>5, LiveSame
    <2>4. t.attempt = s.attempt
      BY <1>0, <1>5 DEF Flow, Onward, Kept
    <2> QED
      BY <1>5, <2>1, <2>2, <2>3, <2>4 DEF LiveState, Between, Newest
  <1>6. CASE s.pc = "handle" /\ t.pc \in {"open", "fail"} /\ UNCHANGED <<task, manifest>>
    <2>1. CASE journal' = journal
      BY <1>1, <1>6, <2>1 DEF LiveState, Between, Working, Held
    <2>2. CASE journal' # journal
      <3>1. s.attempt = Newest /\ Newest # 0 /\ journal[Newest].cand = task.cand
        BY <1>6 DEF LiveState
      <3>2. /\ Len(journal') = Newest /\ OnlyAt(journal, journal', Newest)
            /\ Extends(journal, journal', task.cand) /\ StateOf(Newest) \in Open
        BY <1>6, <2>2, <3>1, FlowWrites
      <3>3. LastLive' /\ Newest' = Newest
        BY <1>0, <3>2 DEF LastLive, OnlyAt, StateOf, Newest
      <3>4. ~NoneLive /\ journal'[Newest].cand = task.cand
        BY <1>0, <3>1, <3>2 DEF NoneLive, Extends, Newest
      <3> QED
        BY <1>6, <3>3, <3>4 DEF LiveState, Between, Working, Held
    <2> QED
      BY <2>1, <2>2
  <1>7. CASE Same /\ s.pc \in {"import", "publish"} /\ t.pc \in {"publish", "finish", "failover", "off"}
    BY <1>1, <1>7 DEF LiveState, Between, Working, Held
  <1>8. ASSUME NEW x \in Nat, Closed(task.cand, x), s.pc \in {"finish", "schedule", "fail"},
               t.pc \in {"off", "sweep", "link"}
        PROVE  Goal
    <2>1. NoneLive \/ (journal[Newest].cand = task.cand /\ manifest.attempt \in {0, Newest})
      BY <1>8 DEF LiveState, Working, Held
    <2>2. NoneLive'
      BY <1>0, <1>8, <2>1, ClosedNone
    <2> QED
      BY <1>8, <2>2 DEF LiveState, LastLive, NoneLive, Between, Working, Held
  <1>9. CASE s.pc = "finish" /\ t.pc = "sweep" /\ Finalize(s.cand, s.verdict, s.result)
    <2>1. s.verdict = "completed" \/ \E x \in Nat : Closed(task.cand, x)
      BY <1>9, FlowWrites
    <2>2. journal' = journal \/ \E x \in Nat : Closed(task.cand, x)
      BY <1>9, FlowWrites
    <2>3. CASE s.verdict = "completed" /\ journal' = journal
      BY <1>9, <2>3, LiveSame DEF LiveState, Between, Working, Held
    <2> QED
      BY <1>8, <1>9, <2>1, <2>2, <2>3
  <1>10. CASE s.pc = "sweep" /\ t.pc = "off" /\ journal' = journal
    BY <1>10, LiveSame DEF LiveState, Between, Working, Held
  <1>11. CASE s.pc = "schedule" /\ t.pc = "link"
    BY <1>8, <1>11, FlowWrites
  <1>12. CASE s.pc = "link" /\ t.pc = "reset" /\ UNCHANGED <<journal, manifest>>
    <2>1. LastLive' = LastLive /\ NoneLive' = NoneLive
      BY <1>12, LiveSame
    <2> QED
      BY <1>12, <2>1 DEF LiveState, Between, Working, Held
  <1>13. CASE s.pc = "fail" /\ t.pc = "off" /\ FailPreserving
    <2>1. task'.status = "failed"
      BY <1>0, <1>13 DEF FailPreserving, TaskType
    <2>2. \E x \in Nat : Closed(task.cand, x)
      BY <1>13, <2>1, FlowWrites
    <2> QED
      BY <1>8, <1>13, <2>2
  <1>14. s.pc # "lookup"
    BY <1>0 DEF Course
  <1> HIDE DEF s, t, Goal
  <1>15. \/ Onward(s, t, manifest, task.cand) /\ Same /\ (t.pc = "off" => UNCHANGED task)
         \/ s.pc = "create" /\ t.pc = "manifest" /\ journal' = Inserted(journal, s.cand, s.cand, Created)
         \/ /\ s.pc = "manifest" /\ t.pc = "submit" /\ UNCHANGED <<task, journal>>
            /\ manifest' = [cand |-> s.cand, attempt |-> IF Source = "usenet" THEN s.attempt ELSE 0]
         \/ s.pc = "handle" /\ t.pc \in {"open", "fail"} /\ UNCHANGED <<task, manifest>>
         \/ Same /\ s.pc \in {"import", "publish"} /\ t.pc \in {"publish", "finish", "failover", "off"}
         \/ s.pc = "finish" /\ t.pc = "sweep" /\ Finalize(s.cand, s.verdict, s.result)
         \/ s.pc = "sweep" /\ t.pc = "off" /\ journal' = journal
         \/ s.pc = "schedule" /\ t.pc = "link"
         \/ s.pc = "link" /\ t.pc = "reset" /\ UNCHANGED <<journal, manifest>>
         \/ s.pc = "fail" /\ t.pc = "off" /\ FailPreserving
    <2>1. Flow(s, t)
      BY DEF s, t
    <2> QED
      BY <1>3, <1>14, <2>1 DEF Flow
  <1>16. Goal
    BY <1>2, <1>4, <1>5, <1>6, <1>7, <1>9, <1>10, <1>11, <1>12, <1>13, <1>15 DEF Goal, s, t
  <1> QED
    BY <1>16 DEF Goal, s, t

LEMMA LoopLive ==
  ASSUME MaxOutages = 0, TypeInv, TypeInv', LoopsInv, CourseInv, DriveInv, DriveInv', LiveInv,
         NEW l \in Loop, LoopStep(l) \/ PollProgress(l)
  PROVE  LiveInv'
  <1> DEFINE s == loops[l]
             t == loops'[l]
  <1>1. Flow(s, t) /\ Moved(l) /\ Course(s, manifest, task.cand)
    BY LoopFlows, LoopMoves DEF CourseInv
  <1>2. /\ LastLive' /\ LiveState(l)'
        /\ s.pc = "fail" => UNCHANGED task \/ t.pc # "off" \/ NoneLive'
        /\ s.pc = "finish" /\ t.pc = "sweep" => s.verdict = "completed" \/ NoneLive'
    BY <1>1, FlowLive DEF LiveInv
  <1>3. /\ \A m \in Loop \ {l} : loops'[m] = loops[m] /\ loops[m].pc = "off"
        /\ Alive(l) /\ op' = op
    BY <1>1 DEF Moved, LoopsInv, OneLoop, Alive, Surroundings
  <1>4. \A m \in Loop : LiveState(m)'
    BY <1>2, <1>3 DEF LiveState, Between, Working, Held
  <1>5. s.pc = "sweep" => UNCHANGED <<task, journal>>
    BY <1>1 DEF Flow, Onward
  <1>6. CASE s.pc = "sweep"
    <2>1. NoneLive' = NoneLive /\ Newest' = Newest
      BY <1>5, <1>6, LiveSame
    <2> QED
      BY <1>2, <1>3, <1>4, <1>5, <1>6, <2>1 DEF LiveInv, ReimportLive
  <1>7. CASE s.pc # "sweep"
    <2>1. Drives(l)
      BY <1>3, <1>7 DEF Drives
    <2>2. /\ op["reimport"].pc \in {"idle", "sweep"} /\ task.status \notin {"failed", "partial"}
      BY <2>1 DEF DriveInv
    <2>3. t.pc \notin {"off", "sweep"} => task'.status \notin {"failed", "partial"}
      BY DEF DriveInv, Drives, Alive
    <2>4. t.pc = "off" => UNCHANGED task \/ NoneLive'
      BY <1>1, <1>2, <1>7 DEF Flow, Course
    <2>5. t.pc = "sweep" => task'.status = "completed" \/ NoneLive'
      <3>1. t.pc = "sweep" => s.pc = "finish" /\ Finalize(s.cand, s.verdict, s.result)
        BY <1>1, <1>7 DEF Flow, Onward, Course
      <3> QED
        BY <1>2, <3>1 DEF Finalize, TypeInv, Data, TaskType
    <2>6. task'.status \in {"failed", "partial"} => NoneLive'
      BY <2>2, <2>3, <2>4, <2>5
    <2> QED
      BY <1>2, <1>3, <1>4, <2>2, <2>6 DEF LiveInv, ReimportLive
  <1> QED
    BY <1>6, <1>7

LEMMA StillLive ==
  ASSUME TypeInv, LiveInv, Still, \A l \in Loop : Left(l)
  PROVE  LiveInv'
  <1>1. LastLive' = LastLive /\ NoneLive' = NoneLive /\ Newest' = Newest
    BY LiveSame DEF Still
  <1>2. ReimportLive'
    BY <1>1 DEF ReimportLive, LiveInv, Still
  <1>3. ASSUME NEW l \in Loop PROVE LiveState(l)'
    <2>1. LiveState(l) /\ Left(l)
      BY DEF LiveInv
    <2>2. manifest'.attempt \in {manifest.attempt, 0} /\ journal' = journal /\ task'.cand = task.cand
      BY DEF Still, NoManifest
    <2> QED
      BY <1>1, <2>1, <2>2 DEF LiveState, Left, Between, Working, Held
  <1> QED
    BY <1>1, <1>2, <1>3 DEF LiveInv

\* On Usenet the manifest names its attempt, and a cancellation adopts none.
LEMMA AdoptNamed ==
  ASSUME TypeInv, Ordered, CancelReadsBundles, Source = "usenet"
  PROVE  journal' = journal
  <1>1. manifest.attempt \in 0 .. Newest /\ Newest \in Nat
    BY DEF TypeInv, Data, JournalType, ManifestType, Newest
  <1> QED
    BY <1>1 DEF CancelReadsBundles, Adopted, ManifestAttempt, Ordered, Newest

\* A cancellation is alone with the task, or has no attempt to adopt.
AloneOrNamed == Source = "soulseek" => CancelAlone

LEMMA DeedLive ==
  ASSUME TypeInv, TypeInv', CourseInv, DriveInv, AloneOrNamed, AloneOrNamed', LiveInv, Deed
  PROVE  LiveInv'
  <1>0. /\ Newest \in Nat /\ Len(journal') \in Nat /\ Ordered
        /\ (\A l \in Loop : Drives(l) \/ loops[l].pc \in {"off", "sweep"})
        /\ "cancel" \in Handler /\ "reimport" \in Handler /\ "reap" \in Handler /\ TaskType
    BY DEF TypeInv, Data, JournalType, Newest, CourseInv, Drives, Alive, Handler
  <1>a. ASSUME \A l \in Loop : ~Drives(l), UNCHANGED loops
        PROVE  \A l \in Loop : LiveState(l)'
    BY <1>0, <1>a DEF LiveState, Between, Working, Held
  <1>1. CASE CancelReadsBundles
    <2>1. /\ op["cancel"].pc = "bundles" /\ OthersWait("cancel") /\ op'["cancel"].pc = "write"
          /\ UNCHANGED <<loops, task, manifest>>
      BY <1>1, CancelMoves DEF CancelReadsBundles, CancelMoved, OthersWait, OpAt, CancelTask, CancelLocked
    <2>2. op'["reimport"] = op["reimport"]
      BY <1>0, <2>1 DEF OthersWait
    <2>3. CASE journal' = journal
      <3>1. LastLive' = LastLive /\ NoneLive' = NoneLive /\ Newest' = Newest
        BY <2>3, LiveSame
      <3>2. op["cancel"].pc # "write"
        BY <2>1
      <3>3. ReimportLive'
        BY <2>1, <2>2, <3>1, <3>2 DEF LiveInv, ReimportLive
      <3>4. \A l \in Loop : LiveState(l)'
        BY <2>1, <2>3, <3>1 DEF LiveInv, LiveState
      <3> QED
        BY <3>1, <3>3, <3>4 DEF LiveInv
    <2>4. CASE journal' # journal
      <3>1. /\ Source = "soulseek" /\ Live = {}
            /\ Len(journal') = Newest + 1 /\ OnlyAt(journal, journal', Newest + 1)
        BY <1>0, <1>1, <2>4, AdoptLeft, AdoptNamed, SourceAssumption
      <3>2. (\A l \in Loop : ~Drives(l)) /\ op'["reimport"].pc = "idle"
        BY <2>1, <2>2, <3>1 DEF AloneOrNamed, CancelAlone, NobodyAlive, Drives
      <3>3. NoneLive
        BY <3>1, LastIsLive DEF LiveInv
      <3>4. LastLive'
        BY <1>0, <3>1, <3>3 DEF LastLive, NoneLive, OnlyAt, StateOf, Newest
      <3> QED
        BY <1>a, <2>1, <3>1, <3>2, <3>4 DEF LiveInv, ReimportLive
    <2> QED
      BY <2>3, <2>4
  <1>2. CASE CancelWrites
    <2>1. /\ op["cancel"].pc = "write" /\ OthersWait("cancel") /\ UNCHANGED <<loops, manifest>>
          /\ task'.cand = task.cand
      BY <1>0, <1>2, CancelMoves DEF CancelWrites, CancelMoved, OthersWait, OpAt, TaskType
    <2>2. op'["reimport"] = op["reimport"]
      BY <1>0, <2>1 DEF OthersWait
    <2>3. NoneLive' /\ LastLive' /\ Newest' = Newest
      BY <1>2, CancelLeft DEF NoneLive, LastLive, StateOf, Newest
    <2>4. Newest # 0 => journal'[Newest].cand = journal[Newest].cand
      BY <1>0, <1>2, CancelLeft DEF Extends, Newest
    <2>5. \A l \in Loop : LiveState(l)'
      BY <2>1, <2>3, <2>4 DEF LiveInv, LiveState
    <2> QED
      BY <2>2, <2>3, <2>5 DEF LiveInv, ReimportLive
  <1>3. CASE Reimport
    <2>1. /\ Len(journal') \in {Newest, Newest + 1} /\ OnlyAt(journal, journal', Len(journal'))
          /\ op'["reimport"].pc = "status" /\ op'["reimport"].attempt = Len(journal')
          /\ OthersWait("reimport")
      BY <1>0, <1>3, ReimportLeft DEF Extends, Newest
    <2>2. /\ UNCHANGED <<task, loops>> /\ op["reimport"].pc = "idle"
          /\ task.status \in {"failed", "partial"}
      BY <1>3 DEF Reimport, OpAt, ReimportAllowed
    <2>3. ~(Source = "soulseek" /\ op["cancel"].pc = "write")
      BY <1>0, <2>1 DEF AloneOrNamed, CancelAlone, OthersWait
    <2>4. NoneLive /\ \A l \in Loop : ~Drives(l)
      BY <2>2, <2>3 DEF LiveInv, ReimportLive, DriveInv
    <2>5. LastLive'
      BY <1>0, <2>1, <2>4 DEF LastLive, NoneLive, OnlyAt, StateOf, Newest
    <2> QED
      BY <1>a, <2>1, <2>2, <2>4, <2>5 DEF LiveInv, ReimportLive, Newest
  <1>4. CASE Reimporting
    <2> DEFINE n == op["reimport"]
               o == op'["reimport"]
    <2>1. /\ Onwards(n, o) /\ UNCHANGED <<manifest, loops>>
          /\ o.pc # "sweep" => o.attempt = n.attempt
      BY <1>4, ReimportGoes
    <2>2. n.pc \notin {"idle", "sweep"} /\ n.attempt = Newest
      BY <2>1 DEF Onwards, LiveInv, ReimportLive
    <2>3. \A l \in Loop : LiveState(l)'
      BY <1>a, <2>1, <2>2 DEF DriveInv
    <2>4. CASE ReimportPreserves \/ ReimportFinishes
      <3>1. /\ Len(journal') = Newest /\ OnlyAt(journal, journal', Newest)
            /\ ReimportPreserves \/ n.result.disposition # "none"
                 => journal'[Newest].row.state \notin Open
            /\ ReimportFinishes /\ n.result.disposition = "none" => journal' = journal
        BY <2>2, <2>4, HandLeft
      <3>2. o.pc \in {"finish", "sweep"} /\ (ReimportFinishes => n.pc = "finish")
        BY <2>1, <2>4 DEF Onwards, ReimportPreserves, ReimportFinishes, OpAt
      <3>3. NoneLive'
        <4>1. CASE journal'[Newest].row.state \notin Open
          BY <1>0, <3>1, <4>1 DEF LiveInv, LastLive, NoneLive, OnlyAt, StateOf, Newest
        <4>2. CASE ReimportFinishes /\ n.result.disposition = "none"
          BY <3>1, <3>2, <4>2, LiveSame DEF LiveInv, ReimportLive
        <4> QED
          BY <2>4, <3>1, <4>1, <4>2
      <3> QED
        BY <2>1, <2>2, <2>3, <3>1, <3>2, <3>3 DEF LiveInv, LastLive, NoneLive, ReimportLive, Newest
    <2>5. CASE ~ReimportPreserves /\ ~ReimportFinishes
      <3>1. /\ journal' = journal /\ o.pc \in {"import", "publish", "finish", "preserve"}
            /\ o.pc = "finish" => o.result.disposition # "none"
        BY <1>4, <2>1, <2>5 DEF Reimporting, ReimportProcesses, ReimportImports, ReimportPublishes,
           OpAt, Onwards
      <3>2. LastLive' = LastLive /\ Newest' = Newest
        BY <3>1, LiveSame
      <3> QED
        BY <2>1, <2>2, <2>3, <3>1, <3>2 DEF LiveInv, ReimportLive
    <2> QED
      BY <2>4, <2>5
  <1>5. CASE ReapFails
    <2>1. /\ Len(journal') = Newest /\ OnlyAt(journal, journal', LatestOf(Live))
          /\ LatestOf(Live) # 0 => journal'[LatestOf(Live)].row.state \notin Open
      BY <1>0, <1>5, ReapLeft
    <2>2. op["reap"].pc = "judged" /\ OthersWait("reap") /\ UNCHANGED loops
      BY <1>5, ReapMoves DEF ReapFails, ReapMoved, OpAt
    <2>3. \A l \in Loop : ~Drives(l)
      BY <2>2 DEF DriveInv, NobodyAlive, Drives
    <2>4. NoneLive'
      <3>1. CASE NoneLive
        BY <1>0, <2>1, <3>1, LastIsLive DEF NoneLive, LiveInv, OnlyAt, StateOf, Newest
      <3>2. CASE ~NoneLive
        <4>1. LatestOf(Live) = Newest /\ Newest # 0
          BY <3>2, LastIsLive DEF LiveInv
        <4> QED
          BY <1>0, <2>1, <4>1 DEF NoneLive, LiveInv, LastLive, OnlyAt, StateOf, Newest
      <3> QED
        BY <3>1, <3>2
    <2>5. op'["reimport"] = op["reimport"] /\ Newest' = Newest
      BY <1>0, <2>1, <2>2 DEF OthersWait, Newest
    <2> QED
      BY <1>a, <2>2, <2>3, <2>4, <2>5 DEF LiveInv, LastLive, NoneLive, ReimportLive
  <1>6. ASSUME NEW a \in DOMAIN journal, CleanUp(a) PROVE LiveInv'
    <2>1. /\ Extends(journal, journal', task.cand) /\ Len(journal') = Newest
          /\ OnlyAt(journal, journal', a) /\ a \in 1 .. Newest
          /\ StateOf(a) = "cleanup_pending" /\ journal'[a].row.state = "complete"
      BY <1>6, CleanLeft
    <2>2. UNCHANGED <<task, loops, op, manifest>>
      BY <1>6 DEF CleanUp
    <2>3. \A b \in 1 .. Newest : /\ journal'[b].cand = journal[b].cand
                                 /\ journal'[b].row.state \in Open => StateOf(b) \in Open
      BY <2>1 DEF Extends, OnlyAt, StateOf, Newest, Open
    <2>4. (LastLive => LastLive') /\ (NoneLive => NoneLive') /\ Newest' = Newest
      BY <2>1, <2>2, <2>3 DEF LastLive, NoneLive, StateOf, Newest
    <2>5. Newest = 0 => NoneLive'
      BY <2>1 DEF NoneLive, Newest
    <2>6. \A l \in Loop : LiveState(l)'
      BY <1>0, <2>2, <2>3, <2>4, <2>5 DEF LiveInv, LiveState
    <2> QED
      BY <2>2, <2>4, <2>6 DEF LiveInv, ReimportLive
  <1> QED
    BY <1>1, <1>2, <1>3, <1>4, <1>5, <1>6 DEF Deed, Reimporting

LEMMA LiveHolds ==
  ASSUME Unswitched, MaxCrashes = 0, MaxOutages = 0, Stoppable \/ Source = "usenet"
  PROVE  Spec => []LiveInv
  <1>1. Init => LiveInv
    <2> SUFFICES ASSUME Init PROVE LiveInv
      OBVIOUS
    <2>1. journal = <<>> /\ op["reimport"].pc = "idle"
      BY Blanks DEF Init, Handler
    <2>2. NoneLive /\ LastLive
      BY <2>1 DEF NoneLive, LastLive, Newest
    <2>3. \A l \in Loop : loops[l].pc \in {"off", "read"}
      BY DEF Init, Off, Dispatched
    <2> QED
      BY <2>1, <2>2, <2>3 DEF LiveInv, ReimportLive, LiveState
  <1>2. ASSUME TypeInv, LoopsInv, NoSwitch, CourseInv, AloneOrNamed, DriveInv, LiveInv,
               [Next]_vars, NoSwitch', AloneOrNamed', DriveInv'
        PROVE  LiveInv'
    <2>1. TypeInv'
      BY <1>2, StepTypes
    <2>2. CASE \E l \in Loop : LoopStep(l) \/ PollProgress(l)
      BY <1>2, <2>1, <2>2, LoopLive
    <2>3. CASE Still /\ \A l \in Loop : Left(l)
      BY <1>2, <2>3, StillLive
    <2>4. CASE Deed
      BY <1>2, <2>1, <2>4, DeedLive
    <2> QED
      BY <1>2, <2>2, <2>3, <2>4, Deeds
  <1>3. Spec => []AloneOrNamed
    <2>1. CASE Source = "usenet"
      <3>1. AloneOrNamed
        BY <2>1 DEF AloneOrNamed
      <3> QED
        BY <3>1, PTL
    <2>2. CASE Stoppable
      <3>1. CancelAlone => AloneOrNamed
        BY DEF AloneOrNamed
      <3> QED
        BY <2>2, <3>1, AloneHolds, PTL
    <2> QED
      BY <2>1, <2>2
  <1>4. Spec => []NoSwitch /\ []CourseInv
    BY NoSwitchHolds, CourseHolds
  <1>5. Spec => []DriveInv
    BY DrivesHold, PTL
  <1> QED
    BY <1>1, <1>2, <1>3, <1>4, <1>5, TypesHold, LoopsHold, PTL DEF Spec

\* OneLiveAttempt, what _attempt_for_manifest relies on when it takes "the last live one" for a
\* manifest that names none: at most one attempt of a task is acquiring or in use.  In one life
\* of the process and without outages: a candidate that is submitted again after an outage gets
\* a second row beside the first, and a crash leaves the first behind.  On Soulseek also without
\* a settings save together with a cancellation: the cancellation of the new instance does not
\* find the coroutine, and adopts an attempt beside the one that the coroutine inserts.
THEOREM OneAttemptIsLive ==
  ASSUME Unswitched, MaxCrashes = 0, MaxOutages = 0, Stoppable \/ Source = "usenet"
  PROVE  Spec => []OneLiveAttempt
  <1>1. TypeInv /\ LiveInv => OneLiveAttempt
    <2> SUFFICES ASSUME TypeInv, LiveInv, NEW a \in Live, NEW b \in Live PROVE a = b
      BY DEF OneLiveAttempt
    <2>1. Newest \in Nat /\ DOMAIN journal = 1 .. Newest
      BY DEF TypeInv, Data, JournalType, Newest
    <2> QED
      BY <2>1 DEF LiveInv, LastLive, Live, Open
  <1> QED
    BY <1>1, LiveHolds, TypesHold, PTL
================================================================================
