------------------------------ MODULE LiveProofs ------------------------------
(***************************************************************************)
(* Proofs about what lives as long as the process.  LiveReload, for any    *)
(* number of host threads, sections, edits and timeouts, whichever         *)
(* sections fail to build, to validate or to resolve their profile.        *)
(* PromptGuard, for any number of overlapping scans and any waits,         *)
(* cooldowns, cancellations and failures of the load; LlmGuard, for any    *)
(* number of sub-scanners, attempts, worker threads, scans and resets;     *)
(* LlamaFirewall, for any number of scanners that share the standard input *)
(* of the process.                                                         *)
(***************************************************************************)
EXTENDS LiveReload, PromptGuard, LlmGuard, LlamaFirewall, TLAPS

-----------------------------------------------------------------------------
(* LiveReload.                                                             *)

(* What is built, and applied, is never a wiped section. *)
BuildHasSection == \A h \in Hooks : hook[h].pc = "build" => hook[h].section \in Sections

ApplyHasSection ==
  \A t \in Tasks : t[2] = "apply" /\ task[t].st \in {"poll", "hold"} => task[t].section \in Sections

(* A coroutine that has not had the mutex yet has committed nothing. *)
WaitingHasNotBegun == \A t \in Tasks : task[t].st \in {"none", "poll"} => task[t].step = 0

(* What a reload in progress has committed so far is in force. *)
CommittedIsInForce ==
  \A t \in Tasks : Applying(t) =>
    \A j \in 1 .. task[t].step : \A p \in ApplyOrder[j] : applied[p] = task[t].section

(* Outside the commit phase of a reload there is one configuration. *)
Settled == (\A t \in Tasks : Applying(t) => task[t].step = 0) => OneConfig

IInv ==
  /\ TypeOK
  /\ BuildHasSection
  /\ ApplyHasSection
  /\ WaitingHasNotBegun
  /\ MutexAccounted
  /\ CommittedIsInForce
  /\ Settled

-----------------------------------------------------------------------------
(* The order of the commits, spelled out. *)
LEMMA OrderFacts ==
  /\ Len(ApplyOrder) = 5
  /\ ApplyOrder[1] = {"tracker"}
  /\ ApplyOrder[2] = {"audit", "alert", "minimal", "config"}
  /\ ApplyOrder[3] = {"profile"}
  /\ ApplyOrder[4] = {"guard", "tracker"}
  /\ ApplyOrder[5] = {"lineage", "egress", "taint"}
  BY DEF ApplyOrder

LEMMA PartsFacts ==
  /\ \A j \in 1 .. 5 : ApplyOrder[j] \subseteq Parts
  /\ \A p \in Parts : \E j \in 1 .. 5 : p \in ApplyOrder[j]
  <1>1. DOMAIN ApplyOrder = 1 .. 5
    BY DEF ApplyOrder
  <1> QED
    BY <1>1 DEF Parts

(* A hook's coroutines are among the tasks, and none of them is the        *)
(* ingestion worker's.                                                     *)
LEMMA TaskFacts ==
  /\ \A h \in Hooks : <<h, "apply">> \in Tasks /\ <<h, "evaluate">> \in Tasks
  /\ <<Ingest, "ingest">> \in Tasks
  /\ \A t \in Tasks : t[2] = "apply" => t[1] # Ingest
  BY ReloadAssumption DEF Tasks

LEMMA NoTaskType == NoTask \in Task /\ NoTask.st = "none" /\ NoTask.step = 0
  BY OrderFacts DEF NoTask, Task, TaskStates, Contents

(* A step that leaves the coroutines holding the mutex, and what is        *)
(* applied, as they are.                                                   *)
Quiet ==
  /\ UNCHANGED <<applied, locked>>
  /\ \A t \in Tasks :
       /\ task'[t].st = "hold" <=> task[t].st = "hold"
       /\ task[t].st = "hold" => task'[t].section = task[t].section /\ task'[t].step = task[t].step

LEMMA QuietKeeps ==
  ASSUME IInv, Quiet
  PROVE  MutexAccounted' /\ CommittedIsInForce' /\ Settled'
  <1>1. Holders' = Holders
    BY DEF Quiet, Holders
  <1>2. MutexAccounted'
    BY <1>1 DEF IInv, MutexAccounted, Quiet
  <1>3. CommittedIsInForce'
    BY DEF IInv, CommittedIsInForce, Applying, Quiet
  <1>4. Settled'
    BY DEF IInv, Settled, Applying, Quiet, OneConfig, Uniform
  <1> QED
    BY <1>2, <1>3, <1>4

(* The end of a coroutine that holds the mutex leaves nobody holding it. *)
LEMMA FinishFrees ==
  ASSUME IInv, NEW t \in Tasks, NEW st \in {"done", "failed"}, task[t].st = "hold", Finish(t, st)
  PROVE  /\ task' \in [Tasks -> Task]
         /\ locked' = FALSE
         /\ \A u \in Tasks : task'[u].st # "hold"
         /\ \A u \in Tasks : task'[u] \in {NoTask, task[u]} \/ task'[u].st = st
  <1>1. \A u \in Tasks : u # t => task[u].st # "hold" /\ task'[u] = task[u]
    BY DEF IInv, TypeOK, MutexAccounted, Holders, Finish
  <1>2. task[t] \in Task
    BY DEF IInv, TypeOK
  <1>3. [task[t] EXCEPT !.st = st] \in Task /\ [task[t] EXCEPT !.st = st].st = st
    BY <1>2 DEF Task, TaskStates
  <1>4. task'[t] = NoTask \/ task'[t] = [task[t] EXCEPT !.st = st]
    BY DEF IInv, TypeOK, Finish
  <1>5. task'[t] \in Task /\ task'[t].st \notin {"hold", "poll"}
    BY <1>3, <1>4, NoTaskType
  <1>6. task' \in [Tasks -> Task]
    BY <1>5 DEF IInv, TypeOK, Finish
  <1> QED
    BY <1>1, <1>3, <1>4, <1>5, <1>6 DEF Finish

(* ... and keeps the invariant, if what it leaves is one configuration.    *)
LEMMA FinishKeeps ==
  ASSUME IInv, NEW t \in Tasks, NEW st \in {"done", "failed"}, task[t].st = "hold", Finish(t, st),
         OneConfig, UNCHANGED <<file, cache, applied, hook, edits, timeouts>>
  PROVE  IInv'
  <1>1. /\ task' \in [Tasks -> Task]
        /\ locked' = FALSE
        /\ \A u \in Tasks : task'[u].st # "hold"
        /\ \A u \in Tasks : task'[u] \in {NoTask, task[u]} \/ task'[u].st = st
    BY FinishFrees
  <1>2. TypeOK'
    BY <1>1 DEF IInv, TypeOK
  <1>3. BuildHasSection'
    BY DEF IInv, BuildHasSection
  <1>4. ApplyHasSection' /\ WaitingHasNotBegun'
    BY <1>1, NoTaskType DEF IInv, ApplyHasSection, WaitingHasNotBegun
  <1>5. MutexAccounted'
    BY <1>1 DEF MutexAccounted, Holders
  <1>6. CommittedIsInForce'
    BY <1>1 DEF CommittedIsInForce, Applying
  <1>7. Settled'
    BY DEF Settled, OneConfig, Uniform
  <1> QED
    BY <1>2, <1>3, <1>4, <1>5, <1>6, <1>7 DEF IInv

(* The mutex is what lets a scan rely on Settled. *)
LEMMA ScanIsSettled ==
  ASSUME IInv, NEW t \in Tasks, task[t].st = "hold", t[2] = "apply" => task[t].step = 0
  PROVE  OneConfig
  <1>1. \A u \in Tasks : task[u].st = "hold" => u = t
    BY DEF IInv, MutexAccounted, Holders
  <1> QED
    BY <1>1 DEF IInv, Settled, Applying

-----------------------------------------------------------------------------
(* A task that does not hold the mutex is replaced by one that does not    *)
(* either.                                                                 *)
LEMMA ReplaceTask ==
  ASSUME IInv, NEW t \in Tasks, NEW new \in Task, task' = [task EXCEPT ![t] = new],
         task[t].st # "hold", new.st # "hold",
         new.st \in {"none", "poll"} => new.step = 0,
         new.st = "poll" /\ t[2] = "apply" => new.section \in Sections,
         UNCHANGED <<applied, locked>>
  PROVE  task' \in [Tasks -> Task] /\ ApplyHasSection' /\ WaitingHasNotBegun' /\ Quiet
  <1>1. task' \in [Tasks -> Task] /\ task'[t] = new /\ \A u \in Tasks : u # t => task'[u] = task[u]
    BY DEF IInv, TypeOK
  <1>2. ApplyHasSection'
    BY <1>1 DEF IInv, ApplyHasSection
  <1>3. WaitingHasNotBegun'
    BY <1>1 DEF IInv, WaitingHasNotBegun
  <1>4. Quiet
    BY <1>1 DEF Quiet
  <1> QED
    BY <1>1, <1>2, <1>3, <1>4

LEMMA SubmitReplaces ==
  ASSUME IInv, NEW h \in Hooks, NEW kind \in {"apply", "evaluate"}, NEW s \in Contents,
         Submit(h, kind, s), kind = "apply" => s \in Sections, UNCHANGED <<applied, locked>>
  PROVE  task' \in [Tasks -> Task] /\ ApplyHasSection' /\ WaitingHasNotBegun' /\ Quiet
  <1> DEFINE new == [st |-> "poll", section |-> s, step |-> 0, gone |-> FALSE]
  <1>1. new \in Task /\ new.st = "poll" /\ new.step = 0 /\ new.section = s
    BY OrderFacts DEF Task, TaskStates
  <1>2. <<h, kind>> \in Tasks /\ <<h, kind>>[2] = kind
    BY TaskFacts
  <1>3. task' = [task EXCEPT ![<<h, kind>>] = new] /\ task[<<h, kind>>].st # "hold"
    BY DEF Submit
  <1> HIDE DEF new
  <1> QED
    BY <1>1, <1>2, <1>3, ReplaceTask

LEMMA DropReplaces ==
  ASSUME IInv, NEW t \in Tasks, task[t].st # "hold", task' = [task EXCEPT ![t] = NoTask],
         UNCHANGED <<applied, locked>>
  PROVE  task' \in [Tasks -> Task] /\ ApplyHasSection' /\ WaitingHasNotBegun' /\ Quiet
  BY NoTaskType, ReplaceTask

LEMMA AbandonQuiet ==
  ASSUME IInv, NEW t \in Tasks, Abandon(t), UNCHANGED <<applied, locked>>
  PROVE  task' \in [Tasks -> Task] /\ ApplyHasSection' /\ WaitingHasNotBegun' /\ Quiet
  <1> DEFINE left == [task[t] EXCEPT !.gone = TRUE]
  <1>1. task[t] \in Task
    BY DEF IInv, TypeOK
  <1>2. /\ left \in Task /\ left.st = task[t].st
        /\ left.step = task[t].step /\ left.section = task[t].section
    BY <1>1 DEF Task
  <1>3. CASE task[t].st \in {"done", "failed"}
    <2>1. task' = [task EXCEPT ![t] = NoTask]
      BY <1>3 DEF Abandon
    <2> QED
      BY <2>1, <1>3, DropReplaces
  <1>4. CASE task[t].st \notin {"done", "failed"}
    <2>1. task' = [task EXCEPT ![t] = left]
      BY <1>4 DEF Abandon
    <2> HIDE DEF left
    <2>2. task' \in [Tasks -> Task] /\ task'[t] = left /\ \A u \in Tasks : u # t => task'[u] = task[u]
      BY <2>1, <1>2 DEF IInv, TypeOK
    <2>3. ApplyHasSection'
      BY <2>2, <1>2 DEF IInv, ApplyHasSection
    <2>4. WaitingHasNotBegun'
      BY <2>2, <1>2 DEF IInv, WaitingHasNotBegun
    <2>5. Quiet
      BY <2>2, <1>2 DEF Quiet
    <2> QED
      BY <2>2, <2>3, <2>4, <2>5
  <1> QED
    BY <1>3, <1>4

(* The program counter of a thread moves, to anything but building. *)
LEMMA GoKeeps ==
  ASSUME IInv, NEW h \in Hooks, NEW pc \in HookPCs \ {"build"}, Go(h, pc)
  PROVE  hook' \in [Hooks -> Hook] /\ BuildHasSection'
  <1>1. hook \in [Hooks -> Hook] /\ hook[h] \in Hook
    BY DEF IInv, TypeOK
  <1>2. [hook[h] EXCEPT !.pc = pc] \in Hook /\ [hook[h] EXCEPT !.pc = pc].pc = pc
    BY <1>1 DEF Hook
  <1>3. hook' = [hook EXCEPT ![h] = [hook[h] EXCEPT !.pc = pc]]
    BY DEF Go
  <1>4. hook' \in [Hooks -> Hook]
    BY <1>1, <1>2, <1>3
  <1>5. BuildHasSection'
    BY <1>1, <1>2, <1>3 DEF IInv, BuildHasSection
  <1> QED
    BY <1>4, <1>5

LEMMA IdleKeeps ==
  ASSUME IInv, NEW h \in Hooks, hook' = [hook EXCEPT ![h] = NoHook]
  PROVE  hook' \in [Hooks -> Hook] /\ BuildHasSection'
  <1>1. NoHook \in Hook /\ NoHook.pc = "idle"
    BY ReloadAssumption DEF NoHook, Hook, HookPCs, Keys, Contents
  <1> QED
    BY <1>1 DEF IInv, TypeOK, BuildHasSection

(* A step that leaves the tasks alone. *)
LEMMA TasksAlone ==
  ASSUME IInv, UNCHANGED <<applied, locked, task>>
  PROVE  ApplyHasSection' /\ WaitingHasNotBegun' /\ Quiet
  BY DEF IInv, ApplyHasSection, WaitingHasNotBegun, Quiet

(* The invariant from its parts, for a quiet step. *)
LEMMA QuietInv ==
  ASSUME IInv, Quiet, TypeOK', BuildHasSection', ApplyHasSection', WaitingHasNotBegun'
  PROVE  IInv'
  BY QuietKeeps DEF IInv

-----------------------------------------------------------------------------
(* One lemma per group of actions. *)
LEMMA EditKeeps ==
  ASSUME IInv, NEW s \in Contents, Edit(s)
  PROVE  IInv'
  <1>1. ApplyHasSection' /\ WaitingHasNotBegun' /\ Quiet
    BY TasksAlone DEF Edit
  <1>2. edits' \in 0 .. MaxEdits /\ edits' \in Keys
    BY ReloadAssumption DEF IInv, TypeOK, Edit, Keys
  <1>3. file' \in File
    BY <1>2 DEF IInv, TypeOK, Edit, File
  <1>4. TypeOK'
    BY <1>2, <1>3 DEF IInv, TypeOK, Edit
  <1>5. BuildHasSection'
    BY DEF IInv, BuildHasSection, Edit
  <1> QED
    BY <1>1, <1>4, <1>5, QuietInv

LEMMA SlotAgesKeeps ==
  ASSUME IInv, SlotAges
  PROVE  IInv'
  <1>1. ApplyHasSection' /\ WaitingHasNotBegun' /\ Quiet
    BY TasksAlone DEF SlotAges
  <1>2. cache' \in Slot
    BY DEF IInv, TypeOK, SlotAges, Slot
  <1>3. TypeOK'
    BY <1>2 DEF IInv, TypeOK, SlotAges
  <1>4. BuildHasSection'
    BY DEF IInv, BuildHasSection, SlotAges
  <1> QED
    BY <1>1, <1>3, <1>4, QuietInv

LEMMA ReadingKeeps ==
  ASSUME IInv, NEW h \in Hooks,
         BeginCall(h) \/ Stat(h) \/ Read(h) \/ BuildFails(h) \/ Reread(h) \/ Store(h)
  PROVE  IInv'
  <1>1. ApplyHasSection' /\ WaitingHasNotBegun' /\ Quiet
    BY TasksAlone DEF BeginCall, Stat, Read, BuildFails, Reread, Store
  <1>2. hook[h] \in Hook /\ file \in File /\ cache \in Slot
    BY DEF IInv, TypeOK
  <1>3. hook' \in [Hooks -> Hook] /\ BuildHasSection'
    <2>1. CASE BeginCall(h) \/ BuildFails(h) \/ Store(h)
      BY <2>1, GoKeeps DEF BeginCall, BuildFails, Store, HookPCs
    <2>2. CASE Stat(h) \/ Read(h) \/ Reread(h)
      <3>1. /\ \A g \in Hooks : g # h => hook'[g] = hook[g]
            /\ hook' \in [Hooks -> Hook]
            /\ hook'[h].pc = "build" => hook'[h].section \in Sections
        <4>1. CASE Stat(h)
          BY <1>2, <4>1 DEF Stat, Hook, HookPCs, File, IInv, TypeOK
        <4>2. CASE Read(h)
          BY <1>2, <4>2 DEF Read, Hook, HookPCs, File, Contents, IInv, TypeOK
        <4>3. CASE Reread(h)
          BY <1>2, <4>3 DEF Reread, Hook, HookPCs, File, IInv, TypeOK
        <4> QED
          BY <2>2, <4>1, <4>2, <4>3
      <3> QED
        BY <3>1 DEF IInv, BuildHasSection
    <2> QED
      BY <2>1, <2>2
  <1>4. cache' \in Slot
    <2>1. CASE Read(h)
      BY <1>2, <2>1 DEF Read, Slot
    <2>2. CASE Store(h)
      BY <1>2, <2>2 DEF Store, Slot, Hook
    <2> QED
      BY <1>2, <2>1, <2>2 DEF BeginCall, Stat, BuildFails, Reread
  <1>5. TypeOK'
    BY <1>3, <1>4 DEF IInv, TypeOK, BeginCall, Stat, Read, BuildFails, Reread, Store
  <1> QED
    BY <1>1, <1>3, <1>5, QuietInv

LEMMA SubmittingKeeps ==
  ASSUME IInv, NEW h \in Hooks, SubmitApply(h) \/ SubmitEvaluate(h)
  PROVE  IInv'
  <1>1. task' \in [Tasks -> Task] /\ ApplyHasSection' /\ WaitingHasNotBegun' /\ Quiet
    <2>1. CASE SubmitApply(h)
      <3>1. hook[h].section \in Sections
        BY <2>1 DEF SubmitApply, IInv, BuildHasSection
      <3> QED
        BY <2>1, <3>1, SubmitReplaces DEF SubmitApply, Contents
    <2>2. CASE SubmitEvaluate(h)
      BY <2>2, SubmitReplaces DEF SubmitEvaluate, Contents
    <2> QED
      BY <2>1, <2>2
  <1>2. hook' \in [Hooks -> Hook] /\ BuildHasSection'
    BY GoKeeps DEF SubmitApply, SubmitEvaluate, HookPCs
  <1>3. TypeOK'
    BY <1>1, <1>2 DEF IInv, TypeOK, SubmitApply, SubmitEvaluate
  <1> QED
    BY <1>1, <1>2, <1>3, QuietInv

LEMMA ReturningKeeps ==
  ASSUME IInv, NEW h \in Hooks, ApplyReturns(h) \/ EvaluateReturns(h)
  PROVE  IInv'
  <1>1. task' \in [Tasks -> Task] /\ ApplyHasSection' /\ WaitingHasNotBegun' /\ Quiet
    BY DropReplaces, TaskFacts DEF ApplyReturns, EvaluateReturns
  <1>2. hook' \in [Hooks -> Hook] /\ BuildHasSection'
    BY GoKeeps, IdleKeeps DEF ApplyReturns, EvaluateReturns, HookPCs
  <1>3. TypeOK'
    BY <1>1, <1>2 DEF IInv, TypeOK, ApplyReturns, EvaluateReturns
  <1> QED
    BY <1>1, <1>2, <1>3, QuietInv

LEMMA TimingOutKeeps ==
  ASSUME IInv, NEW h \in Hooks, ApplyTimesOut(h) \/ EvaluateTimesOut(h)
  PROVE  IInv'
  <1>1. task' \in [Tasks -> Task] /\ ApplyHasSection' /\ WaitingHasNotBegun' /\ Quiet
    BY AbandonQuiet, TaskFacts DEF ApplyTimesOut, EvaluateTimesOut
  <1>2. hook' \in [Hooks -> Hook] /\ BuildHasSection'
    BY GoKeeps, IdleKeeps DEF ApplyTimesOut, EvaluateTimesOut, HookPCs
  <1>3. timeouts' \in 0 .. MaxTimeouts
    BY ReloadAssumption DEF IInv, TypeOK, ApplyTimesOut, EvaluateTimesOut
  <1>4. TypeOK'
    BY <1>1, <1>2, <1>3 DEF IInv, TypeOK, ApplyTimesOut, EvaluateTimesOut
  <1> QED
    BY <1>1, <1>2, <1>4, QuietInv

LEMMA IngestKeeps ==
  ASSUME IInv, BeginIngest \/ IngestTimesOut
  PROVE  IInv'
  <1> DEFINE t == <<Ingest, "ingest">>
  <1>1. t \in Tasks /\ task[t] \in Task /\ t[2] # "apply"
    BY TaskFacts DEF IInv, TypeOK
  <1>2. task' \in [Tasks -> Task] /\ ApplyHasSection' /\ WaitingHasNotBegun' /\ Quiet
    <2>1. CASE BeginIngest
      <3> DEFINE new == [task[t] EXCEPT !.st = "poll"]
      <3>1. new \in Task /\ new.st = "poll" /\ new.step = task[t].step
        BY <1>1 DEF Task, TaskStates
      <3>2. task' = [task EXCEPT ![t] = new] /\ task[t].st = "none"
        BY <2>1 DEF BeginIngest
      <3>3. task[t].step = 0
        BY <1>1, <3>2 DEF IInv, WaitingHasNotBegun
      <3>4. UNCHANGED <<applied, locked>>
        BY <2>1 DEF BeginIngest
      <3> HIDE DEF new, t
      <3> QED
        BY <1>1, <3>1, <3>2, <3>3, <3>4, ReplaceTask
    <2>2. CASE IngestTimesOut
      BY <1>1, <2>2, DropReplaces DEF IngestTimesOut
    <2> QED
      BY <2>1, <2>2
  <1>3. TypeOK'
    BY <1>2 DEF IInv, TypeOK, BeginIngest, IngestTimesOut
  <1>4. BuildHasSection'
    BY DEF IInv, BuildHasSection, BeginIngest, IngestTimesOut
  <1> QED
    BY <1>2, <1>3, <1>4, QuietInv

LEMMA CancelPollingKeeps ==
  ASSUME IInv, NEW t \in Tasks, CancelPolling(t)
  PROVE  IInv'
  <1>1. task' \in [Tasks -> Task] /\ ApplyHasSection' /\ WaitingHasNotBegun' /\ Quiet
    BY DropReplaces DEF CancelPolling
  <1>2. TypeOK'
    BY <1>1 DEF IInv, TypeOK, CancelPolling
  <1>3. BuildHasSection'
    BY DEF IInv, BuildHasSection, CancelPolling
  <1> QED
    BY <1>1, <1>2, <1>3, QuietInv

(* The mutex is free, so no reload is in progress and none has left the    *)
(* parts apart.                                                            *)
LEMMA AcquireKeeps ==
  ASSUME IInv, NEW t \in Tasks, Acquire(t)
  PROVE  IInv'
  <1> DEFINE new == [task[t] EXCEPT !.st = "hold"]
  <1>1. task[t] \in Task /\ task[t].st = "poll" /\ task[t].step = 0
    BY DEF IInv, TypeOK, WaitingHasNotBegun, Acquire
  <1>2. /\ new \in Task /\ new.st = "hold"
        /\ new.step = 0 /\ new.section = task[t].section
    BY <1>1 DEF Task, TaskStates
  <1>3. task' = [task EXCEPT ![t] = new] /\ locked' = TRUE /\ UNCHANGED <<applied, hook>>
    BY DEF Acquire
  <1> HIDE DEF new
  <1>4. task' \in [Tasks -> Task] /\ task'[t] = new /\ \A u \in Tasks : u # t => task'[u] = task[u]
    BY <1>2, <1>3 DEF IInv, TypeOK
  <1>5. \A u \in Tasks : task[u].st # "hold"
    BY DEF IInv, MutexAccounted, Holders, Acquire
  <1>6. TypeOK'
    BY <1>3, <1>4 DEF IInv, TypeOK, Acquire
  <1>7. BuildHasSection'
    BY <1>3 DEF IInv, BuildHasSection
  <1>8. ApplyHasSection' /\ WaitingHasNotBegun'
    BY <1>1, <1>2, <1>4 DEF IInv, ApplyHasSection, WaitingHasNotBegun
  <1>9. Holders' = {t}
    BY <1>2, <1>4, <1>5 DEF Holders
  <1>10. MutexAccounted'
    BY <1>3, <1>9 DEF MutexAccounted
  <1>11. CommittedIsInForce'
    BY <1>2, <1>4, <1>5 DEF CommittedIsInForce, Applying
  <1>12. OneConfig
    BY <1>5 DEF IInv, Settled, Applying
  <1>13. Settled'
    BY <1>3, <1>12 DEF Settled, OneConfig, Uniform
  <1> QED
    BY <1>6, <1>7, <1>8, <1>10, <1>11, <1>13 DEF IInv

(* A scan, and a reload that fails validation, change no configuration. *)
LEMMA ScanEndsKeeps ==
  ASSUME IInv, NEW t \in Tasks, ScanEnds(t) \/ ValidateFails(t)
  PROVE  IInv'
  <1>1. task[t].st = "hold" /\ (t[2] = "apply" => task[t].step = 0)
    BY DEF ScanEnds, ValidateFails, Applying
  <1>2. OneConfig
    BY <1>1, ScanIsSettled
  <1>3. \E st \in {"done", "failed"} : Finish(t, st)
    BY DEF ScanEnds, ValidateFails
  <1>4. UNCHANGED <<file, cache, applied, hook, edits, timeouts>>
    BY DEF ScanEnds, ValidateFails
  <1> QED
    BY <1>1, <1>2, <1>3, <1>4, FinishKeeps

(* The profile is looked up when the configuration has been swapped. *)
LEMMA ResolveFailsKeeps ==
  ASSUME IInv, NEW t \in Tasks, ResolveFails(t)
  PROVE  IInv'
  <1>1. Applying(t) /\ task[t].section \in UnknownProfile
    BY DEF ResolveFails
  <1>2. task[t].step \in 0 .. 4 /\ "profile" \in ApplyOrder[task[t].step + 1]
    BY OrderFacts DEF ResolveFails, NextParts, IInv, TypeOK, Task
  <1>3. task[t].step = 2
    BY <1>2, OrderFacts
  <1>4. applied["config"] = task[t].section
    BY <1>1, <1>3, OrderFacts DEF IInv, CommittedIsInForce
  <1>5. OneConfig
    BY <1>1, <1>4 DEF OneConfig
  <1> QED
    BY <1>1, <1>5, FinishKeeps DEF ResolveFails, Applying

(* All steps are committed, so every part has the reload's section. *)
LEMMA ApplyEndsKeeps ==
  ASSUME IInv, NEW t \in Tasks, ApplyEnds(t)
  PROVE  IInv'
  <1>1. Applying(t) /\ task[t].step = 5
    BY OrderFacts DEF ApplyEnds
  <1>2. \A j \in 1 .. 5 : \A p \in ApplyOrder[j] : applied[p] = task[t].section
    BY <1>1 DEF IInv, CommittedIsInForce
  <1>3. OneConfig
    BY <1>2, PartsFacts DEF OneConfig, Uniform
  <1> QED
    BY <1>1, <1>3, FinishKeeps DEF ApplyEnds, Applying

LEMMA CommitKeeps ==
  ASSUME IInv, NEW t \in Tasks, Commit(t)
  PROVE  IInv'
  <1> DEFINE new == [task[t] EXCEPT !.step = task[t].step + 1]
             s == task[t].section
             k == task[t].step
  <1>1. task[t] \in Task /\ task[t].st = "hold" /\ t[2] = "apply"
    BY DEF IInv, TypeOK, Commit, Applying
  <1>2. k \in 0 .. 4 /\ s \in Sections
    BY <1>1, OrderFacts DEF Commit, IInv, ApplyHasSection, Task
  <1>3. new \in Task /\ new.st = "hold" /\ new.step = k + 1 /\ new.section = s
    BY <1>1, <1>2, OrderFacts DEF Task
  <1>4. /\ task' = [task EXCEPT ![t] = new] /\ UNCHANGED <<locked, hook>>
        /\ applied' = [p \in Parts |-> IF p \in ApplyOrder[k + 1] THEN s ELSE applied[p]]
    BY DEF Commit, NextParts
  <1> HIDE DEF new
  <1>5. task' \in [Tasks -> Task] /\ task'[t] = new /\ \A u \in Tasks : u # t => task'[u] = task[u]
    BY <1>3, <1>4 DEF IInv, TypeOK
  <1>6. \A u \in Tasks : task[u].st = "hold" => u = t
    BY <1>1 DEF IInv, MutexAccounted, Holders
  <1>7. TypeOK'
    <2>1. applied' \in [Parts -> Sections]
      BY <1>2, <1>4 DEF IInv, TypeOK
    <2> QED
      BY <1>4, <1>5, <2>1 DEF IInv, TypeOK, Commit
  <1>8. BuildHasSection'
    BY <1>4 DEF IInv, BuildHasSection
  <1>9. ApplyHasSection' /\ WaitingHasNotBegun'
    BY <1>2, <1>3, <1>5 DEF IInv, ApplyHasSection, WaitingHasNotBegun
  <1>10. MutexAccounted'
    <2>1. Holders' = Holders
      BY <1>1, <1>3, <1>5 DEF Holders
    <2> QED
      BY <1>4, <2>1 DEF IInv, MutexAccounted
  <1>11. CommittedIsInForce'
    <2> SUFFICES ASSUME NEW u \in Tasks, Applying(u)',
                        NEW j \in 1 .. task'[u].step, NEW p \in ApplyOrder[j]
                 PROVE  applied'[p] = task'[u].section
      BY DEF CommittedIsInForce
    <2>1. u = t
      BY <1>5, <1>6 DEF Applying
    <2>2. j \in 1 .. k + 1 /\ task'[u].section = s
      BY <2>1, <1>3, <1>5
    <2>3. p \in Parts
      BY <1>2, <2>2, PartsFacts
    <2>4. CASE p \in ApplyOrder[k + 1]
      BY <1>4, <2>2, <2>3, <2>4
    <2>5. CASE p \notin ApplyOrder[k + 1]
      <3>1. j \in 1 .. k
        BY <1>2, <2>2, <2>5
      <3>2. applied[p] = s
        BY <1>1, <3>1 DEF IInv, CommittedIsInForce, Applying
      <3> QED
        BY <1>4, <2>2, <2>3, <2>5, <3>2
    <2> QED
      BY <2>4, <2>5
  <1>12. Settled'
    <2>1. Applying(t)' /\ task'[t].step # 0
      BY <1>1, <1>2, <1>3, <1>5 DEF Applying
    <2> QED
      BY <2>1 DEF Settled
  <1> QED
    BY <1>7, <1>8, <1>9, <1>10, <1>11, <1>12 DEF IInv

-----------------------------------------------------------------------------
LEMMA InitIInv == Init => IInv
  <1> SUFFICES ASSUME Init PROVE IInv
    OBVIOUS
  <1>1. \A t \in Tasks : task[t] = NoTask
    BY DEF Init
  <1>2. TypeOK
    <2>1. NoHook \in Hook /\ file \in File /\ cache \in Slot
      BY ReloadAssumption
      DEF Init, NoHook, Hook, HookPCs, Keys, Contents, File, Slot, NoSlot
    <2>2. applied \in [Parts -> Sections] /\ edits \in 0 .. MaxEdits /\ timeouts \in 0 .. MaxTimeouts
      BY ReloadAssumption DEF Init
    <2> QED
      BY <2>1, <2>2, NoTaskType DEF Init, TypeOK
  <1>3. BuildHasSection
    BY DEF Init, BuildHasSection, NoHook
  <1>4. ApplyHasSection /\ WaitingHasNotBegun /\ CommittedIsInForce
    BY <1>1, NoTaskType DEF ApplyHasSection, WaitingHasNotBegun, CommittedIsInForce, Applying
  <1>5. MutexAccounted
    BY <1>1, NoTaskType DEF Init, MutexAccounted, Holders
  <1>6. Settled
    BY DEF Init, Settled, OneConfig, Uniform
  <1> QED
    BY <1>2, <1>3, <1>4, <1>5, <1>6 DEF IInv

LEMMA NextIInv == IInv /\ [Next]_vars => IInv'
  <1> SUFFICES ASSUME IInv, [Next]_vars PROVE IInv'
    OBVIOUS
  <1>1. CASE \E s \in Contents : Edit(s)
    BY <1>1, EditKeeps
  <1>2. CASE SlotAges
    BY <1>2, SlotAgesKeeps
  <1>3. CASE \E h \in Hooks : HookStep(h) \/ ApplyTimesOut(h) \/ EvaluateTimesOut(h)
    BY <1>3, ReadingKeeps, SubmittingKeeps, ReturningKeeps, TimingOutKeeps DEF HookStep
  <1>4. CASE BeginIngest \/ IngestTimesOut
    BY <1>4, IngestKeeps
  <1>5. CASE \E t \in Tasks : Acquire(t) \/ CancelPolling(t) \/ BodyStep(t)
    BY <1>5, AcquireKeeps, CancelPollingKeeps, ScanEndsKeeps, ResolveFailsKeeps, CommitKeeps,
       ApplyEndsKeeps DEF BodyStep
  <1>6. CASE UNCHANGED vars
    <2>1. TypeOK' /\ BuildHasSection'
      BY <1>6 DEF IInv, TypeOK, BuildHasSection, vars
    <2>2. ApplyHasSection' /\ WaitingHasNotBegun' /\ Quiet
      BY <1>6, TasksAlone DEF vars
    <2> QED
      BY <2>1, <2>2, QuietInv
  <1> QED
    BY <1>1, <1>2, <1>3, <1>4, <1>5, <1>6 DEF Next

LEMMA IInvHolds == Spec => []IInv
  BY InitIInv, NextIInv, PTL DEF Spec

(* Threads, reader, coroutines and parts keep the shape of their objects;  *)
(* in particular no part is ever configured from a wiped section.          *)
THEOREM TypeCorrect == Spec => []TypeOK
  <1>1. IInv => TypeOK
    BY DEF IInv
  <1> QED
    BY <1>1, IInvHolds, PTL

(* However many threads time out while their coroutines poll for the       *)
(* inspect mutex, hold it or have finished, it is neither leaked nor       *)
(* released on another's behalf.                                           *)
THEOREM MutexIsAccounted == Spec => []MutexAccounted
  <1>1. IInv => MutexAccounted
    BY DEF IInv
  <1> QED
    BY <1>1, IInvHolds, PTL

(* No scan, on either loop, sees a reload half done.                       *)
THEOREM ScansSeeOneConfig == Spec => []ScanSeesOneConfig
  <1>1. IInv => ScanSeesOneConfig
    BY ScanIsSettled DEF ScanSeesOneConfig, Holders
  <1> QED
    BY <1>1, IInvHolds, PTL

(* _apply_reconfigure(): when every profile_name resolves there is indeed  *)
(* no partial apply, since the rest of phase 2 cannot fail.                *)
THEOREM NoPartialApplyIfProfilesResolve ==
  ASSUME UnknownProfile = {}
  PROVE  Spec => []NoPartialApply
  <1>1. IInv => NoPartialApply
    BY DEF IInv, Settled, NoPartialApply, OneConfig
  <1> QED
    BY <1>1, IInvHolds, PTL

-----------------------------------------------------------------------------
(* PromptGuard.                                                            *)

PromptThread == [at : {"idle", "queued", "ensuring", "loading", "waiting", "scoring", "ended"},
           blank : BOOLEAN, left : Nat, result : Results \cup {None}]

PromptTypeOK ==
  /\ host \in [packages : BOOLEAN, complete : BOOLEAN, download : BOOLEAN]
  /\ model \in BOOLEAN
  /\ failure \in Cooldown \cup {None}
  /\ loader \in PromptScans \cup {None} /\ scorer \in PromptScans \cup {None}
  /\ thread \in [PromptScans -> PromptThread]
  /\ answer \in [PromptScans -> Answers \cup {None}]
  /\ failed \in Failed \cup {None}

(* The locks are held by the threads that are inside them, and no thread   *)
(* ends without a result unless it had nothing to score.                   *)
ThreadsHonest ==
  \A s \in PromptScans :
    /\ thread[s].at = "loading" <=> loader = s
    /\ thread[s].at = "scoring" <=> scorer = s
    /\ answer[s] \notin {None, "cancelled"} => thread[s].at = "idle"
    /\ thread[s].at = "ended" /\ thread[s].result = None => thread[s].blank \/ answer[s] # None

(* What is left of the cooldown runs against the age of the failure.       *)
CooldownKept ==
  /\ failed = None <=> failure = None
  /\ failed # None => /\ failure.final = failed.final
                      /\ failure.left + failed.ago >= RetryTicks

PromptIInv == PromptTypeOK /\ ThreadsHonest /\ CleanIsScored /\ CooldownKept

-----------------------------------------------------------------------------
LEMMA PromptInitIInv == PromptInit => PromptIInv
  <1> SUFFICES ASSUME PromptInit PROVE PromptIInv
    OBVIOUS
  <1>1. thread \in [PromptScans -> PromptThread] /\ \A s \in PromptScans : thread[s].at = "idle"
    BY DEF PromptInit, IdleThread, PromptThread
  <1>2. answer \in [PromptScans -> Answers \cup {None}] /\ \A s \in PromptScans : answer[s] = None
    BY DEF PromptInit
  <1>3. PromptTypeOK
    BY <1>1, <1>2 DEF PromptInit, PromptTypeOK
  <1>4. ThreadsHonest /\ CleanIsScored
    BY <1>1, <1>2, PromptGuardAssumption DEF PromptInit, ThreadsHonest, CleanIsScored, Answers
  <1> QED
    BY <1>3, <1>4 DEF PromptInit, PromptIInv, CooldownKept

(* What a step does to the thread of one scan and to nothing else. *)
LEMMA GotoKeeps ==
  ASSUME NEW s \in PromptScans, PromptTypeOK, NEW place, Goto(s, place),
         place \in {"idle", "queued", "ensuring", "loading", "waiting", "scoring", "ended"}
  PROVE  /\ thread' \in [PromptScans -> PromptThread]
         /\ \A r \in PromptScans \ {s} : thread'[r] = thread[r]
         /\ thread'[s].at = place /\ thread'[s].blank = thread[s].blank
         /\ thread'[s].result = thread[s].result
  BY DEF Goto, PromptTypeOK, PromptThread

LEMMA EndsKeeps ==
  ASSUME NEW s \in PromptScans, PromptTypeOK, NEW result \in Results \cup {None}, Ends(s, result)
  PROVE  /\ thread' \in [PromptScans -> PromptThread]
         /\ \A r \in PromptScans \ {s} : thread'[r] = thread[r]
         /\ thread'[s].at = "ended" /\ thread'[s].blank = thread[s].blank
         /\ thread'[s].result = result
  BY DEF Ends, PromptTypeOK, PromptThread

LEMMA QueuesKeeps ==
  ASSUME NEW s \in PromptScans, PromptTypeOK, Queues(s)
  PROVE  /\ thread' \in [PromptScans -> PromptThread]
         /\ \A r \in PromptScans \ {s} : thread'[r] = thread[r]
         /\ thread'[s].at = "waiting" /\ thread'[s].blank = thread[s].blank
         /\ thread'[s].result = thread[s].result
  <1>1. WaitTicks \in Nat
    BY PromptGuardAssumption
  <1>2. thread[s] \in PromptThread
    BY DEF PromptTypeOK
  <1>3. [thread[s] EXCEPT !.at = "waiting", !.left = WaitTicks] \in PromptThread
    BY <1>1, <1>2 DEF PromptThread
  <1>4. thread' = [thread EXCEPT ![s] = [thread[s] EXCEPT !.at = "waiting", !.left = WaitTicks]]
    BY DEF Queues, PromptTypeOK
  <1> QED
    BY <1>2, <1>3, <1>4 DEF PromptTypeOK, PromptThread

(* The coroutine of a scan. *)
LEMMA CoroutineKeeps ==
  ASSUME PromptIInv, NEW s \in PromptScans,
         Return(s) \/ Cancel(s) \/ \E blank \in BOOLEAN : Call(s, blank)
  PROVE  PromptIInv'
  <1> USE PromptGuardAssumption
  <1>1. ASSUME NEW blank \in BOOLEAN, Call(s, blank) PROVE PromptIInv'
    <2>1. /\ thread' \in [PromptScans -> PromptThread] /\ answer' \in [PromptScans -> Answers \cup {None}]
          /\ \A r \in PromptScans \ {s} : thread'[r] = thread[r] /\ answer'[r] = answer[r]
          /\ thread'[s].at = "queued" /\ answer'[s] = None
      BY <1>1 DEF Call, IdleThread, PromptIInv, PromptTypeOK, PromptThread
    <2>2. thread[s].at = "idle" /\ UNCHANGED <<host, model, failure, loader, scorer, failed>>
      BY <1>1 DEF Call
    <2>3. PromptTypeOK'
      BY <2>1, <2>2 DEF PromptIInv, PromptTypeOK
    <2>4. ThreadsHonest' /\ CleanIsScored'
      BY <2>1, <2>2 DEF PromptIInv, ThreadsHonest, CleanIsScored, Answers
    <2> QED
      BY <2>2, <2>3, <2>4 DEF PromptIInv, CooldownKept
  <1>2. CASE Cancel(s)
    <2>1. /\ answer' \in [PromptScans -> Answers \cup {None}]
          /\ \A r \in PromptScans \ {s} : answer'[r] = answer[r]
          /\ answer'[s] = "cancelled"
      BY <1>2 DEF Cancel, PromptIInv, PromptTypeOK, Answers
    <2>2. UNCHANGED <<host, model, failure, loader, scorer, thread, failed>>
      BY <1>2 DEF Cancel
    <2>3. PromptTypeOK'
      BY <2>1, <2>2 DEF PromptIInv, PromptTypeOK
    <2>4. ThreadsHonest' /\ CleanIsScored'
      BY <2>1, <2>2 DEF PromptIInv, ThreadsHonest, CleanIsScored, Answers
    <2> QED
      BY <2>2, <2>3, <2>4 DEF PromptIInv, CooldownKept
  <1>3. CASE Return(s)
    <2>1. /\ thread' \in [PromptScans -> PromptThread]
          /\ \A r \in PromptScans \ {s} : thread'[r] = thread[r]
          /\ thread'[s].at = "idle" /\ thread'[s].blank = thread[s].blank
          /\ thread'[s].result = thread[s].result
      BY <1>3 DEF Return, PromptIInv, PromptTypeOK, PromptThread
    <2>2. thread[s].result \in Results \cup {None}
      BY DEF PromptIInv, PromptTypeOK, PromptThread
    <2>3. Verdict(thread[s].result) \in Answers
      BY <2>2 DEF Verdict, Results, Answers
    <2>4. /\ answer' \in [PromptScans -> Answers \cup {None}]
          /\ \A r \in PromptScans \ {s} : answer'[r] = answer[r]
          /\ answer'[s] = IF answer[s] = None THEN Verdict(thread[s].result) ELSE answer[s]
      BY <1>3, <2>3 DEF Return, PromptIInv, PromptTypeOK
    <2>5. thread[s].at = "ended" /\ UNCHANGED <<host, model, failure, loader, scorer, failed>>
      BY <1>3 DEF Return
    <2>6. answer'[s] = "clean" => thread'[s].blank \/ thread'[s].result = "scored"
      <3>1. CASE answer[s] = None
        <4>1. CASE thread[s].result = None
          BY <2>1, <2>5, <3>1, <4>1 DEF PromptIInv, ThreadsHonest
        <4>2. CASE thread[s].result # None
          BY <2>1, <2>2, <2>4, <3>1, <4>2 DEF Verdict, Results
        <4> QED
          BY <4>1, <4>2
      <3>2. CASE answer[s] # None
        BY <2>1, <2>4, <3>2 DEF PromptIInv, CleanIsScored
      <3> QED
        BY <3>1, <3>2
    <2>7. ThreadsHonest' /\ CleanIsScored'
      BY <2>1, <2>4, <2>5, <2>6 DEF PromptIInv, ThreadsHonest, CleanIsScored
    <2> QED
      BY <2>1, <2>4, <2>5, <2>7 DEF PromptIInv, PromptTypeOK, CooldownKept
  <1> QED
    BY <1>1, <1>2, <1>3

(* A step of a thread to a place outside both locks that leaves the rest   *)
(* alone.                                                                  *)
LEMMA MoveKeeps ==
  ASSUME PromptIInv, NEW s \in PromptScans,
         thread' \in [PromptScans -> PromptThread],
         \A r \in PromptScans \ {s} : thread'[r] = thread[r],
         thread'[s].at \in {"ensuring", "waiting", "ended"},
         thread[s].at \in {"queued", "ensuring", "waiting"},
         thread'[s].at = "ended" /\ thread'[s].result = None => thread'[s].blank \/ answer[s] # None,
         thread'[s].blank = thread[s].blank,
         UNCHANGED <<host, model, failure, loader, scorer, answer, failed>>
  PROVE  PromptIInv'
  <1>1. PromptTypeOK'
    BY DEF PromptIInv, PromptTypeOK
  <1>2. answer[s] \in {None, "cancelled"}
    BY DEF PromptIInv, ThreadsHonest
  <1>3. ThreadsHonest'
    BY <1>2 DEF PromptIInv, ThreadsHonest
  <1>4. answer[s] # "clean"
    BY <1>2, PromptGuardAssumption DEF Answers
  <1>5. CleanIsScored'
    BY <1>4 DEF PromptIInv, CleanIsScored
  <1>6. CooldownKept'
    BY DEF PromptIInv, CooldownKept
  <1> QED
    BY <1>1, <1>3, <1>5, <1>6 DEF PromptIInv

(* A thread before, between and after the locks.                           *)
LEMMA WalkKeeps ==
  ASSUME PromptIInv, NEW s \in PromptScans,
         Begin(s) \/ EnsureLoaded(s) \/ EnsureWarmingUp(s) \/ AbandonScan(s) \/ GiveUp(s)
  PROVE  PromptIInv'
  <1> PromptTypeOK
    BY DEF PromptIInv
  <1>1. CASE Begin(s)
    <2>1. thread[s].at = "queued" /\ UNCHANGED <<host, model, failure, loader, scorer, answer, failed>>
      BY <1>1 DEF Begin
    <2>2. CASE (Cancelled(s) \/ thread[s].blank) /\ Ends(s, None)
      BY <2>1, <2>2, EndsKeeps, MoveKeeps DEF Cancelled
    <2>3. CASE Goto(s, "ensuring")
      BY <2>1, <2>3, GotoKeeps, MoveKeeps
    <2>4. CASE Ends(s, "error")
      <3>1. "error" \in Results /\ None # "error"
        BY PromptGuardAssumption DEF Results
      <3> QED
        BY <2>1, <2>4, <3>1, EndsKeeps, MoveKeeps
    <2> QED
      BY <1>1, <2>2, <2>3, <2>4 DEF Begin
  <1>2. CASE EnsureLoaded(s)
    BY <1>2, QueuesKeeps, MoveKeeps DEF EnsureLoaded
  <1>3. CASE EnsureWarmingUp(s)
    <2>1. "error" \in Results /\ None # "error"
      BY PromptGuardAssumption DEF Results
    <2> QED
      BY <1>3, <2>1, EndsKeeps, MoveKeeps DEF EnsureWarmingUp
  <1>4. CASE AbandonScan(s)
    BY <1>4, EndsKeeps, MoveKeeps DEF AbandonScan, Cancelled
  <1>5. CASE GiveUp(s)
    <2>1. "timeout" \in Results /\ None # "timeout"
      BY PromptGuardAssumption DEF Results
    <2> QED
      BY <1>5, <2>1, EndsKeeps, MoveKeeps DEF GiveUp
  <1> QED
    BY <1>1, <1>2, <1>3, <1>4, <1>5

(* A thread that is given one of the two locks, or gives it back.          *)
LEMMA LockKeeps ==
  ASSUME PromptIInv, NEW s \in PromptScans,
         thread' \in [PromptScans -> PromptThread],
         \A r \in PromptScans \ {s} : thread'[r] = thread[r],
         thread[s].at \in {"ensuring", "waiting", "loading", "scoring"},
         thread'[s].at \in {"loading", "scoring", "waiting", "ended"},
         thread'[s].at = "ended" => thread'[s].result # None,
         loader' = (IF thread'[s].at = "loading" THEN s ELSE IF loader = s THEN None ELSE loader),
         scorer' = (IF thread'[s].at = "scoring" THEN s ELSE IF scorer = s THEN None ELSE scorer),
         thread'[s].at = "loading" => loader = None,
         thread'[s].at = "scoring" => scorer = None,
         UNCHANGED answer
  PROVE  ThreadsHonest' /\ CleanIsScored'
  <1>1. None \notin PromptScans
    BY PromptGuardAssumption
  <1>2. answer[s] \in {None, "cancelled"}
    BY DEF PromptIInv, ThreadsHonest
  <1>3. answer[s] # "clean"
    BY <1>2, PromptGuardAssumption DEF Answers
  <1>4. ThreadsHonest'
    BY <1>1, <1>2 DEF PromptIInv, ThreadsHonest
  <1>5. CleanIsScored'
    BY <1>3 DEF PromptIInv, CleanIsScored
  <1> QED
    BY <1>4, <1>5

LEMMA EnsureLocksKeeps ==
  ASSUME PromptIInv, NEW s \in PromptScans, EnsureLocks(s)
  PROVE  PromptIInv'
  <1> PromptTypeOK
    BY DEF PromptIInv
  <1>1. CASE Goto(s, "loading") /\ loader' = s
    <2>1. thread[s].at = "ensuring" /\ loader = None
          /\ UNCHANGED <<host, model, failure, scorer, answer, failed>>
      BY DEF EnsureLocks
    <2>2. /\ thread' \in [PromptScans -> PromptThread]
          /\ \A r \in PromptScans \ {s} : thread'[r] = thread[r]
          /\ thread'[s].at = "loading"
      BY <1>1, GotoKeeps
    <2>3. scorer # s
      BY <2>1 DEF PromptIInv, ThreadsHonest
    <2>4. ThreadsHonest' /\ CleanIsScored'
      BY <1>1, <2>1, <2>2, <2>3, LockKeeps
    <2>5. PromptTypeOK'
      BY <1>1, <2>1, <2>2 DEF PromptTypeOK
    <2> QED
      BY <2>1, <2>4, <2>5 DEF PromptIInv, CooldownKept
  <1>2. CASE Ends(s, "error") /\ UNCHANGED loader
    <2>1. "error" \in Results /\ None # "error"
      BY PromptGuardAssumption DEF Results
    <2> QED
      BY <1>2, <2>1, EndsKeeps, MoveKeeps DEF EnsureLocks
  <1> QED
    BY <1>1, <1>2 DEF EnsureLocks

LEMMA PromptLoadKeeps ==
  ASSUME PromptIInv, NEW s \in PromptScans, Load(s)
  PROVE  PromptIInv'
  <1> PromptTypeOK
    BY DEF PromptIInv
  <1>1. /\ thread[s].at = "loading" /\ loader' = None /\ Queues(s)
        /\ model' = TRUE /\ failure' = None /\ failed' = None
        /\ host' = [host EXCEPT !.complete = TRUE] /\ UNCHANGED <<scorer, answer>>
    BY DEF Load
  <1>2. loader = s /\ scorer # s
    BY <1>1 DEF PromptIInv, ThreadsHonest
  <1>3. /\ thread' \in [PromptScans -> PromptThread]
        /\ \A r \in PromptScans \ {s} : thread'[r] = thread[r]
        /\ thread'[s].at = "waiting"
    BY <1>1, QueuesKeeps
  <1>4. ThreadsHonest' /\ CleanIsScored'
    BY <1>1, <1>2, <1>3, LockKeeps
  <1>5. PromptTypeOK'
    BY <1>1, <1>3 DEF PromptTypeOK
  <1> QED
    BY <1>1, <1>4, <1>5 DEF PromptIInv, CooldownKept

LEMMA LoadFailsKeeps ==
  ASSUME PromptIInv, NEW s \in PromptScans, NEW transient \in BOOLEAN,
         LoadFails(s, transient)
  PROVE  PromptIInv'
  <1> PromptTypeOK
    BY DEF PromptIInv
  <1>1. /\ thread[s].at = "loading" /\ loader' = None /\ Ends(s, "error")
        /\ failure' = [final |-> ~transient, left |-> RetryTicks]
        /\ failed' = [final |-> ~transient, ago |-> 0]
        /\ UNCHANGED <<host, model, scorer, answer>>
    BY DEF LoadFails
  <1>2. loader = s /\ scorer # s
    BY <1>1 DEF PromptIInv, ThreadsHonest
  <1>3. "error" \in Results /\ None # "error"
    BY PromptGuardAssumption DEF Results
  <1>4. /\ thread' \in [PromptScans -> PromptThread]
        /\ \A r \in PromptScans \ {s} : thread'[r] = thread[r]
        /\ thread'[s].at = "ended" /\ thread'[s].result = "error"
    BY <1>1, <1>3, EndsKeeps
  <1>5. ThreadsHonest' /\ CleanIsScored'
    BY <1>1, <1>2, <1>3, <1>4, LockKeeps
  <1>6. failure' \in Cooldown /\ failed' \in Failed
    BY <1>1, PromptGuardAssumption DEF Cooldown, Failed
  <1>7. PromptTypeOK'
    BY <1>1, <1>4, <1>6 DEF PromptTypeOK
  <1>8. CooldownKept'
    BY <1>1, <1>6, PromptGuardAssumption DEF CooldownKept
  <1> QED
    BY <1>5, <1>7, <1>8 DEF PromptIInv

LEMMA InferenceKeeps ==
  ASSUME PromptIInv, NEW s \in PromptScans, Score(s) \/ Scored(s)
  PROVE  PromptIInv'
  <1> PromptTypeOK
    BY DEF PromptIInv
  <1>0. UNCHANGED <<host, model, failure, loader, answer, failed>>
    BY DEF Score, Scored
  <1>1. CASE Score(s)
    <2>1. thread[s].at = "waiting" /\ scorer = None /\ scorer' = s
      BY <1>1 DEF Score
    <2>2. /\ thread' \in [PromptScans -> PromptThread]
          /\ \A r \in PromptScans \ {s} : thread'[r] = thread[r]
          /\ thread'[s].at = "scoring"
      BY <1>1, GotoKeeps DEF Score
    <2>3. loader # s
      BY <2>1 DEF PromptIInv, ThreadsHonest
    <2>4. ThreadsHonest' /\ CleanIsScored'
      BY <1>0, <2>1, <2>2, <2>3, LockKeeps
    <2>5. PromptTypeOK'
      BY <1>0, <2>1, <2>2 DEF PromptTypeOK
    <2> QED
      BY <1>0, <2>4, <2>5 DEF PromptIInv, CooldownKept
  <1>2. CASE Scored(s)
    <2>1. thread[s].at = "scoring" /\ scorer' = None
      BY <1>2 DEF Scored
    <2>2. PICK result \in {"hit", "scored", "nonfinite", "error"} : Ends(s, result)
      BY <1>2 DEF Scored
    <2>3. result \in Results /\ result # None
      BY PromptGuardAssumption DEF Results
    <2>4. /\ thread' \in [PromptScans -> PromptThread]
          /\ \A r \in PromptScans \ {s} : thread'[r] = thread[r]
          /\ thread'[s].at = "ended" /\ thread'[s].result # None
      BY <2>2, <2>3, EndsKeeps
    <2>5. scorer = s /\ loader # s
      BY <2>1 DEF PromptIInv, ThreadsHonest
    <2>6. ThreadsHonest' /\ CleanIsScored'
      BY <1>0, <2>1, <2>4, <2>5, LockKeeps
    <2>7. PromptTypeOK'
      BY <1>0, <2>1, <2>4 DEF PromptTypeOK
    <2> QED
      BY <1>0, <2>6, <2>7 DEF PromptIInv, CooldownKept
  <1> QED
    BY <1>1, <1>2

(* Time passes, or the operator changes the host.                          *)
LEMMA TickKeeps ==
  ASSUME PromptIInv, Tick
  PROVE  PromptIInv'
  <1> PromptTypeOK
    BY DEF PromptIInv
  <1>1. UNCHANGED <<host, model, loader, scorer, answer>>
    BY DEF Tick
  <1>2. \A s \in PromptScans : Less(thread[s].left) \in Nat
    BY DEF Less, PromptTypeOK, PromptThread
  <1>3. /\ thread' \in [PromptScans -> PromptThread]
        /\ \A s \in PromptScans : /\ thread'[s].at = thread[s].at /\ thread'[s].blank = thread[s].blank
                             /\ thread'[s].result = thread[s].result
    <2>1. \A s \in PromptScans : [thread[s] EXCEPT !.left = Less(thread[s].left)] \in PromptThread
      BY <1>2 DEF PromptTypeOK, PromptThread
    <2>2. thread' = [s \in PromptScans |-> [thread[s] EXCEPT !.left = Less(thread[s].left)]]
      BY DEF Tick
    <2> QED
      BY <2>1, <2>2 DEF PromptTypeOK, PromptThread
  <1>4. ThreadsHonest' /\ CleanIsScored'
    BY <1>1, <1>3 DEF PromptIInv, ThreadsHonest, CleanIsScored
  <1>5. CASE failure = None
    <2>1. failed = None /\ UNCHANGED <<failure, failed>>
      BY <1>5 DEF Tick, PromptIInv, CooldownKept
    <2> QED
      BY <1>1, <1>3, <1>4, <2>1 DEF PromptIInv, PromptTypeOK, CooldownKept
  <1>6. CASE failure # None
    <2>1. /\ failure \in Cooldown /\ failed \in Failed /\ failed # None
          /\ failure.final = failed.final /\ failure.left + failed.ago >= RetryTicks
      BY <1>6 DEF PromptIInv, PromptTypeOK, CooldownKept
    <2>2. failure' = [failure EXCEPT !.left = Less(failure.left)]
      BY <1>6 DEF Tick
    <2>3. failed' = IF failed.ago < RetryTicks THEN [failed EXCEPT !.ago = failed.ago + 1] ELSE failed
      BY <2>1 DEF Tick
    <2>4. /\ failure' \in Cooldown /\ failed' \in Failed
          /\ failure'.final = failure.final /\ failed'.final = failed.final
      BY <2>1, <2>2, <2>3 DEF Cooldown, Failed, Less
    <2>5. /\ failure'.left = IF failure.left > 0 THEN failure.left - 1 ELSE 0
          /\ failed'.ago = IF failed.ago < RetryTicks THEN failed.ago + 1 ELSE failed.ago
      BY <2>1, <2>2, <2>3 DEF Cooldown, Failed, Less
    <2>6. failure.left \in Nat /\ failed.ago \in Nat /\ RetryTicks \in Nat
      BY <2>1, PromptGuardAssumption DEF Cooldown, Failed
    <2>7. failure'.left + failed'.ago >= RetryTicks
      BY <2>1, <2>5, <2>6
    <2>8. failure' # None /\ failed' # None
      BY <2>4, PromptGuardAssumption
    <2>9. PromptTypeOK'
      BY <1>1, <1>3, <2>4 DEF PromptTypeOK
    <2>10. CooldownKept'
      BY <2>1, <2>4, <2>7, <2>8 DEF CooldownKept
    <2> QED
      BY <1>4, <2>9, <2>10 DEF PromptIInv
  <1> QED
    BY <1>5, <1>6

LEMMA ProvisionKeeps ==
  ASSUME PromptIInv, Provision \/ UNCHANGED promptVars
  PROVE  PromptIInv'
  <1>1. UNCHANGED <<model, failure, loader, scorer, thread, answer, failed>>
    BY DEF Provision, promptVars
  <1>2. host' \in [packages : BOOLEAN, complete : BOOLEAN, download : BOOLEAN]
    BY DEF Provision, promptVars, PromptIInv, PromptTypeOK
  <1> QED
    BY <1>1, <1>2 DEF PromptIInv, PromptTypeOK, ThreadsHonest, CleanIsScored, CooldownKept

LEMMA PromptNextKeeps == ASSUME PromptIInv, [PromptNext]_promptVars PROVE PromptIInv'
  <1>1. CASE Provision \/ UNCHANGED promptVars
    BY <1>1, ProvisionKeeps
  <1>2. CASE Tick
    BY <1>2, TickKeeps
  <1>3. ASSUME NEW s \in PromptScans,
               \/ \E blank \in BOOLEAN : Call(s, blank)
               \/ Cancel(s) \/ Runs(s) \/ Load(s) \/ Scored(s)
               \/ \E transient \in BOOLEAN : LoadFails(s, transient)
        PROVE  PromptIInv'
    <2>1. CASE Cancel(s) \/ Return(s) \/ \E blank \in BOOLEAN : Call(s, blank)
      BY <2>1, CoroutineKeeps
    <2>2. CASE Begin(s) \/ EnsureLoaded(s) \/ EnsureWarmingUp(s) \/ AbandonScan(s) \/ GiveUp(s)
      BY <2>2, WalkKeeps
    <2>3. CASE EnsureLocks(s)
      BY <2>3, EnsureLocksKeeps
    <2>4. CASE Load(s)
      BY <2>4, PromptLoadKeeps
    <2>5. CASE \E transient \in BOOLEAN : LoadFails(s, transient)
      BY <2>5, LoadFailsKeeps
    <2>6. CASE Score(s) \/ Scored(s)
      BY <2>6, InferenceKeeps
    <2> QED
      BY <1>3, <2>1, <2>2, <2>3, <2>4, <2>5, <2>6 DEF Runs
  <1> QED
    BY <1>1, <1>2, <1>3 DEF PromptNext

LEMMA PromptInductive == PromptSpec => []PromptIInv
  <1>1. PromptInit => PromptIInv
    BY PromptInitIInv
  <1>2. PromptIInv /\ [PromptNext]_promptVars => PromptIInv'
    BY PromptNextKeeps
  <1> QED
    BY <1>1, <1>2, PTL DEF PromptSpec

(* A scan that its caller takes for clean was scored, or had no text,      *)
(* whichever scans load, wait, give up or are cancelled around it          *)
(* (prompt_guard.py:351-391).                                              *)
THEOREM CleanMeansScored == PromptSpec => []CleanIsScored
  <1>1. PromptIInv => CleanIsScored
    BY DEF PromptIInv
  <1> QED
    BY <1>1, PromptInductive, PTL

-----------------------------------------------------------------------------
(* A step takes a thread to the load only where EnsureLocks does.          *)
LEMMA LoadBegins ==
  ASSUME PromptIInv, [PromptNext]_promptVars, NEW s \in PromptScans,
         thread[s].at # "loading", thread'[s].at = "loading"
  PROVE  EnsureLocks(s)
  <1> PromptTypeOK
    BY DEF PromptIInv
  <1>1. CASE Tick \/ Provision \/ UNCHANGED promptVars
    BY <1>1 DEF Tick, Provision, promptVars, PromptTypeOK, PromptThread
  <1>2. ASSUME NEW r \in PromptScans,
               \/ \E blank \in BOOLEAN : Call(r, blank)
               \/ Cancel(r) \/ Runs(r) \/ Load(r) \/ Scored(r)
               \/ \E transient \in BOOLEAN : LoadFails(r, transient)
        PROVE  EnsureLocks(s)
    <2>1. CASE r # s
      BY <1>2, <2>1 DEF Call, Cancel, Runs, Begin, EnsureLoaded, EnsureWarmingUp, EnsureLocks, Load,
                        LoadFails, Score, Scored, AbandonScan, GiveUp, Return, Goto, Ends, Queues, PromptTypeOK
    <2>2. CASE r = s
      <3>1. CASE EnsureLocks(s)
        BY <3>1
      <3>2. CASE Cancel(s)
        BY <3>2 DEF Cancel, PromptTypeOK
      <3>6. CASE \E blank \in BOOLEAN : Call(s, blank)
        <4>1. PICK blank \in BOOLEAN : Call(s, blank)
          BY <3>6
        <4>2. thread'[s].at = "queued"
          BY <4>1 DEF Call, IdleThread, PromptTypeOK
        <4> QED
          BY <4>2
      <3>3. CASE Return(s) \/ AbandonScan(s) \/ GiveUp(s) \/ EnsureWarmingUp(s) \/ Scored(s)
                 \/ \E transient \in BOOLEAN : LoadFails(s, transient)
        BY <3>3 DEF Return, AbandonScan, GiveUp, EnsureWarmingUp, Scored, LoadFails, Ends, PromptTypeOK, PromptThread
      <3>4. CASE EnsureLoaded(s) \/ Load(s)
        BY <3>4 DEF EnsureLoaded, Load, Queues, PromptTypeOK, PromptThread
      <3>5. CASE Begin(s) \/ Score(s)
        BY <3>5 DEF Begin, Score, Goto, Ends, PromptTypeOK, PromptThread
      <3> QED
        BY <1>2, <2>2, <3>1, <3>2, <3>3, <3>4, <3>5, <3>6 DEF Runs
    <2> QED
      BY <2>1, <2>2
  <1> QED
    BY <1>1, <1>2 DEF PromptNext

(* The shared model is loaded by one scan at a time, and after a failed    *)
(* load nobody tries again before the cooldown is over, or ever if the     *)
(* failure is final (prompt_guard.py:283-320).                             *)
THEOREM LoadsAreRationed == PromptSpec => LoadsRationed
  <1> DEFINE Rationed ==
        \A s \in PromptScans : (thread[s].at # "loading" /\ thread'[s].at = "loading") =>
          /\ ~model /\ \A r \in PromptScans : thread[r].at # "loading"
          /\ failed # None => ~failed.final /\ failed.ago >= RetryTicks
  <1>1. ASSUME PromptIInv, [PromptNext]_promptVars PROVE Rationed
    <2> SUFFICES ASSUME NEW s \in PromptScans, thread[s].at # "loading", thread'[s].at = "loading"
                 PROVE  /\ ~model /\ \A r \in PromptScans : thread[r].at # "loading"
                        /\ failed # None => ~failed.final /\ failed.ago >= RetryTicks
      OBVIOUS
    <2>1. EnsureLocks(s)
      BY <1>1, LoadBegins
    <2>2. ~model /\ loader = None
      BY <2>1 DEF EnsureLocks
    <2>3. \A r \in PromptScans : thread[r].at # "loading"
      BY <1>1, <2>2, PromptGuardAssumption DEF PromptIInv, ThreadsHonest
    <2>4. thread'[s].at # "ended" /\ "error" \in Results /\ PromptTypeOK
      BY <1>1 DEF PromptIInv, Results
    <2>5. ~CoolingDown
      BY <2>1, <2>2, <2>4, EndsKeeps DEF EnsureLocks, Available
    <2>6. ASSUME failed # None PROVE ~failed.final /\ failed.ago >= RetryTicks
      <3>1. failure # None /\ failure.final = failed.final /\ failure.left + failed.ago >= RetryTicks
        BY <1>1, <2>6 DEF PromptIInv, CooldownKept
      <3>2. failure.left \in Nat /\ failed.ago \in Nat /\ RetryTicks \in Nat
        BY <2>4, <2>6, <3>1, PromptGuardAssumption DEF PromptTypeOK, Cooldown, Failed
      <3>3. ~failure.final /\ ~(failure.left > 0)
        BY <2>5, <3>1 DEF CoolingDown
      <3> QED
        BY <3>1, <3>2, <3>3
    <2> QED
      BY <2>2, <2>3, <2>6
  <1>2. PromptIInv /\ [PromptNext]_promptVars => [Rationed]_promptVars
    BY <1>1
  <1> QED
    BY <1>2, PromptInductive, PTL DEF PromptSpec, LoadsRationed

-----------------------------------------------------------------------------
(* LlmGuard.                                                               *)

LgTypeOK ==
  /\ backend \in Failures \cup {"fine"}
  /\ lg \in [loaded : BOOLEAN, error : Failures \cup {None}, retryable : BOOLEAN, attempts : Nat,
             health : Failures \cup {None}, scanners : Nat]
  /\ lgScan \in [at : {"idle", "ensuring", "loading", "failing", "ensured", "awaiting"},
               worker : Workers \cup {None}, answer : {None, "error", "cancelled", "clean"}]
  /\ worker \in [Workers -> [at : {"idle", "queued", "scanning"}, bound : Nat, raised : BOOLEAN]]
  /\ lgScans \in Nat /\ resets \in Nat
  /\ lost \in [last : Failures \cup {None}, weak : Nat]

(* A load is under way only without an error; one that has failed has its  *)
(* error before it has its health.                                         *)
LoadPhases ==
  /\ lg.loaded => lg.error = None
  /\ lgScan.at = "loading" => ~lg.loaded /\ lg.error = None
  /\ lgScan.at = "failing" => ~lg.loaded /\ lg.error # None
  /\ lgScan.at # "idle" => lgScan.answer = None
  /\ lgScan.worker # None => lgScan.at = "awaiting"

(* Outside a load, the list of a scanner without an error is complete or   *)
(* empty, and so is the one that an awaited worker has bound: only a       *)
(* worker that was left behind can meet a list that is being filled.       *)
ListIsWhole ==
  /\ lg.loaded => lg.scanners = SubScanners
  /\ lgScan.at # "loading" /\ lg.error = None => lg.scanners \in {0, SubScanners}
  /\ lgScan.worker # None => /\ lg.error = None
                             /\ worker[lgScan.worker].at = "scanning" =>
                                  worker[lgScan.worker].bound \in {0, SubScanners}

(* The attempts that are counted are those that failed on a weak           *)
(* reference; the last one that is allowed leaves an error for good.       *)
AttemptsCounted ==
  /\ lost.weak = lg.attempts /\ lg.attempts <= MaxAttempts
  /\ lg.attempts = MaxAttempts => lg.error = "slots" /\ ~lg.retryable
  /\ lost.last = "broken" => lg.error = "broken" /\ ~lg.retryable

LgIInv == LgTypeOK /\ LoadPhases /\ ListIsWhole /\ AttemptsCounted /\ HealthIsHonest

-----------------------------------------------------------------------------
LEMMA LgInitIInv == LlmGuardInit => LgIInv
  BY LlmGuardAssumption DEF LlmGuardInit, LgFresh, Failures, LgIInv, LgTypeOK, LoadPhases,
     ListIsWhole, AttemptsCounted, HealthIsHonest

LEMMA LgFreshType ==
  LgFresh \in [loaded : BOOLEAN, error : Failures \cup {None}, retryable : BOOLEAN, attempts : Nat,
             health : Failures \cup {None}, scanners : Nat]
  BY DEF LgFresh

(* The steps of a load. *)
LEMMA LgLoadKeeps ==
  ASSUME LgIInv, Ensure \/ LoadOne \/ Loaded \/ LgLoadFails \/ LoadFailed
  PROVE  LgIInv'
  <1> USE LlmGuardAssumption
  <1>1. CASE Ensure
    <2>1. /\ lgScan.at = "ensuring" /\ lgScan.worker = None /\ UNCHANGED <<backend, worker, lgScans, resets, lost>>
      BY <1>1 DEF Ensure, LgIInv, LoadPhases
    <2>2. CASE LgAt("ensured") /\ UNCHANGED lg
      BY <2>1, <2>2 DEF LgAt, LgIInv, LgTypeOK, LoadPhases, ListIsWhole, AttemptsCounted, HealthIsHonest
    <2>3. CASE /\ ~(lg.loaded \/ (lg.error # None /\ (~lg.retryable \/ ~LgAvailable)))
               /\ LgAt("loading")
               /\ lg' = [LgFresh EXCEPT !.attempts = lg.attempts, !.health = lg.health]
      <3>1. /\ lgScan'.at = "loading" /\ lgScan'.worker = None /\ lgScan'.answer = lgScan.answer
            /\ lgScan' \in [at : {"idle", "ensuring", "loading", "failing", "ensured", "awaiting"},
                          worker : Workers \cup {None}, answer : {None, "error", "cancelled", "clean"}]
        BY <2>1, <2>3 DEF LgAt, LgIInv, LgTypeOK
      <3>2. lg' = [loaded |-> FALSE, error |-> None, retryable |-> FALSE, attempts |-> lg.attempts,
                   health |-> lg.health, scanners |-> 0]
        BY <2>3 DEF LgFresh
      <3>3. LgTypeOK'
        BY <2>1, <3>1, <3>2 DEF LgIInv, LgTypeOK
      <3>4. LoadPhases' /\ ListIsWhole'
        BY <2>1, <3>1, <3>2 DEF LgIInv, LoadPhases, ListIsWhole
      <3>5. lg.attempts # MaxAttempts /\ lost.last # "broken"
        BY <2>3 DEF LgIInv, AttemptsCounted, Failures
      <3>6. AttemptsCounted'
        BY <2>1, <3>2, <3>5 DEF LgIInv, AttemptsCounted
      <3>7. HealthIsHonest'
        BY <2>1, <3>2 DEF LgIInv, HealthIsHonest
      <3> QED
        BY <3>3, <3>4, <3>6, <3>7 DEF LgIInv
    <2> QED
      BY <1>1, <2>2, <2>3 DEF Ensure
  <1>2. CASE LoadOne
    BY <1>2 DEF LoadOne, Failures, LgIInv, LgTypeOK, LoadPhases, ListIsWhole, AttemptsCounted, HealthIsHonest
  <1>3. CASE Loaded
    <2>1. /\ lgScan.at = "loading" /\ lg.scanners = SubScanners /\ ~lg.loaded /\ lg.error = None
          /\ lost' = [lost EXCEPT !.last = None] /\ UNCHANGED <<backend, worker, lgScans, resets>>
      BY <1>3 DEF Loaded, LgIInv, LoadPhases
    <2>2. CASE lg.health # None /\ lg' = [lg EXCEPT !.health = None] /\ UNCHANGED lgScan
      BY <2>1, <2>2 DEF Failures, LgIInv, LgTypeOK, LoadPhases, ListIsWhole, AttemptsCounted, HealthIsHonest
    <2>3. CASE lg.health = None /\ lg' = [lg EXCEPT !.loaded = TRUE] /\ LgAt("ensured")
      BY <2>1, <2>3 DEF LgAt, Failures, LgIInv, LgTypeOK, LoadPhases, ListIsWhole, AttemptsCounted, HealthIsHonest
    <2> QED
      BY <1>3, <2>2, <2>3 DEF Loaded
  <1>4. CASE LgLoadFails
    <2>1. /\ lgScan.at = "loading" /\ lg.error = None /\ ~lg.loaded /\ lgScan.worker = None
          /\ backend \in Failures /\ lost.last # "broken" /\ lg.attempts < MaxAttempts
          /\ UNCHANGED <<backend, worker, lgScans, resets>>
      BY <1>4 DEF LgLoadFails, LgIInv, LgTypeOK, LoadPhases, ListIsWhole, AttemptsCounted, Failures
    <2>2. lgScan' = [lgScan EXCEPT !.at = "failing"]
          /\ lost' = [last |-> backend, weak |-> IF backend = "slots" THEN lost.weak + 1 ELSE lost.weak]
      BY <1>4 DEF LgLoadFails, LgAt
    <2>3. CASE backend = "absent"
      <3>1. lg' = [lg EXCEPT !.error = "absent", !.retryable = TRUE]
        BY <1>4, <2>3 DEF LgLoadFails
      <3> QED
        BY <2>1, <2>2, <2>3, <3>1 DEF Failures, LgIInv, LgTypeOK, LoadPhases, ListIsWhole, AttemptsCounted,
                                      HealthIsHonest
    <2>4. CASE backend = "slots"
      <3>1. lg' = [lg EXCEPT !.error = "slots", !.attempts = lg.attempts + 1,
                             !.retryable = lg.attempts + 1 < MaxAttempts]
        BY <1>4, <2>4 DEF LgLoadFails
      <3>2. /\ lg'.error = "slots" /\ lg'.attempts = lg.attempts + 1 /\ ~lg'.loaded
            /\ lg'.retryable = (lg.attempts + 1 < MaxAttempts)
            /\ lg' \in [loaded : BOOLEAN, error : Failures \cup {None}, retryable : BOOLEAN,
                        attempts : Nat, health : Failures \cup {None}, scanners : Nat]
        <4>1. lg.attempts + 1 \in Nat /\ (lg.attempts + 1 < MaxAttempts) \in BOOLEAN
          BY DEF LgIInv, LgTypeOK
        <4> QED
          BY <2>1, <3>1, <4>1 DEF LgIInv, LgTypeOK, Failures
      <3>3. LgTypeOK'
        BY <2>1, <2>2, <3>2 DEF LgIInv, LgTypeOK, Failures
      <3>4. LoadPhases' /\ ListIsWhole' /\ HealthIsHonest'
        BY <2>1, <2>2, <3>2 DEF LgIInv, LgTypeOK, LoadPhases, ListIsWhole, HealthIsHonest, Failures
      <3>5. lost'.weak = lost.weak + 1 /\ lost'.last = "slots"
        BY <2>2, <2>4
      <3>6. lg.attempts \in Nat /\ lost.weak = lg.attempts
        BY DEF LgIInv, LgTypeOK, AttemptsCounted
      <3>7. AttemptsCounted'
        BY <2>1, <3>2, <3>5, <3>6 DEF AttemptsCounted
      <3> QED
        BY <3>3, <3>4, <3>7 DEF LgIInv
    <2>5. CASE backend = "broken"
      <3>1. lg' = [lg EXCEPT !.error = "broken", !.retryable = FALSE]
        BY <1>4, <2>5 DEF LgLoadFails
      <3> QED
        BY <2>1, <2>2, <2>5, <3>1 DEF Failures, LgIInv, LgTypeOK, LoadPhases, ListIsWhole, AttemptsCounted,
                                      HealthIsHonest
    <2> QED
      BY <2>1, <2>3, <2>4, <2>5 DEF Failures
  <1>5. CASE LoadFailed
    <2>1. /\ lgScan.at = "failing" /\ lgScan.worker = None /\ ~lg.loaded /\ lg.error # None
          /\ UNCHANGED <<backend, worker, lgScans, resets, lost>>
      BY <1>5 DEF LoadFailed, LgIInv, LoadPhases
    <2>2. lg' = [lg EXCEPT !.health = lg.error] /\ lgScan' = [lgScan EXCEPT !.at = "ensured"]
      BY <1>5 DEF LoadFailed, LgAt
    <2> QED
      BY <2>1, <2>2 DEF LgIInv, LgTypeOK, LoadPhases, ListIsWhole, AttemptsCounted, HealthIsHonest
  <1> QED
    BY <1>1, <1>2, <1>3, <1>4, <1>5

(* The steps of a scan before and after its worker. *)
LEMMA LgScanKeeps ==
  ASSUME LgIInv, LgCall \/ Refuse \/ LgCancel
  PROVE  LgIInv'
  <1> USE LlmGuardAssumption
  <1>1. CASE LgCall
    BY <1>1 DEF LgCall, LgIInv, LgTypeOK, LoadPhases, ListIsWhole, AttemptsCounted, HealthIsHonest
  <1>2. CASE Refuse
    BY <1>2 DEF Refuse, LgAnswer, LgIInv, LgTypeOK, LoadPhases, ListIsWhole, AttemptsCounted, HealthIsHonest
  <1>3. CASE LgCancel
    BY <1>3 DEF LgCancel, LgAnswer, LgIInv, LgTypeOK, LoadPhases, ListIsWhole, AttemptsCounted, HealthIsHonest
  <1> QED
    BY <1>1, <1>2, <1>3

(* A step that changes one worker and neither the scanner nor the coroutine. *)
LEMMA WorkerMoves ==
  ASSUME LgIInv, NEW w \in Workers,
         worker' \in [Workers -> [at : {"idle", "queued", "scanning"}, bound : Nat, raised : BOOLEAN]],
         \A v \in Workers \ {w} : worker'[v] = worker[v],
         lgScan.worker = w /\ worker'[w].at = "scanning" => worker'[w].bound \in {0, SubScanners},
         UNCHANGED <<backend, lg, lgScan, lgScans, resets, lost>>
  PROVE  LgIInv'
  <1>1. LgTypeOK'
    BY DEF LgIInv, LgTypeOK
  <1>2. ListIsWhole'
    BY DEF LgIInv, LgTypeOK, ListIsWhole
  <1> QED
    BY <1>1, <1>2 DEF LgIInv, LoadPhases, AttemptsCounted, HealthIsHonest

(* The steps of a worker thread, awaited or left behind. *)
LEMMA WorkerKeeps ==
  ASSUME LgIInv, NEW w \in Workers, LgDispatch(w) \/ Bind(w) \/ SubScannerRaises(w) \/ LgFinish(w)
  PROVE  LgIInv'
  <1> USE LlmGuardAssumption
  <1>1. CASE LgDispatch(w)
    <2>1. /\ lgScan.at = "ensured" /\ lg.error = None /\ UNCHANGED <<backend, lg, lgScans, resets, lost>>
          /\ lgScan' = [lgScan EXCEPT !.at = "awaiting", !.worker = w]
      BY <1>1 DEF LgDispatch
    <2>2. /\ worker' \in [Workers -> [at : {"idle", "queued", "scanning"}, bound : Nat, raised : BOOLEAN]]
          /\ worker'[w].at = "queued"
      BY <1>1 DEF LgDispatch, LgIInv, LgTypeOK
    <2>3. /\ lgScan'.at = "awaiting" /\ lgScan'.worker = w /\ lgScan'.answer = lgScan.answer
          /\ lgScan' \in [at : {"idle", "ensuring", "loading", "failing", "ensured", "awaiting"},
                        worker : Workers \cup {None}, answer : {None, "error", "cancelled", "clean"}]
      BY <2>1 DEF LgIInv, LgTypeOK
    <2>4. lgScan.answer = None
      BY <2>1 DEF LgIInv, LoadPhases
    <2>5. LgTypeOK' /\ LoadPhases'
      BY <2>1, <2>2, <2>3, <2>4 DEF LgIInv, LgTypeOK, LoadPhases
    <2>6. ListIsWhole'
      BY <2>1, <2>2, <2>3 DEF LgIInv, ListIsWhole
    <2> QED
      BY <2>1, <2>3, <2>5, <2>6 DEF LgIInv, AttemptsCounted, HealthIsHonest
  <1>2. CASE Bind(w)
    <2>1. /\ worker[w].at = "queued" /\ UNCHANGED <<backend, lg, lgScan, lgScans, resets, lost>>
          /\ worker' = [worker EXCEPT ![w] = [@ EXCEPT !.at = "scanning", !.bound = lg.scanners]]
      BY <1>2 DEF Bind
    <2>2. /\ worker' \in [Workers -> [at : {"idle", "queued", "scanning"}, bound : Nat, raised : BOOLEAN]]
          /\ \A v \in Workers \ {w} : worker'[v] = worker[v]
          /\ worker'[w].bound = lg.scanners
      <3>1. worker \in [Workers -> [at : {"idle", "queued", "scanning"}, bound : Nat, raised : BOOLEAN]] /\ lg.scanners \in Nat
        BY DEF LgIInv, LgTypeOK
      <3>2. [worker[w] EXCEPT !.at = "scanning", !.bound = lg.scanners]
              \in [at : {"idle", "queued", "scanning"}, bound : Nat, raised : BOOLEAN]
        BY <3>1
      <3> QED
        BY <2>1, <3>1, <3>2
    <2>3. lgScan.worker = w => worker'[w].bound \in {0, SubScanners}
      BY <2>2 DEF LgIInv, LoadPhases, ListIsWhole
    <2>4. UNCHANGED <<backend, lg, lgScan, lgScans, resets, lost>>
      BY <2>1
    <2> HIDE LlmGuardAssumption
    <2> QED
      BY <2>2, <2>3, <2>4, WorkerMoves
  <1>3. CASE SubScannerRaises(w)
    <2>1. /\ worker[w].at = "scanning" /\ UNCHANGED <<backend, lg, lgScan, lgScans, resets, lost>>
          /\ worker' = [worker EXCEPT ![w] = [@ EXCEPT !.raised = TRUE]]
      BY <1>3 DEF SubScannerRaises
    <2>2. /\ worker' \in [Workers -> [at : {"idle", "queued", "scanning"}, bound : Nat, raised : BOOLEAN]]
          /\ \A v \in Workers \ {w} : worker'[v] = worker[v]
          /\ worker'[w].bound = worker[w].bound
      <3>1. worker \in [Workers -> [at : {"idle", "queued", "scanning"}, bound : Nat, raised : BOOLEAN]]
        BY DEF LgIInv, LgTypeOK
      <3>2. [worker[w] EXCEPT !.raised = TRUE] \in [at : {"idle", "queued", "scanning"}, bound : Nat, raised : BOOLEAN]
        BY <3>1
      <3> QED
        BY <2>1, <3>1, <3>2
    <2>3. lgScan.worker = w => worker'[w].bound \in {0, SubScanners}
      BY <2>1, <2>2 DEF LgIInv, ListIsWhole
    <2>4. UNCHANGED <<backend, lg, lgScan, lgScans, resets, lost>>
      BY <2>1
    <2> HIDE LlmGuardAssumption
    <2> QED
      BY <2>2, <2>3, <2>4, WorkerMoves
  <1>4. CASE LgFinish(w)
    <2>1. /\ worker[w].at = "scanning" /\ UNCHANGED <<backend, lg, lgScans, resets, lost>>
          /\ worker' = [worker EXCEPT ![w] = [@ EXCEPT !.at = "idle"]]
      BY <1>4 DEF LgFinish
    <2>2. /\ worker' \in [Workers -> [at : {"idle", "queued", "scanning"}, bound : Nat, raised : BOOLEAN]]
          /\ \A v \in Workers \ {w} : worker'[v] = worker[v]
          /\ worker'[w].at = "idle"
      BY <2>1 DEF LgIInv, LgTypeOK
    <2>3. CASE lgScan.worker # w
      <3>1. UNCHANGED lgScan
        BY <1>4, <2>3 DEF LgFinish
      <3> QED
        BY <2>1, <2>2, <3>1, WorkerMoves
    <2>4. CASE lgScan.worker = w
      <3>1. /\ lgScan' = [lgScan EXCEPT !.at = "idle", !.worker = None, !.answer = Result(w)]
            /\ Result(w) \in {"error", "clean"}
        BY <1>4, <2>4 DEF LgFinish, LgAnswer, Result
      <3>2. /\ lgScan'.at = "idle" /\ lgScan'.worker = None
            /\ lgScan' \in [at : {"idle", "ensuring", "loading", "failing", "ensured", "awaiting"},
                          worker : Workers \cup {None}, answer : {None, "error", "cancelled", "clean"}]
        BY <3>1 DEF LgIInv, LgTypeOK
      <3>3. lgScan.at = "awaiting"
        BY <2>4 DEF LgIInv, LoadPhases
      <3>4. LgTypeOK' /\ LoadPhases'
        BY <2>1, <2>2, <3>2 DEF LgIInv, LgTypeOK, LoadPhases
      <3>5. ListIsWhole' /\ AttemptsCounted' /\ HealthIsHonest'
        BY <2>1, <3>2, <3>3 DEF LgIInv, ListIsWhole, AttemptsCounted, HealthIsHonest
      <3> QED
        BY <3>4, <3>5 DEF LgIInv
    <2> QED
      BY <2>3, <2>4
  <1> QED
    BY <1>1, <1>2, <1>3, <1>4

(* What the host and the console do to a scan under way. *)
LEMMA AroundKeeps ==
  ASSUME LgIInv, Reset \/ BackendChanges \/ UNCHANGED lgVars
  PROVE  LgIInv'
  <1> USE LlmGuardAssumption
  <1>1. CASE Reset
    BY <1>1, LgFreshType DEF Reset, LgFresh, Failures, LgIInv, LgTypeOK, LoadPhases, ListIsWhole, AttemptsCounted,
                           HealthIsHonest
  <1>2. CASE BackendChanges
    BY <1>2 DEF BackendChanges, Failures, LgIInv, LgTypeOK, LoadPhases, ListIsWhole, AttemptsCounted,
                HealthIsHonest
  <1>3. CASE UNCHANGED lgVars
    BY <1>3 DEF lgVars, LgIInv, LgTypeOK, LoadPhases, ListIsWhole, AttemptsCounted, HealthIsHonest
  <1> QED
    BY <1>1, <1>2, <1>3

LEMMA LgNextIInv == ASSUME LgIInv, [LlmGuardNext]_lgVars PROVE LgIInv'
  BY LgLoadKeeps, LgScanKeeps, WorkerKeeps, AroundKeeps DEF LlmGuardNext

LEMMA LgInductive == LlmGuardSpec => []LgIInv
  <1>1. LlmGuardInit => LgIInv
    BY LgInitIInv
  <1>2. LgIInv /\ [LlmGuardNext]_lgVars => LgIInv'
    BY LgNextIInv
  <1> QED
    BY <1>1, <1>2, PTL DEF LlmGuardSpec

(* The health shows a failed load until a load succeeds and is never shown *)
(* beside a loaded scanner (llm_guard.py:152-164).                         *)
THEOREM HealthHonest == LlmGuardSpec => []HealthIsHonest
  <1>1. LgIInv => HealthIsHonest
    BY DEF LgIInv
  <1> QED
    BY <1>1, LgInductive, PTL

(* Loads that fail on a weak reference are retried MaxAttempts times at    *)
(* most between two resets, and any other crash never                      *)
(* (llm_guard.py:311-325).                                                 *)
THEOREM RetriesAreBounded == LlmGuardSpec => []RetriesBounded
  <1>1. LgIInv => RetriesBounded
    BY LlmGuardAssumption DEF LgIInv, LgTypeOK, LoadPhases, AttemptsCounted, RetriesBounded,
       Failures
  <1> QED
    BY <1>1, LgInductive, PTL

(* A scan answers "clean" only where every enabled sub-scanner ran over    *)
(* the text and none raised, however many workers earlier scans left       *)
(* behind and whatever was reset under them (llm_guard.py:387-426).        *)
THEOREM CleanMeansScanned == LlmGuardSpec => CleanIsScanned
  <1> DEFINE Scanned ==
        \A w \in Workers : (lgScan.worker = w /\ lgScan'.answer = "clean") =>
          worker[w].bound = SubScanners /\ ~worker[w].raised
  <1>1. ASSUME LgIInv, [LlmGuardNext]_lgVars PROVE Scanned
    <2> SUFFICES ASSUME NEW w \in Workers, lgScan.worker = w, lgScan'.answer = "clean"
                 PROVE  worker[w].bound = SubScanners /\ ~worker[w].raised
      OBVIOUS
    <2>1. lgScan.at = "awaiting" /\ lgScan.answer = None /\ "clean" # None /\ w # None
      BY <1>1, LlmGuardAssumption DEF LgIInv, LoadPhases
    <2>2. lgScan' # lgScan
      BY <2>1
    <2>3. ~LgCancel
      BY <1>1, <2>1 DEF LgCancel, LgAnswer, LgIInv, LgTypeOK
    <2>4. PICK v \in Workers : LgFinish(v)
      BY <1>1, <2>1, <2>2, <2>3 DEF LlmGuardNext, lgVars, BackendChanges, LgCall, Ensure, LoadOne, Loaded, LgLoadFails,
                                   LoadFailed, Refuse, Reset, LgDispatch, Bind, SubScannerRaises
    <2>5. v = w /\ LgAnswer(Result(w)) /\ worker[w].at = "scanning"
      BY <2>2, <2>4 DEF LgFinish
    <2>6. Result(w) = "clean"
      BY <2>5, <1>1 DEF LgAnswer, LgIInv, LgTypeOK
    <2>7. ~worker[w].raised /\ worker[w].bound # 0
      BY <2>6 DEF Result
    <2> QED
      BY <1>1, <2>1, <2>5, <2>7 DEF LgIInv, ListIsWhole
  <1>2. LgIInv /\ [LlmGuardNext]_lgVars => [Scanned]_lgVars
    BY <1>1
  <1> QED
    BY <1>2, LgInductive, PTL DEF LlmGuardSpec, CleanIsScanned

-----------------------------------------------------------------------------
(* LlamaFirewall.                                                           *)

FwPartNames == {"prompt_guard", "alignment_check", "code_shield"}
FwHolders == Firewalls \cup FwThreads

FwAttributes == [loaded : BOOLEAN, error : {"absent", "warming", "crash", None},
                 retryable : BOOLEAN, parts : SUBSET FwPartNames, warmed : BOOLEAN]
FwCoroutine == [at : {"idle", "ensuring", "loading", "ensured", "awaiting"},
                thread : FwThreads \cup {None}, answer : {"error", "cancelled", "clean", None}]
FwScan == [at : {"idle", "queued", "warming", "scanning"}, of : Firewalls \cup {None},
           left : SUBSET FwPartNames, good : BOOLEAN, eof : BOOLEAN, raised : BOOLEAN]
FwSwap == [holder : FwHolders \cup {None}, saved : [FwHolders -> {"host", "devnull", None}]]

FwTypeOK ==
  /\ stdin \in {"host", "devnull"}
  /\ swap \in FwSwap
  /\ fw \in [Firewalls -> FwAttributes]
  /\ co \in [Firewalls -> FwCoroutine]
  /\ thr \in [FwThreads -> FwScan]

(* _STDIN_GUARD is held by the one that loads or warms up; it has saved the *)
(* stream of the host, and the null device is in its place.                *)
FwGuardHeld ==
  /\ \A i \in Firewalls : co[i].at = "loading" <=> swap.holder = i
  /\ \A t \in FwThreads : thr[t].at = "warming" <=> swap.holder = t
  /\ IF swap.holder = None THEN stdin = "host"
     ELSE stdin = "devnull" /\ swap.saved[swap.holder] = "host"

FwLoaded(i) == fw[i].loaded /\ fw[i].error = None

(* What was loaded has every component that the profile enables, and it    *)
(* stays so while a scan or a thread that was left behind uses it.         *)
FwPartsLoaded ==
  /\ \A i \in Firewalls : /\ FwLoaded(i) => fw[i].parts = Enabled[i]
                          /\ co[i].at = "loading" => ~fw[i].loaded /\ fw[i].error = None
                          /\ co[i].at \in {"ensured", "awaiting"} => FwLoaded(i)
                          /\ co[i].thread # None => co[i].at = "awaiting"
  /\ \A t \in FwThreads : thr[t].at # "idle" => thr[t].of \in Firewalls /\ FwLoaded(thr[t].of)

(* Only a prompt_guard that has its model scans without the guard.         *)
FwWarmedIsReady ==
  /\ \A i \in Firewalls : fw[i].warmed /\ "prompt_guard" \in Enabled[i] => i \in ready
  /\ \A t \in FwThreads :
       /\ thr[t].good => thr[t].of \in ready
       /\ thr[t].at = "scanning" /\ "prompt_guard" \in thr[t].left => thr[t].of \in ready

FwIInv == FwTypeOK /\ FwGuardHeld /\ FwPartsLoaded /\ FwWarmedIsReady /\ TerminalKept

LEMMA FwAnswerTyped ==
  ASSUME FwTypeOK, NEW i \in Firewalls, NEW a \in {"error", "cancelled", "clean", None},
         FwAnswer(i, a)
  PROVE  /\ co' \in [Firewalls -> FwCoroutine]
         /\ co'[i].at = "idle" /\ co'[i].thread = None
         /\ \A j \in Firewalls : j # i => co'[j] = co[j]
  <1> DEFINE c == [at |-> "idle", thread |-> None, answer |-> a]
  <1>1. c \in FwCoroutine
    BY DEF FwCoroutine
  <1>2. co' = [co EXCEPT ![i] = c]
    BY DEF FwAnswer
  <1> QED BY <1>1, <1>2 DEF FwTypeOK

LEMMA FwAtTyped ==
  ASSUME FwTypeOK, NEW i \in Firewalls,
         NEW place \in {"idle", "ensuring", "loading", "ensured", "awaiting"}, FwAt(i, place)
  PROVE  /\ co' \in [Firewalls -> FwCoroutine]
         /\ co'[i].at = place /\ co'[i].thread = co[i].thread
         /\ \A j \in Firewalls : j # i => co'[j] = co[j]
  <1> DEFINE c == [co[i] EXCEPT !.at = place]
  <1>1. co[i] \in FwCoroutine
    BY DEF FwTypeOK
  <1>2. c \in FwCoroutine /\ c.at = place /\ c.thread = co[i].thread
    BY <1>1 DEF FwCoroutine
  <1>3. co' = [co EXCEPT ![i] = c]
    BY DEF FwAt
  <1> QED BY <1>2, <1>3 DEF FwTypeOK

LEMMA FwSwapInTyped ==
  ASSUME FwTypeOK, NEW who \in FwHolders, SwapIn(who)
  PROVE  /\ swap' \in FwSwap /\ stdin' = "devnull"
         /\ swap'.holder = who /\ swap'.saved[who] = stdin
  <1>1. [swap.saved EXCEPT ![who] = stdin] \in [FwHolders -> {"host", "devnull", None}]
    BY DEF FwTypeOK, FwSwap
  <1> QED BY <1>1 DEF FwTypeOK, FwSwap, SwapIn

LEMMA FwSwapOutTyped ==
  ASSUME FwTypeOK, NEW who \in FwHolders, swap.saved[who] = "host", SwapOut(who)
  PROVE  swap' \in FwSwap /\ stdin' = "host" /\ swap'.holder = None
  <1>1. [swap.saved EXCEPT ![who] = None] \in [FwHolders -> {"host", "devnull", None}]
    BY DEF FwTypeOK, FwSwap
  <1> QED BY <1>1 DEF FwTypeOK, FwSwap, SwapOut

LEMMA FwScanTyped ==
  ASSUME FwTypeOK, NEW t \in FwThreads, NEW r \in FwScan, thr' = [thr EXCEPT ![t] = r]
  PROVE  /\ thr' \in [FwThreads -> FwScan] /\ thr'[t] = r
         /\ \A u \in FwThreads : u # t => thr'[u] = thr[u]
  BY DEF FwTypeOK

LEMMA FwAttributesTyped ==
  ASSUME FwTypeOK, NEW i \in Firewalls, NEW r \in FwAttributes, fw' = [fw EXCEPT ![i] = r]
  PROVE  /\ fw' \in [Firewalls -> FwAttributes] /\ fw'[i] = r
         /\ \A j \in Firewalls : j # i => fw'[j] = fw[j]
  BY DEF FwTypeOK

(* Nothing but the end of a scan that does not load: the invariant stands. *)
LEMMA FwAnswerKeeps ==
  ASSUME FwIInv, NEW i \in Firewalls, NEW a \in {"error", "cancelled", "clean", None},
         co[i].at # "loading", FwAnswer(i, a), UNCHANGED <<stdin, swap, fw, thr, asked, ready>>
  PROVE  FwIInv'
  <1> USE LlamaFirewallAssumption DEF FwIInv
  <1>1. FwTypeOK'
    BY FwAnswerTyped DEF FwTypeOK
  <1>2. FwGuardHeld'
    BY FwAnswerTyped DEF FwGuardHeld
  <1>3. FwPartsLoaded'
    BY FwAnswerTyped DEF FwPartsLoaded, FwLoaded
  <1>4. FwWarmedIsReady' /\ TerminalKept'
    BY DEF FwWarmedIsReady, TerminalKept
  <1> QED BY <1>1, <1>2, <1>3, <1>4

LEMMA FwCallKeeps ==
  ASSUME FwIInv, NEW i \in Firewalls, FwCall(i)
  PROVE  FwIInv'
  <1> USE LlamaFirewallAssumption DEF FwIInv, FwHolders
  <1> DEFINE c == [at |-> "ensuring", thread |-> None, answer |-> None]
  <1>a. c \in FwCoroutine /\ co' = [co EXCEPT ![i] = c]
    BY DEF FwCoroutine, FwCall
  <1>1. FwTypeOK'
    BY <1>a DEF FwTypeOK, FwCall
  <1>2. FwGuardHeld'
    BY DEF FwCall, FwTypeOK, FwGuardHeld
  <1>3. FwPartsLoaded'
    BY DEF FwCall, FwTypeOK, FwGuardHeld, FwPartsLoaded, FwLoaded
  <1>4. FwWarmedIsReady'
    BY DEF FwCall, FwTypeOK, FwPartsLoaded, FwWarmedIsReady, FwLoaded
  <1>5. TerminalKept'
    BY DEF FwCall, TerminalKept
  <1> QED BY <1>1, <1>2, <1>3, <1>4, <1>5

LEMMA EnsureKnownKeeps ==
  ASSUME FwIInv, NEW i \in Firewalls, EnsureKnown(i)
  PROVE  FwIInv'
  <1> USE LlamaFirewallAssumption DEF FwIInv
  <1>1. CASE fw[i].error # None
    BY <1>1, FwAnswerKeeps DEF EnsureKnown
  <1>2. CASE fw[i].error = None
    <2>1. /\ FwAt(i, "ensured") /\ co[i].at = "ensuring" /\ FwLoaded(i)
          /\ UNCHANGED <<stdin, swap, fw, thr, asked, ready>>
      BY <1>2 DEF EnsureKnown, FwLoaded
    <2>2. /\ co' \in [Firewalls -> FwCoroutine]
          /\ co'[i].at = "ensured" /\ co'[i].thread = co[i].thread
          /\ \A j \in Firewalls : j # i => co'[j] = co[j]
      BY <2>1, FwAtTyped
    <2>3. FwTypeOK' /\ FwGuardHeld'
      BY <2>1, <2>2 DEF FwTypeOK, FwGuardHeld
    <2>4. FwPartsLoaded'
      BY <2>1, <2>2 DEF FwPartsLoaded, FwLoaded
    <2>5. FwWarmedIsReady' /\ TerminalKept'
      BY <2>1 DEF FwWarmedIsReady, TerminalKept
    <2> QED BY <2>3, <2>4, <2>5
  <1> QED BY <1>1, <1>2

LEMMA EnsureUnavailableKeeps ==
  ASSUME FwIInv, NEW i \in Firewalls, EnsureUnavailable(i)
  PROVE  FwIInv'
  <1> USE LlamaFirewallAssumption DEF FwIInv, FwHolders
  <1> DEFINE r == [fw[i] EXCEPT !.error = "absent", !.retryable = TRUE, !.parts = {}]
  <1>a. r \in FwAttributes /\ r.error = "absent" /\ r.warmed = fw[i].warmed
    <2>1. fw[i] \in FwAttributes
      BY DEF FwTypeOK
    <2> QED BY <2>1 DEF FwAttributes
  <1>b. fw' = [fw EXCEPT ![i] = r]
    BY DEF EnsureUnavailable
  <1>c. \A t \in FwThreads : thr[t].at # "idle" => thr[t].of # i
    BY DEF EnsureUnavailable, Loadable, FwPartsLoaded, FwLoaded
  <1> HIDE DEF r
  <1>e. /\ fw'[i] = r /\ \A j \in Firewalls : j # i => fw'[j] = fw[j]
        /\ co'[i].at = "idle" /\ co'[i].thread = None
        /\ \A j \in Firewalls : j # i => co'[j] = co[j]
        /\ thr' = thr /\ ready' = ready
    BY <1>a, <1>b, FwAnswerTyped, FwAttributesTyped DEF EnsureUnavailable
  <1>1. FwTypeOK'
    BY <1>a, <1>b, FwAnswerTyped DEF FwTypeOK, EnsureUnavailable
  <1>2. FwGuardHeld'
    BY DEF EnsureUnavailable, Loadable, FwAnswer, FwTypeOK, FwGuardHeld
  <1>3. FwPartsLoaded'
    BY <1>a, <1>c, <1>e DEF FwPartsLoaded, FwLoaded
  <1>4. FwWarmedIsReady'
    BY <1>a, <1>c, <1>e DEF FwWarmedIsReady
  <1>5. TerminalKept'
    BY DEF EnsureUnavailable, TerminalKept
  <1> QED BY <1>1, <1>2, <1>3, <1>4, <1>5

LEMMA FwWarmingUpKeeps ==
  ASSUME FwIInv, NEW i \in Firewalls, FwWarmingUp(i)
  PROVE  FwIInv'
  <1> USE LlamaFirewallAssumption DEF FwIInv, FwHolders
  <1> DEFINE kept == IF fw[i].error = "warming" THEN fw[i].parts ELSE {}
             r == [fw[i] EXCEPT !.error = "warming", !.retryable = TRUE, !.parts = kept]
  <1>a. r \in FwAttributes /\ r.error = "warming" /\ r.warmed = fw[i].warmed
    <2>1. fw[i] \in FwAttributes
      BY DEF FwTypeOK
    <2>2. kept \in SUBSET FwPartNames
      BY <2>1 DEF FwAttributes
    <2> HIDE DEF kept
    <2> QED BY <2>1, <2>2 DEF FwAttributes
  <1>b. fw' = [fw EXCEPT ![i] = r]
    <2>1. fw[i] \in FwAttributes
      BY DEF FwTypeOK
    <2> QED BY <2>1 DEF FwWarmingUp, FwAttributes, FwTypeOK
  <1>c. \A t \in FwThreads : thr[t].at # "idle" => thr[t].of # i
    BY DEF FwWarmingUp, Loadable, FwPartsLoaded, FwLoaded
  <1> HIDE DEF r
  <1>e. /\ fw'[i] = r /\ \A j \in Firewalls : j # i => fw'[j] = fw[j]
        /\ co'[i].at = "idle" /\ co'[i].thread = None
        /\ \A j \in Firewalls : j # i => co'[j] = co[j]
        /\ thr' = thr /\ ready' = ready
    BY <1>a, <1>b, FwAnswerTyped, FwAttributesTyped DEF FwWarmingUp
  <1>1. FwTypeOK'
    BY <1>a, <1>b, FwAnswerTyped DEF FwTypeOK, FwWarmingUp
  <1>2. FwGuardHeld'
    BY DEF FwWarmingUp, Loadable, FwAnswer, FwTypeOK, FwGuardHeld
  <1>3. FwPartsLoaded'
    BY <1>a, <1>c, <1>e DEF FwPartsLoaded, FwLoaded
  <1>4. FwWarmedIsReady'
    BY <1>a, <1>c, <1>e DEF FwWarmedIsReady
  <1>5. TerminalKept'
    BY DEF FwWarmingUp, TerminalKept
  <1> QED BY <1>1, <1>2, <1>3, <1>4, <1>5

LEMMA EnsureLoadsKeeps ==
  ASSUME FwIInv, NEW i \in Firewalls, EnsureLoads(i)
  PROVE  FwIInv'
  <1> USE LlamaFirewallAssumption DEF FwIInv, FwHolders
  <1> DEFINE r == [FwFresh EXCEPT !.warmed = fw[i].warmed]
  <1>a. r \in FwAttributes
    BY DEF FwTypeOK, FwAttributes, FwFresh
  <1>b. fw' = [fw EXCEPT ![i] = r]
    BY DEF EnsureLoads
  <1>c. r.warmed = fw[i].warmed /\ r.parts = {} /\ ~r.loaded /\ r.error = None
    BY DEF FwFresh
  <1> HIDE DEF r
  <1>d. /\ fw'[i] = r /\ \A j \in Firewalls : j # i => fw'[j] = fw[j]
        /\ co[i].at = "ensuring" /\ co'[i].at = "loading" /\ co'[i].thread = co[i].thread
        /\ \A j \in Firewalls : j # i => co'[j] = co[j]
        /\ thr' = thr /\ ready' = ready /\ asked' = asked
        /\ swap.holder = None /\ stdin' = "devnull" /\ swap'.holder = i /\ swap'.saved[i] = stdin
    <2>1. /\ FwAt(i, "loading") /\ SwapIn(i) /\ co[i].at = "ensuring" /\ swap.holder = None
          /\ thr' = thr /\ ready' = ready /\ asked' = asked
      BY DEF EnsureLoads, Loadable
    <2>2. fw'[i] = r /\ \A j \in Firewalls : j # i => fw'[j] = fw[j]
      BY <1>a, <1>b, FwAttributesTyped
    <2>3. stdin' = "devnull" /\ swap'.holder = i /\ swap'.saved[i] = stdin
      BY <2>1, FwSwapInTyped
    <2>4. /\ co'[i].at = "loading" /\ co'[i].thread = co[i].thread
          /\ \A j \in Firewalls : j # i => co'[j] = co[j]
      BY <2>1, FwAtTyped
    <2> QED BY <2>1, <2>2, <2>3, <2>4
  <1>e. ~FwLoaded(i)
    BY DEF EnsureLoads, Loadable, FwLoaded
  <1>1. FwTypeOK'
    BY <1>a, <1>b, FwSwapInTyped, FwAtTyped DEF FwTypeOK, EnsureLoads
  <1>2. FwGuardHeld'
    BY <1>d DEF FwGuardHeld
  <1>3. FwPartsLoaded'
    BY <1>c, <1>d, <1>e DEF FwPartsLoaded, FwLoaded
  <1>4. FwWarmedIsReady'
    BY <1>c, <1>d, <1>e DEF FwWarmedIsReady, FwPartsLoaded
  <1>5. TerminalKept'
    BY <1>d DEF TerminalKept
  <1> QED BY <1>1, <1>2, <1>3, <1>4, <1>5

LEMMA LoadPartKeeps ==
  ASSUME FwIInv, NEW i \in Firewalls, LoadPart(i)
  PROVE  FwIInv'
  <1> USE LlamaFirewallAssumption DEF FwIInv, FwHolders
  <1>a. fw' \in [Firewalls -> FwAttributes]
    <2>1. PICK part \in Enabled[i] : fw' = [fw EXCEPT ![i] = [fw[i] EXCEPT !.parts = @ \cup {part}]]
      BY DEF LoadPart, FwTypeOK
    <2>2. fw[i] \in FwAttributes /\ part \in FwPartNames
      BY DEF FwTypeOK, FwPartNames
    <2>3. [fw[i] EXCEPT !.parts = @ \cup {part}] \in FwAttributes
      BY <2>2 DEF FwAttributes
    <2> QED BY <2>1, <2>3 DEF FwTypeOK
  <1>1. FwTypeOK'
    BY <1>a DEF FwTypeOK, LoadPart
  <1>2. FwGuardHeld'
    BY DEF LoadPart, FwTypeOK, FwGuardHeld
  <1>3. FwPartsLoaded'
    BY DEF LoadPart, FwTypeOK, FwGuardHeld, FwPartsLoaded, FwLoaded
  <1>4. FwWarmedIsReady'
    BY DEF LoadPart, FwTypeOK, FwPartsLoaded, FwWarmedIsReady, FwLoaded
  <1>5. TerminalKept'
    BY DEF LoadPart, TerminalKept
  <1> QED BY <1>1, <1>2, <1>3, <1>4, <1>5

LEMMA FwLoadKeeps ==
  ASSUME FwIInv, NEW i \in Firewalls, FwLoad(i)
  PROVE  FwIInv'
  <1> USE LlamaFirewallAssumption DEF FwIInv, FwHolders
  <1> DEFINE r == [fw[i] EXCEPT !.loaded = TRUE]
  <1>a. /\ r \in FwAttributes /\ r.loaded /\ r.error = fw[i].error
        /\ r.parts = fw[i].parts /\ r.warmed = fw[i].warmed
    <2>1. fw[i] \in FwAttributes
      BY DEF FwTypeOK
    <2> QED BY <2>1 DEF FwAttributes
  <1>b. fw' = [fw EXCEPT ![i] = r]
    BY DEF FwLoad
  <1>c. swap.saved[i] = "host"
    BY DEF FwLoad, FwGuardHeld
  <1> HIDE DEF r
  <1>e. /\ fw'[i] = r /\ \A j \in Firewalls : j # i => fw'[j] = fw[j]
        /\ co[i].at = "loading" /\ fw[i].parts = Enabled[i]
        /\ co'[i].at = "ensured" /\ co'[i].thread = co[i].thread
        /\ \A j \in Firewalls : j # i => co'[j] = co[j]
        /\ thr' = thr
    <2>1. FwAt(i, "ensured") /\ co[i].at = "loading" /\ fw[i].parts = Enabled[i] /\ thr' = thr
      BY DEF FwLoad
    <2>2. fw'[i] = r /\ \A j \in Firewalls : j # i => fw'[j] = fw[j]
      BY <1>a, <1>b, FwAttributesTyped
    <2>3. /\ co'[i].at = "ensured" /\ co'[i].thread = co[i].thread
          /\ \A j \in Firewalls : j # i => co'[j] = co[j]
      BY <2>1, FwAtTyped
    <2> QED BY <2>1, <2>2, <2>3
  <1>1. FwTypeOK'
    <2>1. SwapOut(i) /\ FwAt(i, "ensured") /\ thr' = thr
      BY DEF FwLoad
    <2>2. swap' \in FwSwap /\ stdin' = "host"
      BY <1>c, <2>1, FwSwapOutTyped
    <2>3. co' \in [Firewalls -> FwCoroutine]
      BY <2>1, FwAtTyped
    <2>4. fw' \in [Firewalls -> FwAttributes]
      BY <1>a, <1>b, FwAttributesTyped
    <2> QED BY <2>1, <2>2, <2>3, <2>4 DEF FwTypeOK
  <1>2. FwGuardHeld'
    BY DEF FwLoad, SwapOut, FwAt, FwTypeOK, FwGuardHeld
  <1>3. FwPartsLoaded'
    BY <1>a, <1>e DEF FwPartsLoaded, FwLoaded
  <1>4. FwWarmedIsReady'
    BY DEF FwLoad, SwapOut, FwAt, FwTypeOK, FwPartsLoaded, FwWarmedIsReady, FwLoaded
  <1>5. TerminalKept'
    BY DEF FwLoad, SwapOut, FwAt, FwTypeOK, FwGuardHeld, FwWarmedIsReady, TerminalKept
  <1> QED BY <1>1, <1>2, <1>3, <1>4, <1>5

LEMMA LoadCrashesKeeps ==
  ASSUME FwIInv, NEW i \in Firewalls, NEW asks \in BOOLEAN, LoadCrashes(i, asks)
  PROVE  FwIInv'
  <1> USE LlamaFirewallAssumption DEF FwIInv, FwHolders
  <1> DEFINE broken == [fw[i] EXCEPT !.parts = {}, !.error = "crash"]
             r == IF FwAvailable(i, broken)
                    THEN [broken EXCEPT !.loaded = TRUE, !.retryable = FALSE]
                  ELSE [broken EXCEPT !.retryable = TRUE]
  <1>a. r \in FwAttributes /\ r.error = "crash" /\ r.warmed = fw[i].warmed
    <2>1. fw[i] \in FwAttributes
      BY DEF FwTypeOK
    <2>2. broken \in FwAttributes /\ broken.error = "crash" /\ broken.warmed = fw[i].warmed
      BY <2>1 DEF FwAttributes
    <2> HIDE DEF broken
    <2> QED BY <2>2 DEF FwAttributes
  <1>b. fw' = [fw EXCEPT ![i] = r]
    BY DEF LoadCrashes
  <1>c. swap.saved[i] = "host"
    BY DEF LoadCrashes, FwGuardHeld
  <1>d. \A t \in FwThreads : thr[t].at # "idle" => thr[t].of # i
    BY DEF LoadCrashes, FwPartsLoaded, FwLoaded
  <1> HIDE DEF r
  <1>e. /\ fw'[i] = r /\ \A j \in Firewalls : j # i => fw'[j] = fw[j]
        /\ co'[i].at = "idle" /\ co'[i].thread = None
        /\ \A j \in Firewalls : j # i => co'[j] = co[j]
        /\ thr' = thr /\ ready' = ready
    <2>1. FwAnswer(i, "error") /\ thr' = thr /\ ready' = ready
      BY DEF LoadCrashes
    <2>2. fw'[i] = r /\ \A j \in Firewalls : j # i => fw'[j] = fw[j]
      BY <1>a, <1>b, FwAttributesTyped
    <2>3. /\ co'[i].at = "idle" /\ co'[i].thread = None
          /\ \A j \in Firewalls : j # i => co'[j] = co[j]
      BY <2>1, FwAnswerTyped
    <2> QED BY <2>1, <2>2, <2>3
  <1>1. FwTypeOK'
    BY <1>a, <1>b, <1>c, FwSwapOutTyped, FwAnswerTyped DEF FwTypeOK, LoadCrashes
  <1>2. FwGuardHeld'
    BY DEF LoadCrashes, SwapOut, FwAnswer, FwTypeOK, FwGuardHeld
  <1>3. FwPartsLoaded'
    BY <1>a, <1>d, <1>e DEF FwPartsLoaded, FwLoaded
  <1>4. FwWarmedIsReady'
    BY <1>a, <1>d, <1>e DEF FwWarmedIsReady
  <1>5. TerminalKept'
    BY DEF LoadCrashes, SwapOut, FwAnswer, FwTypeOK, FwGuardHeld, FwWarmedIsReady, TerminalKept
  <1> QED BY <1>1, <1>2, <1>3, <1>4, <1>5

LEMMA FwDispatchKeeps ==
  ASSUME FwIInv, NEW i \in Firewalls, NEW t \in FwThreads, FwDispatch(i, t)
  PROVE  FwIInv'
  <1> USE LlamaFirewallAssumption DEF FwIInv
  <1>a. CASE fw[i].parts = {}
    BY <1>a, FwAnswerKeeps DEF FwDispatch
  <1>b. CASE fw[i].parts # {}
    <2> DEFINE c == [co[i] EXCEPT !.at = "awaiting", !.thread = t]
               r == [Resting EXCEPT !.at = "queued", !.of = i]
    <2>1. c \in FwCoroutine /\ c.at = "awaiting" /\ co' = [co EXCEPT ![i] = c]
      <3>1. co[i] \in FwCoroutine
        BY DEF FwTypeOK
      <3> QED BY <1>b, <3>1 DEF FwCoroutine, FwDispatch
    <2>2. /\ r \in FwScan /\ r.at = "queued" /\ r.of = i /\ ~r.good /\ r.left = {}
          /\ thr' = [thr EXCEPT ![t] = r]
      BY <1>b DEF FwScan, Resting, FwDispatch
    <2>3. FwLoaded(i) /\ co[i].at = "ensured"
      BY DEF FwDispatch, FwPartsLoaded
    <2>4. UNCHANGED <<stdin, swap, fw, asked, ready>>
      BY DEF FwDispatch
    <2>5. thr[t].at = "idle"
      BY DEF FwDispatch
    <2> HIDE DEF c, r
    <2>6. /\ co'[i] = c /\ \A j \in Firewalls : j # i => co'[j] = co[j]
          /\ thr'[t] = r /\ \A u \in FwThreads : u # t => thr'[u] = thr[u]
      BY <2>1, <2>2 DEF FwTypeOK
    <2>7. FwTypeOK'
      BY <2>1, <2>2, <2>4 DEF FwTypeOK
    <2>8. FwGuardHeld'
      BY <2>1, <2>2, <2>3, <2>4, <2>5, <2>6 DEF FwGuardHeld
    <2>9. FwPartsLoaded'
      BY <2>1, <2>2, <2>3, <2>4, <2>6 DEF FwPartsLoaded, FwLoaded
    <2>10. FwWarmedIsReady' /\ TerminalKept'
      BY <2>2, <2>4, <2>6 DEF FwWarmedIsReady, TerminalKept
    <2> QED BY <2>7, <2>8, <2>9, <2>10
  <1> QED BY <1>a, <1>b

LEMMA FwCancelKeeps ==
  ASSUME FwIInv, NEW i \in Firewalls, FwCancel(i)
  PROVE  FwIInv'
  BY FwAnswerKeeps DEF FwCancel

(* A thread that has done answers the scan that waits for it, if one does. *)
LEMMA FwReplyTyped ==
  ASSUME FwIInv, NEW t \in FwThreads, thr[t].at # "idle",
         NEW a \in {"error", "cancelled", "clean", None}, Reply(t, a)
  PROVE  /\ co' \in [Firewalls -> FwCoroutine]
         /\ \A i \in Firewalls :
              \/ co'[i] = co[i]
              \/ co'[i].at = "idle" /\ co'[i].thread = None /\ co[i].at = "awaiting"
  <1> DEFINE i == thr[t].of
  <1>1. i \in Firewalls
    BY DEF FwIInv, FwPartsLoaded
  <1>2. CASE co[i].thread = t
    <2>1. FwAnswer(i, a) /\ co[i].at = "awaiting"
      BY <1>1, <1>2, LlamaFirewallAssumption DEF Reply, FwIInv, FwPartsLoaded
    <2> QED BY <2>1, <1>1, FwAnswerTyped DEF FwIInv
  <1>3. CASE co[i].thread # t
    BY <1>3 DEF Reply, FwIInv, FwTypeOK
  <1> QED BY <1>2, <1>3

LEMMA BeginWarmKeeps ==
  ASSUME FwIInv, NEW t \in FwThreads, BeginWarm(t)
  PROVE  FwIInv'
  <1> USE LlamaFirewallAssumption DEF FwIInv, FwHolders
  <1> DEFINE r == [thr[t] EXCEPT !.at = "scanning", !.left = fw[thr[t].of].parts]
  <1>a. r \in FwScan
    <2>1. thr[t] \in FwScan /\ fw[thr[t].of].parts \in SUBSET FwPartNames
      BY DEF FwTypeOK, FwPartsLoaded, BeginWarm, FwAttributes
    <2> QED BY <2>1 DEF FwScan
  <1>b. thr' = [thr EXCEPT ![t] = r]
    BY DEF BeginWarm
  <1> HIDE DEF r
  <1>1. FwTypeOK'
    BY <1>a, <1>b DEF FwTypeOK, BeginWarm
  <1>2. FwGuardHeld'
    BY DEF BeginWarm, FwTypeOK, FwGuardHeld
  <1>3. FwPartsLoaded'
    BY DEF BeginWarm, FwTypeOK, FwGuardHeld, FwPartsLoaded, FwLoaded
  <1>4. FwWarmedIsReady'
    BY DEF BeginWarm, FwTypeOK, FwPartsLoaded, FwWarmedIsReady, FwLoaded
  <1>5. TerminalKept'
    BY DEF BeginWarm, TerminalKept
  <1> QED BY <1>1, <1>2, <1>3, <1>4, <1>5

LEMMA BeginRefusedKeeps ==
  ASSUME FwIInv, NEW t \in FwThreads, BeginRefused(t)
  PROVE  FwIInv'
  <1> USE LlamaFirewallAssumption DEF FwIInv, FwHolders
  <1>a. Resting \in FwScan /\ Resting.at = "idle" /\ ~Resting.good
    BY DEF FwScan, Resting
  <1>b. thr' = [thr EXCEPT ![t] = Resting] /\ thr[t].at = "queued"
    BY DEF BeginRefused
  <1>c. /\ co' \in [Firewalls -> FwCoroutine]
        /\ \A i \in Firewalls :
             \/ co'[i] = co[i]
             \/ co'[i].at = "idle" /\ co'[i].thread = None /\ co[i].at = "awaiting"
    BY FwReplyTyped DEF BeginRefused
  <1>d. thr'[t] = Resting /\ \A u \in FwThreads : u # t => thr'[u] = thr[u]
    BY <1>b DEF FwTypeOK
  <1>1. FwTypeOK'
    BY <1>a, <1>b, <1>c DEF FwTypeOK, BeginRefused
  <1>2. FwGuardHeld'
    BY <1>a, <1>b, <1>c, <1>d DEF BeginRefused, FwGuardHeld
  <1>3. FwPartsLoaded'
    BY <1>a, <1>b, <1>c, <1>d DEF BeginRefused, FwPartsLoaded, FwLoaded
  <1>4. FwWarmedIsReady'
    BY <1>a, <1>b, <1>d DEF BeginRefused, FwWarmedIsReady
  <1>5. TerminalKept'
    BY DEF BeginRefused, TerminalKept
  <1> QED BY <1>1, <1>2, <1>3, <1>4, <1>5

LEMMA BeginColdKeeps ==
  ASSUME FwIInv, NEW t \in FwThreads, BeginCold(t)
  PROVE  FwIInv'
  <1> USE LlamaFirewallAssumption DEF FwIInv, FwHolders
  <1> DEFINE r == [thr[t] EXCEPT !.at = "warming", !.left = fw[thr[t].of].parts]
  <1>a. r \in FwScan /\ r.at = "warming" /\ r.of = thr[t].of /\ r.good = thr[t].good
    <2>1. thr[t] \in FwScan /\ fw[thr[t].of].parts \in SUBSET FwPartNames
      BY DEF FwTypeOK, FwPartsLoaded, BeginCold, FwAttributes
    <2> QED BY <2>1 DEF FwScan
  <1>b. thr' = [thr EXCEPT ![t] = r]
    BY DEF BeginCold
  <1> HIDE DEF r
  <1>d. /\ thr'[t] = r /\ \A u \in FwThreads : u # t => thr'[u] = thr[u]
        /\ thr[t].at = "queued" /\ co' = co /\ fw' = fw /\ ready' = ready /\ asked' = asked
        /\ swap.holder = None /\ stdin' = "devnull" /\ swap'.holder = t /\ swap'.saved[t] = stdin
    BY <1>a, <1>b, FwSwapInTyped, FwScanTyped DEF BeginCold
  <1>1. FwTypeOK'
    BY <1>a, <1>b, FwSwapInTyped DEF FwTypeOK, BeginCold
  <1>2. FwGuardHeld'
    BY <1>a, <1>d DEF FwGuardHeld
  <1>3. FwPartsLoaded'
    BY <1>a, <1>d DEF FwPartsLoaded, FwLoaded
  <1>4. FwWarmedIsReady'
    BY <1>a, <1>d DEF FwWarmedIsReady
  <1>5. TerminalKept'
    BY <1>d DEF TerminalKept
  <1> QED BY <1>1, <1>2, <1>3, <1>4, <1>5

LEMMA PartReturnsKeeps ==
  ASSUME FwIInv, NEW t \in FwThreads, NEW part \in thr[t].left, PartReturns(t, part)
  PROVE  FwIInv'
  <1> USE LlamaFirewallAssumption DEF FwIInv, FwHolders
  <1> DEFINE r == [thr[t] EXCEPT !.left = thr[t].left \ {part},
                             !.good = thr[t].good \/ part = "prompt_guard"]
  <1>a. r \in FwScan /\ r.at = thr[t].at /\ r.of = thr[t].of /\ r.left = thr[t].left \ {part}
        /\ r.good = (thr[t].good \/ part = "prompt_guard")
    <2>1. thr[t] \in FwScan
      BY DEF FwTypeOK
    <2> QED BY <2>1 DEF FwScan
  <1>b. thr' = [thr EXCEPT ![t] = r]
    BY DEF FwTypeOK, PartReturns
  <1> HIDE DEF r
  <1>d. thr'[t] = r /\ \A u \in FwThreads : u # t => thr'[u] = thr[u]
    BY <1>b DEF FwTypeOK
  <1>1. FwTypeOK'
    BY <1>a, <1>b DEF FwTypeOK, PartReturns
  <1>2. FwGuardHeld'
    BY <1>a, <1>d DEF PartReturns, FwGuardHeld
  <1>3. FwPartsLoaded'
    BY <1>a, <1>d DEF PartReturns, FwPartsLoaded, FwLoaded
  <1>4. FwWarmedIsReady'
    <2>1. /\ ready' = IF part = "prompt_guard" THEN ready \cup {thr[t].of} ELSE ready
          /\ fw' = fw
      BY DEF PartReturns
    <2>2. ready \subseteq ready' /\ (part = "prompt_guard" => thr[t].of \in ready')
      BY <2>1
    <2>3. \A i \in Firewalls : fw'[i].warmed /\ "prompt_guard" \in Enabled[i] => i \in ready'
      BY <2>1, <2>2 DEF FwWarmedIsReady
    <2>4. r.good => thr[t].of \in ready'
      BY <1>a, <2>2 DEF FwWarmedIsReady
    <2>5. r.at = "scanning" /\ "prompt_guard" \in r.left => thr[t].of \in ready'
      BY <1>a, <2>2 DEF FwWarmedIsReady
    <2> QED BY <1>a, <1>d, <2>2, <2>3, <2>4, <2>5 DEF FwWarmedIsReady
  <1>5. TerminalKept'
    BY DEF PartReturns, TerminalKept
  <1> QED BY <1>1, <1>2, <1>3, <1>4, <1>5

LEMMA PartRaisesKeeps ==
  ASSUME FwIInv, NEW t \in FwThreads, NEW part \in thr[t].left, PartRaises(t, part)
  PROVE  FwIInv'
  <1> USE LlamaFirewallAssumption DEF FwIInv, FwHolders
  <1> DEFINE r == [thr[t] EXCEPT !.left = thr[t].left \ {part}, !.raised = TRUE]
  <1>a. r \in FwScan /\ r.at = thr[t].at /\ r.of = thr[t].of /\ r.left = thr[t].left \ {part}
        /\ r.good = thr[t].good
    <2>1. thr[t] \in FwScan
      BY DEF FwTypeOK
    <2> QED BY <2>1 DEF FwScan
  <1>b. thr' = [thr EXCEPT ![t] = r]
    BY DEF FwTypeOK, PartRaises
  <1> HIDE DEF r
  <1>d. thr'[t] = r /\ \A u \in FwThreads : u # t => thr'[u] = thr[u]
    BY <1>b DEF FwTypeOK
  <1>1. FwTypeOK'
    BY <1>a, <1>b DEF FwTypeOK, PartRaises
  <1>2. FwGuardHeld'
    BY <1>a, <1>d DEF PartRaises, FwGuardHeld
  <1>3. FwPartsLoaded'
    BY <1>a, <1>d DEF PartRaises, FwPartsLoaded, FwLoaded
  <1>4. FwWarmedIsReady'
    BY <1>a, <1>d DEF PartRaises, FwWarmedIsReady
  <1>5. TerminalKept'
    BY DEF PartRaises, TerminalKept
  <1> QED BY <1>1, <1>2, <1>3, <1>4, <1>5

LEMMA PartAsksKeeps ==
  ASSUME FwIInv, NEW t \in FwThreads, PartAsks(t)
  PROVE  FwIInv'
  <1> USE LlamaFirewallAssumption DEF FwIInv, FwHolders
  <1> DEFINE r == [thr[t] EXCEPT !.left = thr[t].left \ {"prompt_guard"},
                             !.raised = TRUE, !.eof = TRUE]
  <1>a. /\ r \in FwScan /\ r.at = thr[t].at /\ r.of = thr[t].of
        /\ r.left = thr[t].left \ {"prompt_guard"} /\ r.good = thr[t].good
    <2>1. thr[t] \in FwScan
      BY DEF FwTypeOK
    <2> QED BY <2>1 DEF FwScan
  <1>b. thr' = [thr EXCEPT ![t] = r]
    BY DEF FwTypeOK, PartAsks
  <1> HIDE DEF r
  <1>d. thr'[t] = r /\ \A u \in FwThreads : u # t => thr'[u] = thr[u]
    BY <1>b DEF FwTypeOK
  <1>1. FwTypeOK'
    BY <1>a, <1>b DEF FwTypeOK, PartAsks
  <1>2. FwGuardHeld'
    BY <1>a, <1>d DEF PartAsks, FwGuardHeld
  <1>3. FwPartsLoaded'
    BY <1>a, <1>d DEF PartAsks, FwPartsLoaded, FwLoaded
  <1>4. FwWarmedIsReady'
    BY <1>a, <1>d DEF PartAsks, FwWarmedIsReady
  <1>5. TerminalKept'
    BY DEF PartAsks, FwTypeOK, FwGuardHeld, FwWarmedIsReady, TerminalKept
  <1> QED BY <1>1, <1>2, <1>3, <1>4, <1>5

LEMMA FwFinishKeeps ==
  ASSUME FwIInv, NEW t \in FwThreads, FwFinish(t)
  PROVE  FwIInv'
  <1> USE LlamaFirewallAssumption DEF FwIInv, FwHolders
  <1> DEFINE i == thr[t].of
  <1>1. Resting \in FwScan /\ Resting.at = "idle" /\ ~Resting.good
    BY DEF FwScan, Resting
  <1>2. thr' = [thr EXCEPT ![t] = Resting] /\ thr[t].at \in {"warming", "scanning"}
    BY DEF FwFinish
  <1>3. /\ co' \in [Firewalls -> FwCoroutine]
        /\ \A j \in Firewalls :
             \/ co'[j] = co[j]
             \/ co'[j].at = "idle" /\ co'[j].thread = None /\ co[j].at = "awaiting"
    BY FwReplyTyped DEF FwFinish
  <1>4. thr'[t] = Resting /\ \A u \in FwThreads : u # t => thr'[u] = thr[u]
    BY <1>2 DEF FwTypeOK
  <1>5. i \in Firewalls /\ FwLoaded(i) /\ fw[i].parts = Enabled[i]
    BY <1>2 DEF FwPartsLoaded
  <1>6. /\ fw' \in [Firewalls -> FwAttributes]
        /\ \A j \in Firewalls : /\ fw'[j].loaded = fw[j].loaded /\ fw'[j].error = fw[j].error
                                /\ fw'[j].parts = fw[j].parts
                                /\ fw'[j].warmed => fw[j].warmed \/ (j = i /\ Warms(t))
    <2>1. CASE fw' = [fw EXCEPT ![i].warmed = TRUE] /\ Warms(t)
      <3> DEFINE r == [fw[i] EXCEPT !.warmed = TRUE]
      <3>1. fw[i] \in FwAttributes
        BY <1>5 DEF FwTypeOK
      <3>2. /\ r \in FwAttributes /\ r.loaded = fw[i].loaded
            /\ r.error = fw[i].error /\ r.parts = fw[i].parts
        BY <3>1 DEF FwAttributes
      <3>3. fw' = [fw EXCEPT ![i] = r]
        BY <2>1
      <3> HIDE DEF r, i
      <3> QED BY <1>5, <2>1, <3>2, <3>3, FwAttributesTyped
    <2>2. CASE fw' = fw
      BY <2>2 DEF FwTypeOK
    <2> QED BY <1>2, <2>1, <2>2 DEF FwFinish
  <1>7. asked' = asked /\ ready' = ready
    BY DEF FwFinish
  <1>8. FwPartsLoaded'
    BY <1>1, <1>3, <1>4, <1>6 DEF FwPartsLoaded, FwLoaded
  <1>9. FwWarmedIsReady'
    BY <1>1, <1>4, <1>5, <1>6, <1>7 DEF FwWarmedIsReady, Warms
  <1>10. CASE thr[t].at = "warming"
    <2>1. SwapOut(t) /\ swap.holder = t /\ swap.saved[t] = "host"
      BY <1>10 DEF FwFinish, FwGuardHeld
    <2>2. swap' \in FwSwap /\ stdin' = "host" /\ swap'.holder = None
      BY <2>1, FwSwapOutTyped
    <2>3. FwTypeOK'
      BY <1>1, <1>2, <1>3, <1>6, <2>2 DEF FwTypeOK
    <2>4. FwGuardHeld'
      BY <1>1, <1>3, <1>4, <2>1, <2>2 DEF FwGuardHeld
    <2>5. TerminalKept'
      BY <1>7, <2>2 DEF TerminalKept
    <2> QED BY <1>8, <1>9, <2>3, <2>4, <2>5
  <1>11. CASE thr[t].at = "scanning"
    <2>1. UNCHANGED <<stdin, swap, fw>>
      BY <1>11 DEF FwFinish
    <2>2. FwTypeOK'
      BY <1>1, <1>2, <1>3, <2>1 DEF FwTypeOK
    <2>3. FwGuardHeld'
      BY <1>1, <1>3, <1>4, <1>11, <2>1 DEF FwGuardHeld
    <2>4. TerminalKept'
      BY <1>7, <2>1 DEF TerminalKept
    <2> QED BY <1>8, <1>9, <2>2, <2>3, <2>4
  <1> QED BY <1>2, <1>10, <1>11

LEMMA FwProvisionKeeps ==
  ASSUME FwIInv, FwProvision
  PROVE  FwIInv'
  BY DEF FwProvision, FwIInv, FwTypeOK, FwGuardHeld, FwPartsLoaded, FwLoaded,
         FwWarmedIsReady, TerminalKept

LEMMA FwStep ==
  ASSUME FwIInv, [FirewallNext]_firewallVars
  PROVE  FwIInv'
  <1>1. CASE UNCHANGED firewallVars
    BY <1>1 DEF firewallVars, FwIInv, FwTypeOK, FwGuardHeld, FwPartsLoaded, FwLoaded,
                FwWarmedIsReady, TerminalKept
  <1>2. CASE FwProvision
    BY <1>2, FwProvisionKeeps
  <1>3. ASSUME NEW i \in Firewalls,
               \/ FwCall(i) \/ EnsureKnown(i) \/ EnsureUnavailable(i) \/ FwWarmingUp(i)
               \/ EnsureLoads(i) \/ LoadPart(i) \/ FwLoad(i) \/ FwCancel(i)
               \/ \E asks \in BOOLEAN : LoadCrashes(i, asks)
               \/ \E t \in FwThreads : FwDispatch(i, t)
        PROVE  FwIInv'
    BY <1>3, FwCallKeeps, EnsureKnownKeeps, EnsureUnavailableKeeps, FwWarmingUpKeeps,
       EnsureLoadsKeeps, LoadPartKeeps, FwLoadKeeps, FwCancelKeeps, LoadCrashesKeeps,
       FwDispatchKeeps
  <1>4. ASSUME NEW t \in FwThreads,
               \/ BeginWarm(t) \/ BeginRefused(t) \/ BeginCold(t) \/ PartAsks(t) \/ FwFinish(t)
               \/ \E part \in thr[t].left : PartReturns(t, part) \/ PartRaises(t, part)
        PROVE  FwIInv'
    BY <1>4, BeginWarmKeeps, BeginRefusedKeeps, BeginColdKeeps, PartAsksKeeps, FwFinishKeeps,
       PartReturnsKeeps, PartRaisesKeeps
  <1> QED BY <1>1, <1>2, <1>3, <1>4 DEF FirewallNext

(* TerminalKept for every set of scanners, of components and of threads,    *)
(* whatever loads, scans, cancellations and provisioning overlap           *)
(* (llama_firewall.py:66-84, 371-425).                                     *)
THEOREM TerminalIsKept == FirewallSpec => []TerminalKept
  <1>1. FirewallInit => FwIInv
    BY LlamaFirewallAssumption DEF FirewallInit, FwIInv, FwTypeOK, FwGuardHeld,
       FwPartsLoaded, FwLoaded, FwWarmedIsReady, TerminalKept, FwFresh, Resting, FwAttributes, FwCoroutine, FwScan, FwSwap, FwHolders
  <1>2. FwIInv => TerminalKept
    BY DEF FwIInv
  <1> QED BY <1>1, <1>2, FwStep, PTL DEF FirewallSpec
=============================================================================
