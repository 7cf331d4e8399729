----------------------------- MODULE LiveReload ------------------------------
(***************************************************************************)
(* The live configuration reload of the reference plugin, and the inspect  *)
(* mutex that keeps it apart from scans.                                   *)
(*                                                                         *)
(* Every tool call runs _pre_tool_call() on a thread of the host.  It      *)
(* first looks for a change of the petasos: section of config.yaml         *)
(* (console/_reload.py), applies one if it finds it, and then has the      *)
(* guard evaluate the call.  Both are coroutines that it submits to the    *)
(* plugin's event loop with _run_async(), which gives up waiting after a   *)
(* timeout and cancels them.  Results that tools return are scanned on a   *)
(* second loop.  Reload, evaluation and ingestion head poll one            *)
(* threading.Lock, so that no scan sees a half-applied configuration.      *)
(*                                                                         *)
(* A section stands for its contents; the three sets below say which       *)
(* sections fail to build, to validate, or to resolve their profile.  The  *)
(* seen-key cache has one slot, since the plugin pins one file, and the    *)
(* age of that slot is a flag that time may clear.  An event loop runs one *)
(* coroutine at a time between its awaits; the model lets the steps of     *)
(* reloading interleave with everything, of which the host's other threads *)
(* can see each.                                                           *)
(***************************************************************************)
EXTENDS Naturals, Sequences, FiniteSets

CONSTANTS
  Hooks,           \* host threads that run _pre_tool_call()
  Ingest,          \* the ingestion worker; not a hook
  Sections,        \* non-empty contents of the petasos: section
  Empty,           \* a missing, wiped or malformed section; not in Sections
  Unbuildable,     \* sections PetasosConfig.from_dict() rejects
  BadWeights,      \* sections that guard.validate_config() rejects
  UnknownProfile,  \* sections whose profile_name does not resolve
  Boot,            \* the section the plugin booted with
  CoarseMtime,     \* whether a rewrite may leave (mtime_ns, size) as it was
  MaxEdits,        \* bound: edits of config.yaml
  MaxTimeouts      \* bound: _run_async() calls that time out (of reloads and evaluations)

ASSUME ReloadAssumption ==
  /\ IsFiniteSet(Hooks) /\ Ingest \notin Hooks
  /\ Empty \notin Sections /\ Boot \in Sections
  /\ Unbuildable \cup BadWeights \cup UnknownProfile \subseteq Sections
  /\ Boot \notin Unbuildable \cup BadWeights \cup UnknownProfile
  /\ CoarseMtime \in BOOLEAN
  /\ MaxEdits \in Nat /\ MaxTimeouts \in Nat

VARIABLES
  file,      \* config.yaml: its section and (mtime_ns, size)
  cache,     \* _RELOAD_CACHE: the slot of that file
  applied,   \* the section each part of the plugin is configured from
  locked,    \* _inspect_lock
  hook,      \* the threads in _pre_tool_call()
  task,      \* the coroutines on the two loops
  edits,     \* edits of config.yaml so far
  timeouts   \* timeouts so far

vars == <<file, cache, applied, locked, hook, task, edits, timeouts>>

-----------------------------------------------------------------------------
(* What _apply_reconfigure_body() commits, in its order: three steps of    *)
(* Pipeline.reconfigure(), then the guard, which configures the tracker it *)
(* shares with the pipeline once more, and the gateway's own parts.        *)
ApplyOrder == <<{"tracker"}, {"audit", "alert", "minimal", "config"}, {"profile"},
                {"guard", "tracker"}, {"lineage", "egress", "taint"}>>

Parts == UNION {ApplyOrder[i] : i \in DOMAIN ApplyOrder}

Contents == Sections \cup {Empty}

Keys == 0 .. MaxEdits

File == [section : Contents, key : Keys]

Slot == [key : Keys, section : Contents, fresh : BOOLEAN]

NoSlot == [key |-> 0, section |-> Empty, fresh |-> FALSE]

HookPCs == {"idle", "stat", "read", "build", "applying", "reread", "store",
            "evaluate", "evaluating"}

Hook == [pc : HookPCs, key : Keys, section : Contents]

NoHook == [pc |-> "idle", key |-> 0, section |-> Empty]

(* A thread submits reloads and evaluations; a coroutine of each kind may  *)
(* outlive the _run_async() that gave up on it.                            *)
Tasks == (Hooks \X {"apply", "evaluate"}) \cup {<<Ingest, "ingest">>}

TaskStates == {"none", "poll", "hold", "done", "failed"}

(* step counts the steps of ApplyOrder that are committed; it is 0 during  *)
(* validation.  gone says the submitter no longer waits.                   *)
Task == [st : TaskStates, section : Contents, step : 0 .. Len(ApplyOrder), gone : BOOLEAN]

NoTask == [st |-> "none", section |-> Empty, step |-> 0, gone |-> FALSE]

Init ==
  /\ file = [section |-> Boot, key |-> 0]
  /\ cache = NoSlot
  /\ applied = [p \in Parts |-> Boot]
  /\ locked = FALSE
  /\ hook = [h \in Hooks |-> NoHook]
  /\ task = [t \in Tasks |-> NoTask]
  /\ edits = 0
  /\ timeouts = 0

-----------------------------------------------------------------------------
(* An operator, the console or another program rewrites config.yaml. *)
Edit(s) ==
  /\ edits < MaxEdits
  /\ edits' = edits + 1
  /\ \E k \in {edits + 1} \cup (IF CoarseMtime THEN {file.key} ELSE {}) :
       file' = [section |-> s, key |-> k]
  /\ UNCHANGED <<cache, applied, locked, hook, task, timeouts>>

(* _RELOAD_TTL_S passes. *)
SlotAges ==
  /\ cache.fresh
  /\ cache' = [cache EXCEPT !.fresh = FALSE]
  /\ UNCHANGED <<file, applied, locked, hook, task, edits, timeouts>>

-----------------------------------------------------------------------------
(* A tool call: _pre_tool_call() begins with _maybe_reconfigure(). *)
Go(h, pc) == hook' = [hook EXCEPT ![h].pc = pc]

BeginCall(h) ==
  /\ hook[h].pc = "idle"
  /\ Go(h, "stat")
  /\ UNCHANGED <<file, cache, applied, locked, task, edits, timeouts>>

(* read_changed_section(): the file is examined, and the cached key, while *)
(* it is young, saves the read.                                            *)
Stat(h) ==
  /\ hook[h].pc = "stat"
  /\ hook' = [hook EXCEPT ![h].key = file.key,
                          ![h].pc = IF cache.fresh /\ cache.key = file.key
                                    THEN "evaluate" ELSE "read"]
  /\ UNCHANGED <<file, cache, applied, locked, task, edits, timeouts>>

(* The section is read.  An empty one, and one equal to the cached section *)
(* under the cached key, is no change.                                     *)
Read(h) ==
  LET s == file.section
      seen == cache # NoSlot /\ cache.key = hook[h].key /\ cache.section = s
  IN
  /\ hook[h].pc = "read"
  /\ hook' = [hook EXCEPT ![h].section = s,
                          ![h].pc = IF s = Empty \/ seen THEN "evaluate" ELSE "build"]
  /\ cache' = IF s # Empty /\ seen THEN [cache EXCEPT !.fresh = TRUE] ELSE cache
  /\ UNCHANGED <<file, applied, locked, task, edits, timeouts>>

(* _build_config_from_section() fails: keep last-good, look again with the *)
(* next call.                                                              *)
BuildFails(h) ==
  /\ hook[h].pc = "build"
  /\ hook[h].section \in Unbuildable
  /\ Go(h, "evaluate")
  /\ UNCHANGED <<file, cache, applied, locked, task, edits, timeouts>>

(* _run_async(): the coroutine is submitted and waited for.  A coroutine   *)
(* of this kind that the thread gave up on has been cancelled, and its     *)
(* cancellation delivered, before this one starts.                         *)
Submit(h, kind, s) ==
  /\ task[<<h, kind>>].st = "none"
  /\ task' = [task EXCEPT ![<<h, kind>>] =
       [st |-> "poll", section |-> s, step |-> 0, gone |-> FALSE]]

SubmitApply(h) ==
  /\ hook[h].pc = "build"
  /\ hook[h].section \notin Unbuildable
  /\ Submit(h, "apply", hook[h].section)
  /\ Go(h, "applying")
  /\ UNCHANGED <<file, cache, applied, locked, edits, timeouts>>

(* The coroutine ended: commit_seen() follows a success only. *)
ApplyReturns(h) ==
  /\ hook[h].pc = "applying"
  /\ task[<<h, "apply">>].st \in {"done", "failed"}
  /\ task' = [task EXCEPT ![<<h, "apply">>] = NoTask]
  /\ Go(h, IF task[<<h, "apply">>].st = "done" THEN "reread" ELSE "evaluate")
  /\ UNCHANGED <<file, cache, applied, locked, edits, timeouts>>

(* commit_seen() reads the file again, and stores what it finds under the  *)
(* key of the first reading.                                               *)
Reread(h) ==
  /\ hook[h].pc = "reread"
  /\ hook' = [hook EXCEPT ![h].section = file.section, ![h].pc = "store"]
  /\ UNCHANGED <<file, cache, applied, locked, task, edits, timeouts>>

Store(h) ==
  /\ hook[h].pc = "store"
  /\ cache' = [key |-> hook[h].key, section |-> hook[h].section, fresh |-> TRUE]
  /\ Go(h, "evaluate")
  /\ UNCHANGED <<file, applied, locked, task, edits, timeouts>>

(* The guard evaluates the call under the mutex. *)
SubmitEvaluate(h) ==
  /\ hook[h].pc = "evaluate"
  /\ Submit(h, "evaluate", Empty)
  /\ Go(h, "evaluating")
  /\ UNCHANGED <<file, cache, applied, locked, edits, timeouts>>

EvaluateReturns(h) ==
  /\ hook[h].pc = "evaluating"
  /\ task[<<h, "evaluate">>].st = "done"
  /\ task' = [task EXCEPT ![<<h, "evaluate">>] = NoTask]
  /\ hook' = [hook EXCEPT ![h] = NoHook]
  /\ UNCHANGED <<file, cache, applied, locked, edits, timeouts>>

(* _run_async() gives up and cancels the coroutine, if it has not ended.   *)
(* A reload is taken to have failed; a call is answered without the        *)
(* guard's verdict.                                                        *)
Abandon(t) ==
  task' = [task EXCEPT ![t] = IF @.st \in {"done", "failed"} THEN NoTask
                              ELSE [@ EXCEPT !.gone = TRUE]]

(* Mutant: a reload that timed out is committed as seen. *)
ApplyTimesOutSeen(h) ==
  /\ hook[h].pc = "applying"
  /\ timeouts < MaxTimeouts
  /\ timeouts' = timeouts + 1
  /\ Abandon(<<h, "apply">>)
  /\ Go(h, "reread")
  /\ UNCHANGED <<file, cache, applied, locked, edits>>

ApplyTimesOut(h) ==
  /\ hook[h].pc = "applying"
  /\ timeouts < MaxTimeouts
  /\ timeouts' = timeouts + 1
  /\ Abandon(<<h, "apply">>)
  /\ Go(h, "evaluate")
  /\ UNCHANGED <<file, cache, applied, locked, edits>>

EvaluateTimesOut(h) ==
  /\ hook[h].pc = "evaluating"
  /\ timeouts < MaxTimeouts
  /\ timeouts' = timeouts + 1
  /\ Abandon(<<h, "evaluate">>)
  /\ hook' = [hook EXCEPT ![h] = NoHook]
  /\ UNCHANGED <<file, cache, applied, locked, edits>>

-----------------------------------------------------------------------------
(* The coroutines.  The ingestion worker scans the head of a tool result,  *)
(* one result at a time.                                                   *)
BeginIngest ==
  LET t == <<Ingest, "ingest">> IN
  /\ task[t].st = "none"
  /\ task' = [task EXCEPT ![t].st = "poll"]
  /\ UNCHANGED <<file, cache, applied, locked, hook, edits, timeouts>>

(* Its budget expires while it polls. *)
IngestTimesOut ==
  LET t == <<Ingest, "ingest">> IN
  /\ task[t].st = "poll"
  /\ task' = [task EXCEPT ![t] = NoTask]
  /\ UNCHANGED <<file, cache, applied, locked, hook, edits, timeouts>>

(* Mutant: reloading does not wait for the mutex. *)
AcquireUnlocked(t) ==
  /\ task[t].st = "poll"
  /\ ~locked \/ t[2] = "apply"
  /\ locked' = TRUE
  /\ task' = [task EXCEPT ![t].st = "hold"]
  /\ UNCHANGED <<file, cache, applied, hook, edits, timeouts>>

(* _acquire_inspect_lock() *)
Acquire(t) ==
  /\ task[t].st = "poll"
  /\ ~locked
  /\ locked' = TRUE
  /\ task' = [task EXCEPT ![t].st = "hold"]
  /\ UNCHANGED <<file, cache, applied, hook, edits, timeouts>>

(* Mutant: the finally clause releases a mutex that was never acquired. *)
CancelPollingReleases(t) ==
  /\ task[t].st = "poll"
  /\ task[t].gone
  /\ locked' = FALSE
  /\ task' = [task EXCEPT ![t] = NoTask]
  /\ UNCHANGED <<file, cache, applied, hook, edits, timeouts>>

(* Cancellation reaches a coroutine at the await of its polling loop. *)
CancelPolling(t) ==
  /\ task[t].st = "poll"
  /\ task[t].gone
  /\ task' = [task EXCEPT ![t] = NoTask]
  /\ UNCHANGED <<file, cache, applied, locked, hook, edits, timeouts>>

(* Mutant: a coroutine that is cancelled keeps the mutex. *)
FinishCancelledKeeps(t, st) ==
  /\ locked' = task[t].gone
  /\ task' = [task EXCEPT ![t] = IF task[t].gone \/ t[1] = Ingest THEN NoTask
                                 ELSE [@ EXCEPT !.st = st]]

Finish(t, st) ==
  /\ locked' = FALSE
  /\ task' = [task EXCEPT ![t] = IF task[t].gone \/ t[1] = Ingest THEN NoTask
                                 ELSE [@ EXCEPT !.st = st]]

(* inspect() or evaluate() returns, by itself or because the cancellation  *)
(* was absorbed at its boundary.                                           *)
ScanEnds(t) ==
  /\ t[2] # "apply"
  /\ task[t].st = "hold"
  /\ Finish(t, "done")
  /\ UNCHANGED <<file, cache, applied, hook, edits, timeouts>>

-----------------------------------------------------------------------------
(* _apply_reconfigure_body(), which awaits nothing. *)
Applying(t) == t[2] = "apply" /\ task[t].st = "hold"

(* Phase 1: guard.validate_config(). *)
ValidateFails(t) ==
  /\ Applying(t)
  /\ task[t].step = 0
  /\ task[t].section \in BadWeights
  /\ Finish(t, "failed")
  /\ UNCHANGED <<file, cache, applied, hook, edits, timeouts>>

NextParts(t) == ApplyOrder[task[t].step + 1]

(* ProfileResolver.resolve() raises KeyError for a profile it does not     *)
(* know, after the configuration has been swapped.                         *)
ResolveFails(t) ==
  /\ Applying(t)
  /\ task[t].step < Len(ApplyOrder)
  /\ "profile" \in NextParts(t)
  /\ task[t].section \in UnknownProfile
  /\ Finish(t, "failed")
  /\ UNCHANGED <<file, cache, applied, hook, edits, timeouts>>

(* Phase 2. *)
Commit(t) ==
  /\ Applying(t)
  /\ task[t].section \notin BadWeights
  /\ task[t].step < Len(ApplyOrder)
  /\ "profile" \in NextParts(t) => task[t].section \notin UnknownProfile
  /\ applied' = [p \in Parts |-> IF p \in NextParts(t) THEN task[t].section ELSE applied[p]]
  /\ task' = [task EXCEPT ![t].step = @ + 1]
  /\ UNCHANGED <<file, cache, locked, hook, edits, timeouts>>

ApplyEnds(t) ==
  /\ Applying(t)
  /\ task[t].step = Len(ApplyOrder)
  /\ Finish(t, "done")
  /\ UNCHANGED <<file, cache, applied, hook, edits, timeouts>>

-----------------------------------------------------------------------------
HookStep(h) ==
  \/ BeginCall(h) \/ Stat(h) \/ Read(h) \/ BuildFails(h) \/ SubmitApply(h)
  \/ ApplyReturns(h) \/ Reread(h) \/ Store(h) \/ SubmitEvaluate(h) \/ EvaluateReturns(h)

BodyStep(t) ==
  ScanEnds(t) \/ ValidateFails(t) \/ ResolveFails(t) \/ Commit(t) \/ ApplyEnds(t)

Next ==
  \/ \E s \in Contents : Edit(s)
  \/ SlotAges
  \/ \E h \in Hooks : HookStep(h) \/ ApplyTimesOut(h) \/ EvaluateTimesOut(h)
  \/ BeginIngest
  \/ IngestTimesOut
  \/ \E t \in Tasks : Acquire(t) \/ CancelPolling(t) \/ BodyStep(t)

Spec == Init /\ [][Next]_vars

(* The host keeps making tool calls, the loops run the coroutines that can *)
(* run, and a coroutine of a tool call that polls while the mutex is free  *)
(* again and again finds it so.                                            *)
Fairness ==
  /\ \A h \in Hooks : WF_vars(HookStep(h))
  /\ \A t \in Tasks : WF_vars(BodyStep(t) \/ CancelPolling(t))
  /\ \A t \in Tasks \ {<<Ingest, "ingest">>} : SF_vars(Acquire(t))

FairSpec == Spec /\ Fairness
-----------------------------------------------------------------------------
(* Every variable has the shape of the object it stands for. *)
TypeOK ==
  /\ file \in File
  /\ cache \in Slot
  /\ applied \in [Parts -> Sections]
  /\ locked \in BOOLEAN
  /\ hook \in [Hooks -> Hook]
  /\ task \in [Tasks -> Task]
  /\ edits \in 0 .. MaxEdits
  /\ timeouts \in 0 .. MaxTimeouts

Holders == {t \in Tasks : task[t].st = "hold"}

(* The mutex is held by one coroutine and for one coroutine: a timeout     *)
(* that cancels a waiter neither leaks it nor releases another's.          *)
MutexAccounted ==
  /\ \A t, u \in Holders : t = u
  /\ locked <=> Holders # {}

Uniform == \A p, q \in Parts : applied[p] = applied[q]

(* A failed reload leaves the parts configured from two sections only when *)
(* the profile of the newer one does not resolve.                          *)
OneConfig == Uniform \/ applied["config"] \in UnknownProfile

(* A scan, of a call or of a tool's result, never sees a reload half done, *)
(* whatever reloads were attempted, timed out or failed validation.        *)
ScanSeesOneConfig ==
  \A t \in Holders : t[2] # "apply" => OneConfig

(* _apply_reconfigure(): "phase-1 success guarantees no commit step        *)
(* raises, so there is no partial cross-object apply".                     *)
NoPartialApply ==
  (\A t \in Tasks : ~Applying(t)) => Uniform

(* commit_seen(): a change between reading and committing costs "at most   *)
(* one redundant re-apply on the next call rather than a correctness bug". *)
(* Once no reload is in progress, a section the reader takes for seen is   *)
(* the one in force.                                                       *)
SeenIsApplied ==
  (/\ \A h \in Hooks : hook[h].pc \in {"idle", "stat", "evaluate", "evaluating"}
   /\ \A h \in Hooks : task[<<h, "apply">>].st = "none"
   /\ cache # NoSlot
   /\ cache.key = file.key
   /\ cache.section = file.section
   /\ file.section # Empty)
    => \A p \in Parts : applied[p] = file.section

(* A section that can be applied, once it is what edits left in the file,  *)
(* is in force before long: neither a timeout nor a failed reload before   *)
(* it makes the plugin miss it.                                            *)
Applicable == Sections \ (Unbuildable \cup BadWeights \cup UnknownProfile)
SaveTakesEffect ==
  file.section \in Applicable ~>
    (file.section \in Applicable => \A p \in Parts : applied[p] = file.section)

(* A tool call is answered, however the mutex is contended. *)
CallReturns == \A h \in Hooks : hook[h].pc = "stat" ~> hook[h].pc = "idle"
=============================================================================
