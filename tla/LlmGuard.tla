------------------------------- MODULE LlmGuard -------------------------------
(***************************************************************************)
(* LlmGuardScanner (llm_guard.py).  A scan loads the backend on the thread *)
(* of its event loop, holding _lock, and runs the sub-scanners in a worker *)
(* thread; the inspect mutex admits one scan at a time, and a cancelled    *)
(* one leaves its worker behind.  The console reads the health of the load *)
(* without a lock, and a maintenance call may reset the scanner, between   *)
(* any two steps of a scan.                                                *)
(***************************************************************************)
EXTENDS Values, Naturals

CONSTANTS
  Workers,       \* the worker threads there may be
  MaxAttempts,   \* _MAX_LOAD_ATTEMPTS
  SubScanners,   \* how many sub-scanners are enabled; the first one always is
  MaxScans, MaxResets  \* bounds

Failures == {"absent", "slots", "broken"}

ASSUME LlmGuardAssumption ==
  /\ MaxAttempts \in Nat \ {0} /\ SubScanners \in Nat \ {0} /\ MaxScans \in Nat /\ MaxResets \in Nat
  /\ None \notin Workers \cup Failures \cup {"clean"}

VARIABLES
  backend,   \* "absent", "slots" (a load fails on a weak reference), "broken", "fine"
  lg,        \* the attributes of the scanner
  lgScan,    \* the coroutine: where it is, the worker it waits for, what it answered
  worker,    \* _scan_sync() of each thread: the list it is bound to, whether a sub-scanner raised
  lgScans, resets,
  lost       \* history: how loads failed since the last success or reset; the weak ones since a reset

lgVars == <<backend, lg, lgScan, worker, lgScans, resets, lost>>

LgFresh == [loaded |-> FALSE, error |-> None, retryable |-> FALSE, attempts |-> 0, health |-> None,
            scanners |-> 0]
LgAt(place) == lgScan' = [lgScan EXCEPT !.at = place]
LgAnswer(a) == lgScan' = [lgScan EXCEPT !.at = "idle", !.worker = None, !.answer = a]

(* availability().                                                         *)
LgAvailable == ~(lg.error # None /\ ~lg.retryable) /\ backend # "absent"

-----------------------------------------------------------------------------
LgCall ==
  /\ lgScan.at = "idle" /\ lgScans < MaxScans
  /\ lgScans' = lgScans + 1
  /\ lgScan' = [at |-> "ensuring", worker |-> None, answer |-> None]
  /\ UNCHANGED <<backend, lg, worker, resets, lost>>

(* _ensure_loaded() up to the load: a retryable error is cleared if the    *)
(* backend has become available; the health of the load is not.            *)
Ensure ==
  /\ lgScan.at = "ensuring"
  /\ IF lg.loaded \/ (lg.error # None /\ (~lg.retryable \/ ~LgAvailable))
       THEN LgAt("ensured") /\ UNCHANGED lg
     ELSE /\ LgAt("loading")
          /\ lg' = [LgFresh EXCEPT !.attempts = lg.attempts, !.health = lg.health]
  /\ UNCHANGED <<backend, worker, lgScans, resets, lost>>

(* One more sub-scanner is instantiated.                                   *)
LoadOne ==
  /\ lgScan.at = "loading" /\ backend = "fine" /\ lg.scanners < SubScanners
  /\ lg' = [lg EXCEPT !.scanners = @ + 1]
  /\ UNCHANGED <<backend, lgScan, worker, lgScans, resets, lost>>

(* The health is cleared first, success is published next.                 *)
Loaded ==
  /\ lgScan.at = "loading" /\ lg.scanners = SubScanners
  /\ IF lg.health # None
       THEN lg' = [lg EXCEPT !.health = None] /\ UNCHANGED lgScan
     ELSE lg' = [lg EXCEPT !.loaded = TRUE] /\ LgAt("ensured")
  /\ lost' = [lost EXCEPT !.last = None]
  /\ UNCHANGED <<backend, worker, lgScans, resets>>

(* The arms of the handler: package missing, crash on a weak reference,    *)
(* any other crash.  The error is set before the health.                   *)
LgLoadFails ==
  LET attempts == lg.attempts + 1 IN
  /\ lgScan.at = "loading" /\ lg.error = None /\ lg.scanners < SubScanners
  /\ backend # "fine"
  /\ lg' = CASE backend = "absent" -> [lg EXCEPT !.error = "absent", !.retryable = TRUE]
             [] backend = "slots"  -> [lg EXCEPT !.error = "slots", !.attempts = attempts,
                                                 !.retryable = attempts < MaxAttempts]
             [] OTHER              -> [lg EXCEPT !.error = "broken", !.retryable = FALSE]
  /\ lost' = [last |-> backend, weak |-> IF backend = "slots" THEN lost.weak + 1 ELSE lost.weak]
  /\ LgAt("failing")
  /\ UNCHANGED <<backend, worker, lgScans, resets>>

LoadFailed ==
  /\ lgScan.at = "failing"
  /\ lg' = [lg EXCEPT !.health = lg.error]
  /\ LgAt("ensured")
  /\ UNCHANGED <<backend, worker, lgScans, resets, lost>>

(* Back in scan(): the error is read again, without the lock.              *)
Refuse ==
  /\ lgScan.at = "ensured" /\ lg.error # None
  /\ LgAnswer("error")
  /\ UNCHANGED <<backend, lg, worker, lgScans, resets, lost>>

LgDispatch(w) ==
  /\ lgScan.at = "ensured" /\ lg.error = None
  /\ worker[w].at = "idle"
  /\ worker' = [worker EXCEPT ![w] = [at |-> "queued", bound |-> 0, raised |-> FALSE]]
  /\ lgScan' = [lgScan EXCEPT !.at = "awaiting", !.worker = w]
  /\ UNCHANGED <<backend, lg, lgScans, resets, lost>>

(* The pipeline cancels the coroutine; the worker runs to completion.      *)
LgCancel ==
  /\ lgScan.at = "awaiting"
  /\ LgAnswer("cancelled")
  /\ UNCHANGED <<backend, lg, worker, lgScans, resets, lost>>

(* The thread binds the list there is now.                                 *)
Bind(w) ==
  /\ worker[w].at = "queued"
  /\ worker' = [worker EXCEPT ![w].at = "scanning", ![w].bound = lg.scanners]
  /\ UNCHANGED <<backend, lg, lgScan, lgScans, resets, lost>>

SubScannerRaises(w) ==
  /\ worker[w].at = "scanning" /\ ~worker[w].raised /\ worker[w].bound > 0
  /\ worker' = [worker EXCEPT ![w].raised = TRUE]
  /\ UNCHANGED <<backend, lg, lgScan, lgScans, resets, lost>>

(* Mutant: a list that is empty is a loop that does not run.               *)
ResultUnguarded(w) == IF worker[w].raised THEN "error" ELSE "clean"

(* Findings aside, what the result says.                                   *)
Result(w) == IF worker[w].raised \/ worker[w].bound = 0 THEN "error" ELSE "clean"

LgFinish(w) ==
  /\ worker[w].at = "scanning"
  /\ worker' = [worker EXCEPT ![w].at = "idle"]
  /\ IF lgScan.worker = w THEN LgAnswer(Result(w)) ELSE UNCHANGED lgScan
  /\ UNCHANGED <<backend, lg, lgScans, resets, lost>>

(* reset(), in the critical section of the lock.                           *)
Reset ==
  /\ lgScan.at \notin {"loading", "failing"} /\ resets < MaxResets
  /\ resets' = resets + 1
  /\ lg' = LgFresh
  /\ lost' = [last |-> None, weak |-> 0]
  /\ UNCHANGED <<backend, lgScan, worker, lgScans>>

(* The host installs the package, or rebinds its standard output.          *)
BackendChanges ==
  /\ \/ backend = "absent" /\ backend' \in {"slots", "broken", "fine"}
     \/ backend = "slots" /\ backend' = "fine"
     \/ backend = "fine" /\ backend' = "slots"
  /\ UNCHANGED <<lg, lgScan, worker, lgScans, resets, lost>>

LlmGuardInit ==
  /\ backend \in {"absent", "slots", "broken", "fine"}
  /\ lg = LgFresh
  /\ lgScan = [at |-> "idle", worker |-> None, answer |-> None]
  /\ worker = [w \in Workers |-> [at |-> "idle", bound |-> 0, raised |-> FALSE]]
  /\ lgScans = 0 /\ resets = 0
  /\ lost = [last |-> None, weak |-> 0]

LlmGuardNext ==
  \/ BackendChanges \/ LgCall \/ Ensure \/ LoadOne \/ Loaded \/ LgLoadFails \/ LoadFailed
  \/ Refuse \/ LgCancel \/ Reset
  \/ \E w \in Workers : LgDispatch(w) \/ Bind(w) \/ SubScannerRaises(w) \/ LgFinish(w)

LlmGuardSpec == LlmGuardInit /\ [][LlmGuardNext]_lgVars

-----------------------------------------------------------------------------
(* A scan answers "clean" only if every sub-scanner that is enabled ran    *)
(* over the text and none raised, whatever reset() did in between          *)
(* (llm_guard.py:387-426).                                                 *)
CleanIsScanned ==
  [][\A w \in Workers : (lgScan.worker = w /\ lgScan'.answer = "clean") =>
       worker[w].bound = SubScanners /\ ~worker[w].raised]_lgVars

(* The health shows a failed load from its handler until a load succeeds,  *)
(* through every attempt in between, and a reader that sees the scanner    *)
(* loaded never sees it failed as well (llm_guard.py:152-164).             *)
HealthIsHonest ==
  /\ lg.loaded => lg.health = None
  /\ lost.last # None /\ lgScan.at # "failing" => lg.health # None

(* Loads that fail on a weak reference are tried a limited number of times *)
(* until a reset, whatever other failures come between, and a crash of any *)
(* other kind is never tried again (llm_guard.py:311-325).                 *)
RetriesBounded ==
  /\ lost.weak <= MaxAttempts
  /\ lgScan.at = "loading" => lost.last # "broken"
=============================================================================
