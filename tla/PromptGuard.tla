----------------------------- MODULE PromptGuard -----------------------------
(***************************************************************************)
(* PromptGuardScanner (prompt_guard.py): scans run in worker threads over  *)
(* one model that every copy of the scanner shares.  The first scan loads  *)
(* it under _LOAD_LOCK, which nobody waits for; inference runs one at a    *)
(* time under _INFER_LOCK, which a scan polls for a limited time.  The     *)
(* coroutine of a scan may be cancelled at any moment; its thread goes on. *)
(*                                                                         *)
(* Clocks count down: WaitTicks is _INFER_WAIT_SECONDS and RetryTicks is   *)
(* _LOAD_RETRY_SECONDS.                                                    *)
(***************************************************************************)
EXTENDS Values, Naturals

CONSTANTS
  PromptScans,     \* the scans there may be at a time
  WaitTicks, RetryTicks,
  MaxPromptCalls   \* bound: calls of scan() altogether

Results == {"hit", "scored", "nonfinite", "error", "timeout"}
Answers == {"clean", "hit", "error", "timeout", "cancelled"}
Cooldown == [final : BOOLEAN, left : Nat]
Failed == [final : BOOLEAN, ago : Nat]

ASSUME PromptGuardAssumption ==
  /\ WaitTicks \in Nat \ {0} /\ RetryTicks \in Nat \ {0} /\ MaxPromptCalls \in Nat
  /\ None \notin PromptScans \cup Results \cup Answers /\ None \notin Cooldown \cup Failed

VARIABLES
  host,      \* packages present, snapshot complete, download possible
  model,     \* _MODEL is there
  failure,   \* _LOAD_ERROR: None, or whether it is final and the ticks until a retry
  loader,    \* the holder of _LOAD_LOCK
  scorer,    \* the holder of _INFER_LOCK
  thread,    \* _scan_sync(): where it is, its text, the ticks it may still wait
  answer,    \* what the coroutine of a scan gave its caller; None while it is awaited
  calls,
  failed     \* history: None, or how the last load failed and how long ago

promptVars == <<host, model, failure, loader, scorer, thread, answer, calls, failed>>

(* _availability() once the model is not loaded.                           *)
CoolingDown == failure # None /\ (failure.final \/ failure.left > 0)
Available == model \/ (host.packages /\ ~CoolingDown /\ (host.complete \/ host.download))

IdleThread == [at |-> "idle", blank |-> FALSE, left |-> 0, result |-> None]
Goto(s, place) == thread' = [thread EXCEPT ![s].at = place]
Ends(s, result) == thread' = [thread EXCEPT ![s].at = "ended", ![s].result = result]

-----------------------------------------------------------------------------
(* scan(): the thread is queued.                                           *)
Call(s, blank) ==
  /\ thread[s].at = "idle" /\ calls < MaxPromptCalls
  /\ calls' = calls + 1
  /\ thread' = [thread EXCEPT ![s] = [IdleThread EXCEPT !.at = "queued", !.blank = blank]]
  /\ answer' = [answer EXCEPT ![s] = None]
  /\ UNCHANGED <<host, model, failure, loader, scorer, failed>>

Cancelled(s) == answer[s] # None

(* wait_for() of the pipeline gives up on the coroutine, which sets the    *)
(* event that its thread reads.                                            *)
Cancel(s) ==
  /\ thread[s].at # "idle" /\ answer[s] = None
  /\ answer' = [answer EXCEPT ![s] = "cancelled"]
  /\ UNCHANGED <<host, model, failure, loader, scorer, thread, calls, failed>>

(* _map_score() of what the thread returned, or the exception it raised.   *)
Verdict(result) == CASE result \in {None, "scored"} -> "clean"
                     [] result = "nonfinite" -> "error"
                     [] OTHER -> result

Return(s) ==
  /\ thread[s].at = "ended"
  /\ answer' = [answer EXCEPT ![s] = IF @ = None THEN Verdict(thread[s].result) ELSE @]
  /\ thread' = [thread EXCEPT ![s].at = "idle"]
  /\ UNCHANGED <<host, model, failure, loader, scorer, calls, failed>>

(* The thread looks at the text, then at the backend.                      *)
Begin(s) ==
  /\ thread[s].at = "queued"
  /\ IF Cancelled(s) \/ thread[s].blank THEN Ends(s, None)
     ELSE IF Available THEN Goto(s, "ensuring") ELSE Ends(s, "error")
  /\ UNCHANGED <<host, model, failure, loader, scorer, answer, calls, failed>>

Queues(s) == thread' = [thread EXCEPT ![s].at = "waiting", ![s].left = WaitTicks]

EnsureLoaded(s) ==
  /\ thread[s].at = "ensuring" /\ model
  /\ Queues(s)
  /\ UNCHANGED <<host, model, failure, loader, scorer, answer, calls, failed>>

(* Another scan loads the model: refused, rather than kept waiting.        *)
EnsureWarmingUp(s) ==
  /\ thread[s].at = "ensuring" /\ ~model /\ loader # None
  /\ Ends(s, "error")
  /\ UNCHANGED <<host, model, failure, loader, scorer, answer, calls, failed>>

(* The lock is free.  Another copy's load may have failed since Begin.     *)
EnsureLocks(s) ==
  /\ thread[s].at = "ensuring" /\ ~model /\ loader = None
  /\ IF Available THEN Goto(s, "loading") /\ loader' = s
     ELSE Ends(s, "error") /\ UNCHANGED loader
  /\ UNCHANGED <<host, model, failure, scorer, answer, calls, failed>>

Load(s) ==
  /\ thread[s].at = "loading"
  /\ model' = TRUE /\ failure' = None /\ loader' = None
  /\ Queues(s)
  /\ host' = [host EXCEPT !.complete = TRUE]
  /\ failed' = None
  /\ UNCHANGED <<scorer, answer, calls>>

(* A load from a partial snapshot, or one that lacks memory, may be tried  *)
(* again after a while; any other failure is final.                        *)
LoadFails(s, transient) ==
  /\ thread[s].at = "loading"
  /\ transient \/ host.complete
  /\ failure' = [final |-> ~transient, left |-> RetryTicks]
  /\ failed' = [final |-> ~transient, ago |-> 0]
  /\ loader' = None
  /\ Ends(s, "error")
  /\ UNCHANGED <<host, model, scorer, answer, calls>>

Score(s) ==
  /\ thread[s].at = "waiting" /\ ~Cancelled(s) /\ scorer = None
  /\ thread[s].left > 0
  /\ scorer' = s
  /\ Goto(s, "scoring")
  /\ UNCHANGED <<host, model, failure, loader, answer, calls, failed>>

(* The event is looked at in every poll and again under the lock.          *)
AbandonScan(s) ==
  /\ thread[s].at = "waiting" /\ Cancelled(s)
  /\ Ends(s, None)
  /\ UNCHANGED <<host, model, failure, loader, scorer, answer, calls, failed>>

(* Mutant: a scan that waited in vain has nothing to report.               *)
GiveUpSilently(s) ==
  /\ thread[s].at = "waiting" /\ ~Cancelled(s) /\ thread[s].left = 0
  /\ Ends(s, None)
  /\ UNCHANGED <<host, model, failure, loader, scorer, answer, calls, failed>>

(* Mutant: the deadline is taken anew in every poll.                       *)
GiveUpRenewing(s) ==
  /\ thread[s].at = "waiting" /\ ~Cancelled(s) /\ thread[s].left = 0
  /\ Queues(s)
  /\ UNCHANGED <<host, model, failure, loader, scorer, answer, calls, failed>>

(* The error has the prefix of a timeout, for the breaker of the pipeline. *)
GiveUp(s) ==
  /\ thread[s].at = "waiting" /\ ~Cancelled(s) /\ thread[s].left = 0
  /\ Ends(s, "timeout")
  /\ UNCHANGED <<host, model, failure, loader, scorer, answer, calls, failed>>

Scored(s) ==
  /\ thread[s].at = "scoring"
  /\ \E result \in {"hit", "scored", "nonfinite", "error"} : Ends(s, result)
  /\ scorer' = None
  /\ UNCHANGED <<host, model, failure, loader, answer, calls, failed>>

(* The operator installs packages, downloads the snapshot or sets a token. *)
Provision ==
  /\ host' \in [packages : BOOLEAN, complete : BOOLEAN, download : BOOLEAN]
  /\ \A part \in DOMAIN host : host[part] => host'[part]
  /\ host' # host
  /\ UNCHANGED <<model, failure, loader, scorer, thread, answer, calls, failed>>

Less(n) == IF n > 0 THEN n - 1 ELSE 0

Tick ==
  /\ thread' = [s \in PromptScans |-> [thread[s] EXCEPT !.left = Less(@)]]
  /\ failure' = IF failure = None THEN None ELSE [failure EXCEPT !.left = Less(@)]
  /\ failed' = IF failed # None /\ failed.ago < RetryTicks THEN [failed EXCEPT !.ago = @ + 1]
               ELSE failed
  /\ UNCHANGED <<host, model, loader, scorer, answer, calls>>

PromptInit ==
  /\ host \in [packages : BOOLEAN, complete : BOOLEAN, download : BOOLEAN]
  /\ model = FALSE /\ failure = None /\ loader = None /\ scorer = None
  /\ thread = [s \in PromptScans |-> IdleThread]
  /\ answer = [s \in PromptScans |-> None]
  /\ calls = 0
  /\ failed = None

(* What a thread does by itself; a load or a forward pass may never end.   *)
Runs(s) ==
  \/ Begin(s) \/ EnsureLoaded(s) \/ EnsureWarmingUp(s) \/ EnsureLocks(s)
  \/ Score(s) \/ AbandonScan(s) \/ GiveUp(s) \/ Return(s)

PromptNext ==
  \/ Provision \/ Tick
  \/ \E s \in PromptScans :
       \/ \E blank \in BOOLEAN : Call(s, blank)
       \/ Cancel(s) \/ Runs(s) \/ Load(s) \/ Scored(s)
       \/ \E transient \in BOOLEAN : LoadFails(s, transient)

PromptFairness == WF_promptVars(Tick) /\ \A s \in PromptScans : WF_promptVars(Runs(s))

PromptSpec == PromptInit /\ [][PromptNext]_promptVars /\ PromptFairness

-----------------------------------------------------------------------------
(* A scan that its caller takes for clean was scored, or had no text: a    *)
(* thread that gave up, was refused or was abandoned never says so         *)
(* (prompt_guard.py:351-391).                                              *)
CleanIsScored ==
  \A s \in PromptScans : answer[s] = "clean" => thread[s].blank \/ thread[s].result = "scored"

(* The model is loaded once.  After a failed load nobody tries again       *)
(* before the cooldown is over, or ever if the failure is final, however   *)
(* many copies had found the backend available before it failed            *)
(* (prompt_guard.py:283-320).                                              *)
LoadsRationed ==
  [][\A s \in PromptScans : (thread[s].at # "loading" /\ thread'[s].at = "loading") =>
       /\ ~model /\ \A r \in PromptScans : thread[r].at # "loading"
       /\ failed # None => ~failed.final /\ failed.ago >= RetryTicks]_promptVars

(* No scan waits for the load of another, and none waits for ever for the  *)
(* inference of another, one that never ends included                      *)
(* (prompt_guard.py:366-391).                                              *)
ScansReturn ==
  \A s \in PromptScans : thread[s].at \in {"queued", "ensuring", "waiting"}
                     ~> (answer[s] # None \/ thread[s].at \in {"loading", "scoring"})
=============================================================================
