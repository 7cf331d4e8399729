------------------------------- MODULE ToolGate -------------------------------
(***************************************************************************)
(* The path of a tool call through the reference plugin: the disarm        *)
(* switch, the bounded wait and the syntactic fallback while the plugin    *)
(* initialises, the evaluation by ToolCallGuard under the inspect mutex,   *)
(* the plugin's directive for what the guard allows, and the tier-3 floor  *)
(* that stands in when the evaluation times out or raises.                 *)
(*                                                                         *)
(* Host threads are Calls; each has one tool call in progress.  Every      *)
(* change of the tracker happens under the inspect mutex, in an evaluation *)
(* or in the head scan of an ingested result, so one variable, scan, is    *)
(* the coroutine that holds the mutex and awaits Pipeline.inspect().  The  *)
(* tracker is reduced to the tier it would answer and to the sessions for  *)
(* which is_terminated() holds, which FrequencyTracker shows to be kept    *)
(* while the tombstone store has room.  The lineage registry is the module *)
(* of that name; its clock stands still, as the expiry of an edge does to  *)
(* ancestors() what Unregister does.  Configuration reloads are the        *)
(* subject of LiveReload; the configuration is fixed here and its feature  *)
(* gates are on.                                                           *)
(***************************************************************************)
EXTENDS LineageRegistry

CONSTANTS
  Calls,           \* host threads that dispatch _pre_tool_call()
  Tools,           \* what the gate tells apart about a tool and its arguments
  Outcomes,        \* what a parameter scan may report
  Ingest,          \* the worker of the ingest loop
  Orphan,          \* an evaluation that its host thread has given up on
  LineageWired,    \* whether the host has sub-agent hooks
  InheritTiers,    \* subagent_lineage_enabled
  ExemptParamScan, \* the profile's exempt_param_scan
  FailOpen,        \* fail_mode is "open"
  CanApprove       \* approve posture, a host that supports it, and no yolo

(* waived: the operator has approved the rules of this call before, for    *)
(* good, or for the session where the posture lets him.                    *)
Tool == [readOnly : BOOLEAN, egress : BOOLEAN, delegate : BOOLEAN, exempt : BOOLEAN,
         selfmod : BOOLEAN, tainted : BOOLEAN, waived : BOOLEAN]

(* Blocking findings by kind, and whether a scanner failed. *)
Outcome == [other : BOOLEAN, pii : BOOLEAN, command : BOOLEAN, degraded : BOOLEAN]

ASSUME CallsAssumption ==
  /\ Ingest \notin Calls /\ Orphan \notin Calls /\ None \notin Calls
  /\ Ingest # Orphan /\ Ingest # None /\ Orphan # None
ASSUME ToolsAssumption == Tools # {} /\ Tools \subseteq Tool
ASSUME OutcomesAssumption == Outcomes \subseteq Outcome
ASSUME FlagsAssumption ==
  {LineageWired, InheritTiers, ExemptParamScan, FailOpen, CanApprove} \subseteq BOOLEAN

VARIABLES
  initState,    \* _initialized and _init_error
  waitExpired,  \* _init_wait_expired
  armed,        \* petasos.enabled in the configuration file
  level,        \* the tier the score gives a session that is not terminated
  terminated,   \* the sessions is_terminated() answers True for
  scan,         \* the holder of _inspect_lock
  ingest,       \* the result being ingested: polling for the mutex, or scanned
  calls         \* the tool calls in progress

gateVars == <<initState, waitExpired, armed, level, terminated, scan, ingest, calls>>
vars == <<lineageVars, gateVars>>

AnyTool == CHOOSE t \in Tools : TRUE

(* sealed is history: whether the session was terminated when the call     *)
(* began.  route says who decided, for the fallback by its scan's outcome. *)
Call == [phase : {"idle", "wait", "fallback", "polling", "scanning", "unavailable",
                  "ancestors", "decided"},
         sid : Sessions \cup {None}, tool : Tools,
         route : {"none", "disarmed", "skipped", "clean", "errored", "blocked",
                  "evaluated", "unavailable"},
         verdict : {"none", "allow", "block", "approve"},
         sealed : BOOLEAN]

NoCall == [phase |-> "idle", sid |-> None, tool |-> AnyTool, route |-> "none",
           verdict |-> "none", sealed |-> FALSE]

Scan == [by : Calls \cup {Ingest, Orphan, None}, sid : Sessions \cup {None},
         tool : Tools, tier : 0 .. 2]

NoScan == [by |-> None, sid |-> None, tool |-> AnyTool, tier |-> 0]

Init ==
  /\ LineageInit
  /\ initState = "pending"
  /\ waitExpired = FALSE
  /\ armed = TRUE
  /\ level = [s \in Sessions |-> 0]
  /\ terminated = {}
  /\ scan = NoScan
  /\ ingest = None
  /\ calls = [c \in Calls |-> NoCall]

Enter(c, phase) == calls' = [calls EXCEPT ![c].phase = phase]

Decide(c, route, verdict) ==
  calls' = [calls EXCEPT ![c].phase = "decided", ![c].route = route, ![c].verdict = verdict]

-----------------------------------------------------------------------------
(* What one update() of the tracker may do: score the session, flagged or  *)
(* not, terminate it, and remove others from the table.  A session that    *)
(* becomes terminated, and every one that is removed, loses its outgoing   *)
(* edge.  The guard may reach tier 3 by the profile's thresholds for a     *)
(* session that the tracker has not terminated by its own.                 *)
DropEdges(gone) ==
  edges' = IF LineageWired
           THEN [c \in Sessions |-> IF c \in gone THEN NoEdge ELSE edges[c]]
           ELSE edges

Update(s, flagged) ==
  /\ \E gone \in SUBSET (Sessions \ {s}), new \in 0 .. 3, ends \in BOOLEAN :
       /\ ~flagged => ~ends /\ new <= level[s]
       /\ s \in terminated \/ ends => new = 0
       /\ s \in terminated => ~ends
       /\ level' = [r \in Sessions |-> IF r \in gone THEN 0 ELSE IF r = s THEN new ELSE level[r]]
       /\ terminated' = IF ends THEN terminated \cup {s} ELSE terminated
       /\ DropEdges(IF ends THEN gone \cup {s} ELSE gone)
  /\ UNCHANGED <<now, lineageCfg>>

NoUpdate == UNCHANGED <<lineageVars, level, terminated>>

-----------------------------------------------------------------------------
(* _deferred_init() on its own thread. *)
InitEnds ==
  /\ initState = "pending"
  /\ initState' \in {"done", "failed"}
  /\ UNCHANGED <<lineageVars, waitExpired, armed, level, terminated, scan, ingest, calls>>

(* The operator writes petasos.enabled. *)
SetArmed ==
  /\ armed' = ~armed
  /\ UNCHANGED <<lineageVars, initState, waitExpired, level, terminated, scan, ingest, calls>>

(* _subagent_start() and _subagent_stop(), on any host thread.             *)
SubagentHook ==
  /\ initState = "done"
  /\ LineageWired
  /\ \/ \E child, parent \in Sessions : Register(child, parent)
     \/ \E child \in Sessions : Unregister(child)
  /\ UNCHANGED gateVars

-----------------------------------------------------------------------------
(* _pre_tool_call(): a disarmed gate decides at once; _ensure_initialized()*)
(* waits once per process for the initialisation.                          *)
BeginCall(c, s, t) ==
  /\ calls[c].phase = "idle"
  /\ calls' = [calls EXCEPT ![c] =
       [phase   |-> IF ~armed THEN "decided"
                    ELSE IF initState = "done" THEN "polling"
                    ELSE IF initState = "failed" \/ waitExpired THEN "fallback"
                    ELSE "wait",
        sid     |-> s,
        tool    |-> t,
        route   |-> IF armed THEN "none" ELSE "disarmed",
        verdict |-> IF armed THEN "none" ELSE "allow",
        sealed  |-> s \in terminated]]
  /\ UNCHANGED <<lineageVars, initState, waitExpired, armed, level, terminated, scan, ingest>>

WaitEnds(c) ==
  /\ calls[c].phase = "wait"
  /\ Enter(c, IF initState = "done" THEN "polling" ELSE "fallback")
  /\ waitExpired' = (waitExpired \/ initState = "pending")
  /\ UNCHANGED <<lineageVars, initState, armed, level, terminated, scan, ingest>>

(* Mutant: an errored scan passes too when fail_mode is open. *)
FallbackDecisionErrored(t, outcome) ==
  IF t.readOnly \/ FailOpen THEN "allow" ELSE "block"

(* _fallback_decision(): read-only tools pass; of the others only one that *)
(* was scanned clean, and only when fail_mode is open.                     *)
FallbackDecision(t, outcome) ==
  IF t.readOnly \/ (outcome = "clean" /\ FailOpen) THEN "allow" ELSE "block"

(* The syntactic scan of the cold window.  A clean one that ends after the *)
(* initialisation has completed is followed by the full evaluation.        *)
Fallback(c) ==
  /\ calls[c].phase = "fallback"
  /\ \E outcome \in IF calls[c].tool.readOnly THEN {"skipped"}
                    ELSE {"clean", "errored", "blocked"} :
       IF outcome = "clean" /\ initState = "done"
       THEN Enter(c, "polling")
       ELSE Decide(c, outcome, FallbackDecision(calls[c].tool, outcome))
  /\ UNCHANGED <<lineageVars, initState, waitExpired, armed, level, terminated, scan, ingest>>

-----------------------------------------------------------------------------
(* _derive_tier(): the session's own tier, raised to its ancestors'.  The  *)
(* floor of a terminated ancestor does not depend on InheritTiers.         *)
OwnTier(s) == IF s \in terminated THEN 3 ELSE level[s]

Forebears(s) == {a \in Sessions : LineageWired /\ a \in ToSet(Ancestors(s))}

TierReadings(s) ==
  {OwnTier(s)} \cup {OwnTier(a) : a \in {f \in Forebears(s) : f \in terminated \/ InheritTiers}}

DeriveTier(s) ==
  CHOOSE n \in 0 .. 3 : n \in TierReadings(s) /\ \A m \in TierReadings(s) : m <= n

(* _dangerous_tool_directive(), and the tests of _pre_tool_call() ahead of *)
(* it, for a call that evaluate() answered.                                *)
Directive(t, allowed, f) ==
  IF ~allowed THEN "block"
  ELSE IF t.readOnly THEN "allow"
  ELSE IF (t.egress /\ (t.tainted \/ f.pii)) \/ f.other THEN "block"
  ELSE IF (f.degraded \/ f.command) /\ ~t.waived
       THEN IF CanApprove THEN "approve" ELSE "block"
  ELSE "allow"

NoFindings == [other |-> FALSE, pii |-> FALSE, command |-> FALSE, degraded |-> FALSE]

Flagged(f) == f.other \/ f.pii \/ f.command

(* evaluate() up to its first suspension.  The coroutine takes the mutex   *)
(* and derives the tier.  Tier 3 ends it; so does a delegation over its    *)
(* budget, and an exempt tool that is not scanned.  A self-modification    *)
(* attempt is scored at either of the last two exits.                      *)
EvaluateTier3(c) ==
  /\ calls[c].phase = "polling"
  /\ scan.by = None
  /\ DeriveTier(calls[c].sid) = 3
  /\ Decide(c, "evaluated", "block")
  /\ UNCHANGED <<lineageVars, initState, waitExpired, armed, level, terminated, scan, ingest>>

EvaluateUnscanned(c) ==
  LET s == calls[c].sid
      t == calls[c].tool
  IN
  /\ calls[c].phase = "polling"
  /\ scan.by = None
  /\ DeriveTier(s) < 3
  /\ \/ t.delegate /\ Decide(c, "evaluated", "block")
     \/ /\ t.exempt /\ ~ExemptParamScan
        /\ Decide(c, "evaluated", Directive(t, TRUE, NoFindings))
  /\ IF t.selfmod THEN Update(s, TRUE) ELSE NoUpdate
  /\ UNCHANGED <<initState, waitExpired, armed, scan, ingest>>

(* The parameters are scanned: the coroutine suspends with the mutex held. *)
EvaluateSuspends(c) ==
  LET s == calls[c].sid
      t == calls[c].tool
  IN
  /\ calls[c].phase = "polling"
  /\ scan.by = None
  /\ DeriveTier(s) < 3
  /\ t.exempt => ExemptParamScan
  /\ scan' = [by |-> c, sid |-> s, tool |-> t, tier |-> DeriveTier(s)]
  /\ Enter(c, "scanning")
  /\ UNCHANGED <<lineageVars, initState, waitExpired, armed, level, terminated, ingest>>

(* inspect() returns: its frequency hook has scored the findings, the      *)
(* answer is given by the tier read before the suspension, and the         *)
(* self-modification weight is added.                                      *)
EvaluateReturns(c) ==
  /\ scan.by = c
  /\ \E f \in Outcomes :
       /\ Update(scan.sid, Flagged(f) \/ scan.tool.selfmod)
       /\ Decide(c, "evaluated", Directive(scan.tool, scan.tier < 2 \/ scan.tool.exempt, f))
  /\ scan' = NoScan
  /\ UNCHANGED <<initState, waitExpired, armed, ingest>>

(* evaluate() raises before it suspends. *)
EvaluateRaises(c) ==
  /\ calls[c].phase = "polling"
  /\ scan.by = None
  /\ Enter(c, "unavailable")
  /\ UNCHANGED <<lineageVars, initState, waitExpired, armed, level, terminated, scan, ingest>>

(* _run_async() gives up.  A coroutine that polls is gone; one that holds  *)
(* the mutex is cancelled and runs on to its end.                          *)
EvaluateTimesOut(c) ==
  /\ calls[c].phase \in {"polling", "scanning"}
  /\ scan' = IF scan.by = c THEN [scan EXCEPT !.by = Orphan] ELSE scan
  /\ Enter(c, "unavailable")
  /\ UNCHANGED <<lineageVars, initState, waitExpired, armed, level, terminated, ingest>>

(* The cancellation comes too late, or inspect() absorbs it and scores no  *)
(* findings; the self-modification weight is added in either case.         *)
OrphanEnds ==
  /\ scan.by = Orphan
  /\ \/ \E f \in Outcomes : Update(scan.sid, Flagged(f) \/ scan.tool.selfmod)
     \/ ~scan.tool.selfmod /\ NoUpdate
  /\ scan' = NoScan
  /\ UNCHANGED <<initState, waitExpired, armed, ingest, calls>>

-----------------------------------------------------------------------------
(* Mutant: an evaluation that failed goes straight to the fallback. *)
TerminatedFloorUnread(c) ==
  /\ calls[c].phase = "unavailable"
  /\ Decide(c, "unavailable", FallbackDecision(calls[c].tool, "errored"))
  /\ UNCHANGED <<lineageVars, initState, waitExpired, armed, level, terminated, scan, ingest>>

(* _terminated_floor() on the host thread, without the mutex: the session  *)
(* itself first, then its ancestors.                                       *)
TerminatedFloor(c) ==
  /\ calls[c].phase = "unavailable"
  /\ IF calls[c].sid \in terminated THEN Decide(c, "unavailable", "block")
     ELSE Enter(c, "ancestors")
  /\ UNCHANGED <<lineageVars, initState, waitExpired, armed, level, terminated, scan, ingest>>

AncestorFloor(c) ==
  /\ calls[c].phase = "ancestors"
  /\ Decide(c, "unavailable",
            IF Forebears(calls[c].sid) \cap terminated # {} THEN "block"
            ELSE FallbackDecision(calls[c].tool, "errored"))
  /\ UNCHANGED <<lineageVars, initState, waitExpired, armed, level, terminated, scan, ingest>>

Return(c) ==
  /\ calls[c].phase = "decided"
  /\ calls' = [calls EXCEPT ![c] = NoCall]
  /\ UNCHANGED <<lineageVars, initState, waitExpired, armed, level, terminated, scan, ingest>>

-----------------------------------------------------------------------------
(* _transform_tool_result(): one result at a time is scanned on the ingest *)
(* loop, its head under the mutex.                                         *)
BeginIngest(s) ==
  /\ armed
  /\ initState = "done"
  /\ ingest = None
  /\ ingest' = s
  /\ UNCHANGED <<lineageVars, initState, waitExpired, armed, level, terminated, scan, calls>>

IngestAcquires ==
  /\ ingest # None
  /\ scan.by = None
  /\ scan' = [NoScan EXCEPT !.by = Ingest, !.sid = ingest]
  /\ UNCHANGED <<lineageVars, initState, waitExpired, armed, level, terminated, ingest, calls>>

(* Mutant: the head is inspected without the mutex. *)
IngestScansUnlocked ==
  /\ ingest # None
  /\ \E flagged \in BOOLEAN : Update(ingest, flagged)
  /\ ingest' = None
  /\ UNCHANGED <<initState, waitExpired, armed, scan, calls>>

IngestScans ==
  /\ scan.by = Ingest
  /\ \E flagged \in BOOLEAN : Update(ingest, flagged)
  /\ scan' = NoScan
  /\ ingest' = None
  /\ UNCHANGED <<initState, waitExpired, armed, calls>>

(* Its budget runs out: a cancelled inspect() scores nothing.              *)
IngestTimesOut ==
  /\ ingest # None
  /\ scan' = IF scan.by = Ingest THEN NoScan ELSE scan
  /\ ingest' = None
  /\ UNCHANGED <<lineageVars, initState, waitExpired, armed, level, terminated, calls>>

-----------------------------------------------------------------------------
CallStep(c) ==
  \/ \E s \in Sessions, t \in Tools : BeginCall(c, s, t)
  \/ WaitEnds(c) \/ Fallback(c)
  \/ EvaluateTier3(c) \/ EvaluateUnscanned(c) \/ EvaluateSuspends(c) \/ EvaluateReturns(c)
  \/ EvaluateRaises(c) \/ EvaluateTimesOut(c)
  \/ TerminatedFloor(c) \/ AncestorFloor(c) \/ Return(c)

IngestStep ==
  \/ \E s \in Sessions : BeginIngest(s)
  \/ IngestAcquires \/ IngestScans \/ IngestTimesOut

Next ==
  \/ InitEnds \/ SetArmed \/ SubagentHook \/ OrphanEnds \/ IngestStep
  \/ \E c \in Calls : CallStep(c)

Spec == Init /\ [][Next]_vars
-----------------------------------------------------------------------------
(* Every variable has the shape of the Python state it stands for, and the *)
(* mutex has one holder, which is the call that is scanning.               *)
TypeOK ==
  /\ LineageTypeOK
  /\ initState \in {"pending", "done", "failed"}
  /\ waitExpired \in BOOLEAN
  /\ armed \in BOOLEAN
  /\ level \in [Sessions -> 0 .. 3]
  /\ terminated \subseteq Sessions
  /\ scan \in Scan
  /\ ingest \in Sessions \cup {None}
  /\ calls \in [Calls -> Call]

(* A call of a session that was terminated when the call began is blocked, *)
(* read-only tools included, whether its evaluation answers, raises or     *)
(* times out (evaluate() step 3, the except arm of _pre_tool_call()).      *)
SealedIsBlocked ==
  \A c \in Calls :
    (calls[c].phase = "decided" /\ calls[c].sealed /\ calls[c].route # "disarmed")
      => calls[c].verdict = "block"

(* The tier that evaluate() read before it suspended does not go stale     *)
(* upwards: nobody terminates the session while its parameters are being   *)
(* scanned, so no answer "allowed" is given for a terminated session other *)
(* than by the scan that terminates it.                                    *)
EvaluatedStaysLive == scan.by \in Calls \cup {Orphan} => scan.sid \notin terminated

(* A tool that can change things runs only after the full evaluation, or,  *)
(* with fail_mode open, after a clean syntactic scan before the plugin is  *)
(* initialised.                                                            *)
DangerousIsScanned ==
  \A c \in Calls :
    (calls[c].verdict \in {"allow", "approve"} /\ ~calls[c].tool.readOnly) =>
      \/ calls[c].route \in {"disarmed", "evaluated"}
      \/ calls[c].route = "clean" /\ FailOpen
=============================================================================
