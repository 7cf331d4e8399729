------------------------------- MODULE Pipeline -------------------------------
(***************************************************************************)
(* Pipeline.inspect() of petasos/pipeline.py: the fan-out to the ML        *)
(* scanners under their circuit breakers, for inspections that overlap on  *)
(* an event loop, and the verdict that follows.                            *)
(*                                                                         *)
(* An inspection suspends only while a scanner runs, so everything before  *)
(* the fan-out is one action, and so is everything after it.  What the     *)
(* frequency tracker answers is open here (FrequencyTracker models it),    *)
(* and so is the session; the audit and alert hooks add to errors[], which *)
(* the verdict does not read.  The console calls reconfigure() without the *)
(* inspect mutex, hence at any time.                                       *)
(***************************************************************************)
EXTENDS Verdict

CONSTANTS
  Inspections,   \* calls of inspect()
  NumScanners,   \* the ML scanners, in the order of _ml_scanners
  Profiles,      \* the profiles a call may name, as they are written down
  Reports,       \* the findings an ML scanner may report
  Syntactic,     \* the findings the minimal scanner may report
  Configs,
  TierAnswers,   \* what _escalation_hook() may return; Absent is None
  Absent,
  MaxNow         \* bound: the last instant of the clock

Scanners == 1 .. NumScanners

Config == [failMode : {"open", "closed", "degraded"}, threshold : Nat \ {0}, cooldown : Nat \ {0}]

Tiers == {"none", "tier1", "tier2", "tier3", Absent}

ASSUME RulesAssumption ==
  /\ StructuralRules \cap (SelfmodRules \cup InjectionRules \cup OtherRules) = {}
  /\ SelfmodRules \cap (InjectionRules \cup OtherRules) = {}
  /\ InjectionRules \cap OtherRules = {}
ASSUME ScannersAssumption == NumScanners \in Nat
(* _check_structural_overrides() *)
ASSUME ProfilesAssumption ==
  \A p \in Profiles : p \in Profile /\ \A r \in StructuralRules : p.overrides[r] = Keep
ASSUME ReportsAssumption ==
  \A q \in Reports \cup Syntactic :
    q \in Seq(Finding) /\ \A k \in DOMAIN q : q[k].start <= q[k].end
ASSUME ConfigsAssumption == Configs \subseteq Config
ASSUME TiersAssumption == TierAnswers \subseteq Tiers
ASSUME NowAssumption == MaxNow \in Nat \ {0}

VARIABLES
  now,
  cfg,       \* _config
  breaker,   \* _breaker_consecutive_timeouts and _breaker_open_until
  insp,      \* the inspections in progress
  streak,    \* history: timeouts of a scanner since it last did otherwise
  lastEnd    \* history: when a scan of it ended last

vars == <<now, cfg, breaker, insp, streak, lastEnd>>

(* A scan that has not begun, or is running; else its result is known. *)
Scan == [st : {"none", "running", "done"}, threshold : Nat, result : ScanResult]

Clean == [findings |-> << >>, error |-> "none"]
NoScan == [st |-> "none", threshold |-> 0, result |-> Clean]
Failed(error) == [findings |-> << >>, error |-> error]
Done(r) == [NoScan EXCEPT !.st = "done", !.result = r]

(* No entry in _breaker_open_until; the clock starts at 1. *)
Closed == 0
NoTimeouts == [count |-> 0, openUntil |-> Closed]

(* failMode is that of the configuration when the verdict was reached. *)
Inspection == [phase : {"idle", "scanning", "decided"}, direction : Directions, profile : Profile,
               minimal : ScanResult, early : BOOLEAN, ml : [Scanners -> Scan],
               safe : BOOLEAN, tier : Tiers, failMode : {"", "open", "closed", "degraded"},
               raised : BOOLEAN]

NoProfile == [suppress |-> {}, overrides |-> [r \in Rules |-> Keep], confidenceFloor |-> 0,
              scope |-> "all"]
NoInspection ==
  [phase |-> "idle", direction |-> "inbound", profile |-> NoProfile, minimal |-> Clean,
   early |-> FALSE, ml |-> [s \in Scanners |-> NoScan], safe |-> FALSE, tier |-> Absent,
   failMode |-> "", raised |-> FALSE]

Init ==
  /\ now = 1
  /\ cfg \in Configs
  /\ breaker = [s \in Scanners |-> NoTimeouts]
  /\ insp = [i \in Inspections |-> NoInspection]
  /\ streak = [s \in Scanners |-> 0]
  /\ lastEnd = [s \in Scanners |-> 0]

-----------------------------------------------------------------------------
(* Stages 1 to 3. *)
Begin(i, direction, p, minimal) ==
  /\ insp[i].phase = "idle"
  /\ insp' = [insp EXCEPT ![i] =
       [NoInspection EXCEPT !.phase = "scanning", !.direction = direction, !.profile = Resolve(p),
                            !.minimal = minimal, !.early = EarlyExit(minimal, cfg.failMode)]]
  /\ UNCHANGED <<now, cfg, breaker, streak, lastEnd>>

Scanning(i) == insp[i].phase = "scanning" /\ ~insp[i].early

(* _scan_with_breaker() up to its await. *)
ShortCircuit(i, s) ==
  /\ Scanning(i)
  /\ insp[i].ml[s].st = "none"
  /\ breaker[s].openUntil # Closed /\ now < breaker[s].openUntil
  /\ insp' = [insp EXCEPT ![i].ml[s] = Done(Failed("open"))]
  /\ UNCHANGED <<now, cfg, breaker, streak, lastEnd>>

StartScan(i, s) ==
  /\ Scanning(i)
  /\ insp[i].ml[s].st = "none"
  /\ breaker[s].openUntil = Closed \/ now >= breaker[s].openUntil
  /\ insp' = [insp EXCEPT ![i].ml[s] = [NoScan EXCEPT !.st = "running", !.threshold = cfg.threshold]]
  /\ breaker' = IF breaker[s].openUntil = Closed THEN breaker
                ELSE [breaker EXCEPT ![s] = NoTimeouts]
  /\ UNCHANGED <<now, cfg, streak, lastEnd>>

(* The breaker after a scan that began under the given threshold. *)
AfterTimeout(s, threshold) ==
  LET count == breaker[s].count + 1
  IN  [count |-> count,
       openUntil |-> IF count >= threshold THEN now + cfg.cooldown ELSE breaker[s].openUntil]

(* ... and from it on. *)
(* Mutant: only a success ends a streak of timeouts. *)
ScanEndsKeepingStreak(i, s, r) ==
  /\ insp[i].ml[s].st = "running"
  /\ insp' = [insp EXCEPT ![i].ml[s] = Done(r)]
  /\ breaker' = [breaker EXCEPT ![s] =
       CASE r.error = "timeout" -> AfterTimeout(s, insp[i].ml[s].threshold)
         [] r.error = "none" -> NoTimeouts
         [] OTHER -> @]
  /\ streak' = [streak EXCEPT ![s] = IF r.error = "timeout" THEN @ + 1 ELSE 0]
  /\ lastEnd' = [lastEnd EXCEPT ![s] = now]
  /\ UNCHANGED <<now, cfg>>

ScanEnds(i, s, r) ==
  /\ insp[i].ml[s].st = "running"
  /\ insp' = [insp EXCEPT ![i].ml[s] = Done(r)]
  /\ breaker' = [breaker EXCEPT ![s] = IF r.error = "timeout"
                                       THEN AfterTimeout(s, insp[i].ml[s].threshold)
                                       ELSE NoTimeouts]
  /\ streak' = [streak EXCEPT ![s] = IF r.error = "timeout" THEN @ + 1 ELSE 0]
  /\ lastEnd' = [lastEnd EXCEPT ![s] = now]
  /\ UNCHANGED <<now, cfg>>

Outcomes == {[findings |-> q, error |-> "none"] : q \in Reports}
              \cup {Failed("timeout"), Failed("raised")}

-----------------------------------------------------------------------------
(* Stages 4b to 8b. *)
MLResults(i) == [s \in Scanners |-> insp[i].ml[s].result]

Reported(i) ==
  LET upTo[s \in 0 .. NumScanners] ==
        IF s = 0 THEN insp[i].minimal.findings ELSE upTo[s - 1] \o insp[i].ml[s].result.findings
  IN  upTo[NumScanners]

Unsuppressed(i) == Suppress(Reported(i), insp[i].profile, insp[i].direction)

Merged(i) == MergeFindings(Unsuppressed(i))

SafetyNet(i) == StandaloneTier3Check(Merged(i))

Decide(i, tier) ==
  /\ insp[i].phase = "scanning"
  /\ insp[i].early \/ \A s \in Scanners : insp[i].ml[s].st = "done"
  /\ LET findings == Adjust(Merged(i), insp[i].profile, insp[i].direction)
         ml       == IF insp[i].early THEN << >> ELSE MLResults(i)
         safe     == /\ ~insp[i].early
                     /\ ~SafetyNet(i)
                     /\ ComputeSafe(findings, insp[i].minimal, ml, cfg.failMode)
     IN  insp' = [insp EXCEPT ![i] =
           [@ EXCEPT !.phase = "decided", !.failMode = cfg.failMode, !.safe = safe,
                     !.tier = IF SafetyNet(i) THEN "tier3" ELSE tier]]
  /\ UNCHANGED <<now, cfg, breaker, streak, lastEnd>>

(* An exception at the boundary of inspect(), such as a cancellation or a  *)
(* profile that does not resolve, is an unsafe verdict without findings.   *)
(* A scan that is running when it is cancelled ends with an error.         *)
Raise(i) ==
  LET cut == {s \in Scanners : insp[i].ml[s].st = "running"} IN
  /\ insp[i].phase = "scanning"
  /\ insp' = [insp EXCEPT ![i] = [NoInspection EXCEPT !.phase = "decided", !.raised = TRUE]]
  /\ breaker' = [s \in Scanners |-> IF s \in cut THEN NoTimeouts ELSE breaker[s]]
  /\ streak' = [s \in Scanners |-> IF s \in cut THEN 0 ELSE streak[s]]
  /\ lastEnd' = [s \in Scanners |-> IF s \in cut THEN now ELSE lastEnd[s]]
  /\ UNCHANGED <<now, cfg>>

Return(i) ==
  /\ insp[i].phase = "decided"
  /\ insp' = [insp EXCEPT ![i] = NoInspection]
  /\ UNCHANGED <<now, cfg, breaker, streak, lastEnd>>

(* The part of reconfigure() that inspect() reads. *)
Reconfigure(c) ==
  /\ cfg' = c
  /\ UNCHANGED <<now, breaker, insp, streak, lastEnd>>

Tick ==
  /\ now < MaxNow
  /\ now' = now + 1
  /\ UNCHANGED <<cfg, breaker, insp, streak, lastEnd>>

MinimalResults == {[findings |-> q, error |-> "none"] : q \in Syntactic} \cup {Failed("raised")}

ScanStep(i, s) ==
  ShortCircuit(i, s) \/ StartScan(i, s) \/ \E r \in Outcomes : ScanEnds(i, s, r)

InspectStep(i) ==
  \/ \E d \in Directions, p \in Profiles, m \in MinimalResults : Begin(i, d, p, m)
  \/ \E s \in Scanners : ScanStep(i, s)
  \/ \E t \in TierAnswers : Decide(i, t)
  \/ Raise(i) \/ Return(i)

Next == (\E i \in Inspections : InspectStep(i)) \/ (\E c \in Configs : Reconfigure(c)) \/ Tick

Spec == Init /\ [][Next]_vars
-----------------------------------------------------------------------------
(* Every variable has the shape of the object it stands for, and no scan   *)
(* outlives its inspection.                                                *)
TypeOK ==
  /\ now \in 1 .. MaxNow
  /\ cfg \in Configs
  /\ breaker \in [Scanners -> [count : Nat, openUntil : Nat]]
  /\ insp \in [Inspections -> Inspection]
  /\ streak \in [Scanners -> Nat]
  /\ lastEnd \in [Scanners -> Nat]
  /\ \A i \in Inspections, s \in Scanners :
       insp[i].ml[s].st = "running" => insp[i].phase = "scanning"

Decided == {i \in Inspections : insp[i].phase = "decided" /\ ~insp[i].raised}

(* Two spans are linked when the findings between them leave no gap.       *)
Linked(f, g, findings) ==
  LET lo == IF f.start < g.start THEN f.start ELSE g.start
      hi == IF f.start < g.start THEN g.start ELSE f.start
  IN  \A x \in lo .. (hi - 1) :
        \E h \in ToSet(findings) : h.placed /\ h.start <= x /\ x + 1 < h.end

(* merge_findings(): a finding that is dropped leaves one at least as      *)
(* severe that it overlaps, directly or through others; one without a      *)
(* position is never dropped.                                              *)
MergeKeepsWorst ==
  \A i \in Decided : \A f \in ToSet(Unsuppressed(i)) :
    \E g \in ToSet(Merged(i)) :
      IF f.placed THEN g.placed /\ g.rank <= f.rank /\ Linked(f, g, Unsuppressed(i)) ELSE g = f

(* Content is called safe, other than in fail mode open, only when the     *)
(* syntactic scanner and every ML scanner have really examined it: one     *)
(* that timed out, raised or was short-circuited never counts as clean.    *)
SafeIsScanned ==
  \A i \in Decided :
    (insp[i].safe /\ insp[i].failMode # "open") =>
      /\ insp[i].minimal.error = "none"
      /\ \A s \in Scanners : insp[i].ml[s].st = "done" /\ insp[i].ml[s].result.error = "none"

(* Stages 5b and 5c would drop this finding, or lower its severity.        *)
Weakened(f, p, direction) ==
  f.confidence < p.confidenceFloor \/ Override(f, p, direction).rank > f.rank

SevereFloorFinding(i) ==
  \E f \in ToSet(Reported(i)) :
    /\ f.rank <= High
    /\ f.confidence >= insp[i].profile.confidenceFloor
    /\ \/ f.rule \in StructuralRules \cup SelfmodRules
       \/ f.rule \in InjectionRules
            /\ (insp[i].direction = "inbound" \/ insp[i].profile.scope = "all")

(* No suppression defeats the floor: a severe finding of a rule on the     *)
(* floor makes the content unsafe, as long as the profile does not weaken  *)
(* another finding of the inspection.                                      *)
FloorHolds ==
  \A i \in Decided :
    (/\ SevereFloorFinding(i)
     /\ \A f \in ToSet(Unsuppressed(i)) : ~Weakened(f, insp[i].profile, insp[i].direction))
      => ~insp[i].safe

(* docs/usage/scanners.md: the injection families "are an inbound floor:   *)
(* no profile can switch them off for agent-inbound content", whatever     *)
(* else was found.                                                         *)
FloorIsAbsolute == \A i \in Decided : SevereFloorFinding(i) => ~insp[i].safe

(* Three critical findings that do not overlap end the session, whatever   *)
(* the tracker answers and however the profile would adjust them.          *)
ThreeCriticalsTerminate ==
  \A i \in Decided :
    Cardinality({k \in DOMAIN Merged(i) : Merged(i)[k].rank = Critical}) >= NetCount
      => ~insp[i].safe /\ insp[i].tier = "tier3"

(* A scanner is short-circuited only after enough timeouts in a row, and   *)
(* only within the cooldown of the last one, although scans that began     *)
(* before the breaker opened, or before it was reset, end at any time.     *)
(* Threshold and cooldown may be of different configurations: the one is   *)
(* read before the await, the other after it.                              *)
BreakerIsEarned ==
  [][\A i \in Inspections, s \in Scanners :
       ShortCircuit(i, s) =>
         \E c, d \in Configs : streak[s] >= c.threshold /\ now < lastEnd[s] + d.cooldown]_vars
=============================================================================
