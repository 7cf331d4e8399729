---------------------------- MODULE AlertManager -----------------------------
(***************************************************************************)
(* The alert manager of petasos/session/alerting.py.  Pipeline.inspect()   *)
(* hands it every scan; five rules over sliding windows raise candidates,  *)
(* and cooldowns and caps decide which of them are delivered.              *)
(*                                                                         *)
(* evaluate() does not suspend and runs under the inspect mutex, hence one *)
(* action per call.  Counters that are only displayed, and what listeners  *)
(* do with an alert, are left out; so is the "cross_session_burst" entry   *)
(* of _ring_buffers, which is written and never read.                      *)
(***************************************************************************)
EXTENDS SlidingWindow, Subsequences, FiniteSets, Functions, SequencesExt

CONSTANTS
  AlertSessions,
  NoSession,   \* session_id is None
  AlertScans,       \* what a scan may look like to the rules
  SelfmodAlerts,\* the rule ids of self-modification findings
  AlertConfigs,
  Minute,      \* the 60.0 and 3600.0 of the code, in ticks of the clock
  Hour,
  MaxAlertNow,      \* bound: the last instant of the clock
  MaxAlertCalls     \* bound: the number of calls of the manager

AlertRules == {"tier_escalation", "high_severity_finding", "rapid_fire", "cross_session_burst",
          "pii_volume_spike"}

(* escalates: the tier changed, to one whose alert is critical or not.     *)
(* troubled: findings, errors or an unsafe verdict.                        *)
AlertScan == [escalates : {"no", "ordinary", "critical"}, severe : BOOLEAN, found : BOOLEAN,
         troubled : BOOLEAN, pii : Nat]

AlertConfig ==
  {c \in [cooldown : Nat \ {0}, perMinute : Nat \ {0}, perHour : Nat \ {0},
          criticalPerMinute : Nat \ {0}, perSession : Nat \ {0}, maxEntries : Nat \ {0},
          rapidCount : Nat \ {0}, rapidWindow : Nat \ {0}, burstCount : Nat \ {0},
          burstWindow : Nat \ {0}, piiThreshold : Nat \ {0}, piiWindow : Nat \ {0},
          capacity : Nat \ {0}] :
     c.rapidCount <= c.capacity /\ c.burstCount <= c.capacity /\ c.perSession <= c.perMinute}

ASSUME AlertAssumption ==
  /\ IsFiniteSet(AlertSessions) /\ NoSession \notin AlertSessions
  /\ \A q \in AlertScans : q \in AlertScan /\ (q.found => q.troubled)
  /\ AlertConfigs \subseteq AlertConfig
  /\ {Minute, Hour, MaxAlertNow, MaxAlertCalls} \subseteq Nat
  /\ AlertRules \cap SelfmodAlerts = {}

AlertSids == AlertSessions \cup {NoSession}

CriticalKeys == AlertRules \cup SelfmodAlerts

VARIABLES
  alertNow,
  alertCfg,
  cooldowns,      \* _rule_cooldowns
  minute,         \* _per_minute_timestamps
  hour,           \* _per_hour_timestamps
  critical,       \* _critical_per_minute_timestamps
  contributions,  \* _per_session_minute_timestamps
  rings,          \* _ring_buffers of the rapid-fire rule
  bursts,         \* _cross_session_tracker
  piiRing,        \* _pii_ring_buffer
  scans,          \* history: every scan evaluated, with the rules it raised
  fired,          \* history: every alert delivered
  calls           \* the calls so far, for the bound

limits == <<cooldowns, minute, hour, critical, contributions>>
windows == <<rings, bursts, piiRing>>
alertVars == <<alertNow, alertCfg, limits, windows, scans, fired, calls>>

(* The clock starts at 1, so that 0 is never a time. *)
Never == 0

NoRing == [cap |-> 0, at |-> << >>]

AlertInit ==
  /\ alertNow = 1
  /\ alertCfg \in AlertConfigs
  /\ cooldowns = [k \in AlertRules \X AlertSids |-> Never]
  /\ minute = [r \in AlertRules |-> << >>]
  /\ hour = [r \in AlertRules |-> << >>]
  /\ critical = [r \in CriticalKeys |-> << >>]
  /\ contributions = << >>
  /\ rings = [s \in AlertSessions |-> NoRing]
  /\ bursts = [s \in AlertSessions |-> Never]
  /\ piiRing = << >>
  /\ scans = << >>
  /\ fired = << >>
  /\ calls = 0

-----------------------------------------------------------------------------
(* The last n elements of a sequence, as deque(maxlen=n) keeps them.       *)
LastOf(q, n) == SubSeq(q, IF Len(q) > n THEN Len(q) - n + 1 ELSE 1, Len(q))

Recently(t, window) == t # Never /\ alertNow - t <= window

(* _evict_old() *)
EvictOld(q, window) == After(q, alertNow - window - 1)

(* The windows of the rules, pruned by _prune_stale() and then extended by *)
(* the checks.  A ring keeps the capacity it was created with.             *)
(* Mutant: a ring is pruned by the shortest window. *)
RingTTLShortest == Min({alertCfg.rapidWindow, alertCfg.burstWindow, alertCfg.piiWindow})

RingTTL == Max({alertCfg.rapidWindow, alertCfg.burstWindow, alertCfg.piiWindow})

ExtendRing(s, sid, q) ==
  LET kept == IF rings[s] # NoRing /\ Recently(Last(rings[s].at), RingTTL) THEN rings[s] ELSE NoRing
      room == IF kept = NoRing THEN alertCfg.capacity ELSE kept.cap
  IN  IF s = sid /\ q.troubled
      THEN [cap |-> room, at |-> LastOf(Append(kept.at, alertNow), room)]
      ELSE kept

(* A scan that counts towards a burst also cuts the tracker to its newest. *)
TrackerCap == Max({2 * alertCfg.capacity, alertCfg.burstCount})

(* Mutant: a session that is seen again keeps its first time. *)
LastSeenKept(s, sid, q) ==
  IF Recently(bursts[s], alertCfg.burstWindow) THEN bursts[s]
  ELSE IF s = sid /\ q.found THEN alertNow ELSE Never

LastSeen(s, sid, q) ==
  IF s = sid /\ q.found THEN alertNow
  ELSE IF Recently(bursts[s], alertCfg.burstWindow) THEN bursts[s] ELSE Never

ExtendBursts(sid, q) ==
  LET kept == [s \in AlertSessions |-> LastSeen(s, sid, q)]
      live == {s \in AlertSessions : kept[s] # Never}
      room == IF sid # NoSession /\ q.found THEN TrackerCap ELSE Cardinality(live)
  IN  \E cut \in SUBSET live :
        /\ Cardinality(live \ cut) = Min({room, Cardinality(live)})
        /\ \A s \in cut, r \in live \ cut : kept[s] <= kept[r]
        /\ bursts' = [s \in AlertSessions |-> IF s \in cut THEN Never ELSE kept[s]]

(* Mutant: a full buffer takes no new entry. *)
ExtendPiiWhileRoom(q) ==
  IF q.pii > 0 /\ Len(piiRing) < alertCfg.capacity
  THEN Append(piiRing, [at |-> alertNow, count |-> q.pii])
  ELSE piiRing

ExtendPii(q) ==
  IF q.pii > 0 THEN LastOf(Append(piiRing, [at |-> alertNow, count |-> q.pii]), alertCfg.capacity)
  ELSE piiRing

PiiTotal(ring) ==
  Total([k \in DOMAIN ring |-> IF Recently(ring[k].at, alertCfg.piiWindow) THEN ring[k].count ELSE 0])

(* The five checks, in the order of evaluate(). *)
Raises(rule, sid, q) ==
  CASE rule = "tier_escalation" -> sid # NoSession /\ q.escalates # "no"
    [] rule = "high_severity_finding" -> q.severe
    [] rule = "rapid_fire" ->
         /\ sid # NoSession /\ q.troubled
         /\ LET times == rings'[sid].at
                hits  == {i \in DOMAIN times : Recently(times[i], alertCfg.rapidWindow)}
            IN  Cardinality(hits) >= alertCfg.rapidCount
    [] rule = "cross_session_burst" ->
         /\ sid # NoSession /\ q.found
         /\ Cardinality({s \in AlertSessions : bursts'[s] # Never}) >= alertCfg.burstCount
    [] rule = "pii_volume_spike" -> PiiTotal(piiRing') >= alertCfg.piiThreshold

-----------------------------------------------------------------------------
(* The limits, as one value that a call threads through its candidates.    *)
(* _prune_stale() has emptied them of everything old, and of the keys that *)
(* are left with nothing.                                                  *)
CooldownTTL == 2 * alertCfg.cooldown

(* Mutant: every deque is pruned by the minute. *)
RecentTimesOfMinute(times, window) == [k \in DOMAIN times |-> EvictOld(times[k], Minute)]

RecentTimes(times, window) == [k \in DOMAIN times |-> EvictOld(times[k], window)]

PrunedLimits ==
  LET mine == RecentTimes(contributions, Minute) IN
  [cooldowns     |-> [k \in AlertRules \X AlertSids |->
                        IF Recently(cooldowns[k], CooldownTTL) THEN cooldowns[k] ELSE Never],
   minute        |-> RecentTimes(minute, Minute),
   hour          |-> RecentTimes(hour, Hour),
   critical      |-> RecentTimes(critical, Minute),
   contributions |-> Restrict(mine, {k \in DOMAIN mine : mine[k] # << >>}),
   fired         |-> fired]

Alert(rule, sid, isCritical) ==
  [rule |-> rule, sid |-> sid, critical |-> isCritical, at |-> alertNow, cfg |-> alertCfg]

AdmitCritical(l, rule, sid) ==
  IF Len(l.critical[rule]) >= alertCfg.criticalPerMinute THEN l
  ELSE [l EXCEPT !.critical[rule] = Append(@, alertNow),
                 !.fired = Append(@, Alert(rule, sid, TRUE))]

Contributed(times, key) == IF key \in DOMAIN times THEN times[key] ELSE << >>

AdmitOrdinary(l, rule, sid) ==
  LET key  == <<rule, sid>>
      mine == Contributed(l.contributions, key)
      put(times) == [k \in DOMAIN l.contributions \cup {key} |->
                       IF k = key THEN times ELSE l.contributions[k]]
  IN
  IF \/ l.cooldowns[key] # Never /\ alertNow - l.cooldowns[key] < alertCfg.cooldown
     \/ /\ key \notin DOMAIN l.contributions
        /\ Cardinality(DOMAIN l.contributions) >= alertCfg.maxEntries
  THEN l
  ELSE IF \/ Len(mine) >= alertCfg.perSession
          \/ Len(l.minute[rule]) >= alertCfg.perMinute
          \/ Len(l.hour[rule]) >= alertCfg.perHour
  THEN [l EXCEPT !.contributions = put(mine)]
  ELSE [l EXCEPT !.cooldowns[key] = alertNow,
                 !.minute[rule] = Append(@, alertNow),
                 !.hour[rule] = Append(@, alertNow),
                 !.contributions = put(Append(mine, alertNow)),
                 !.fired = Append(@, Alert(rule, sid, FALSE))]

IsCritical(rule, q) == rule = "tier_escalation" /\ q.escalates = "critical"

(* Mutant: critical alerts are rationed like the others. *)
AdmitAlike(l, rule, sid, q) == AdmitOrdinary(l, rule, sid)

Admit(l, rule, sid, q) ==
  IF IsCritical(rule, q) THEN AdmitCritical(l, rule, sid) ELSE AdmitOrdinary(l, rule, sid)

(* A rule whose turn it is, and that may have raised a candidate.          *)
Consider(l, rule, raised, sid, q) == IF rule \in raised THEN Admit(l, rule, sid, q) ELSE l

(* The candidates of a scan, in the order of the checks.                   *)
Admitted(raised, sid, q) ==
  LET tier  == Consider(PrunedLimits, "tier_escalation", raised, sid, q)
      high  == Consider(tier, "high_severity_finding", raised, sid, q)
      rapid == Consider(high, "rapid_fire", raised, sid, q)
      burst == Consider(rapid, "cross_session_burst", raised, sid, q)
  IN  Consider(burst, "pii_volume_spike", raised, sid, q)

Adopt(l) ==
  /\ cooldowns' = l.cooldowns
  /\ minute' = l.minute
  /\ hour' = l.hour
  /\ critical' = l.critical
  /\ contributions' = l.contributions
  /\ fired' = l.fired

(* One more call of the manager, within the bound. *)
AlertCall == calls < MaxAlertCalls /\ calls' = calls + 1

EvaluateAlerts(sid, q) ==
  /\ AlertCall
  /\ rings' = [s \in AlertSessions |-> ExtendRing(s, sid, q)]
  /\ ExtendBursts(sid, q)
  /\ piiRing' = ExtendPii(q)
  /\ LET raised == {rule \in AlertRules : Raises(rule, sid, q)} IN
     /\ Adopt(Admitted(raised, sid, q))
     /\ scans' = Append(scans, [sid |-> sid, scan |-> q, at |-> alertNow, cfg |-> alertCfg,
                                raised |-> raised])
  /\ UNCHANGED <<alertNow, alertCfg>>

(* evaluate_selfmod(): no cooldown, the critical allowance whatever the    *)
(* severity of the alert, counted per kind of finding, and no pruning.     *)
EvaluateSelfmodAlert(sid, rule) ==
  LET kept == EvictOld(critical[rule], Minute)
      full == Len(kept) >= alertCfg.criticalPerMinute
  IN
  /\ AlertCall
  /\ critical' = [critical EXCEPT ![rule] = IF full THEN kept ELSE Append(kept, alertNow)]
  /\ fired' = IF full THEN fired ELSE Append(fired, Alert(rule, sid, TRUE))
  /\ UNCHANGED <<alertNow, alertCfg, cooldowns, minute, hour, contributions, windows, scans>>

(* apply_config() *)
ApplyAlertConfig(c) ==
  /\ AlertCall /\ c # alertCfg
  /\ alertCfg' = c
  /\ piiRing' = LastOf(piiRing, c.capacity)
  /\ UNCHANGED <<alertNow, limits, rings, bursts, scans, fired>>

AlertTick ==
  /\ alertNow < MaxAlertNow
  /\ alertNow' = alertNow + 1
  /\ UNCHANGED <<alertCfg, limits, windows, scans, fired, calls>>

AlertNext ==
  \/ \E sid \in AlertSids, q \in AlertScans : EvaluateAlerts(sid, q)
  \/ \E sid \in AlertSids, rule \in SelfmodAlerts : EvaluateSelfmodAlert(sid, rule)
  \/ \E c \in AlertConfigs : ApplyAlertConfig(c)
  \/ AlertTick

AlertSpec == AlertInit /\ [][AlertNext]_alertVars
-----------------------------------------------------------------------------
(* Of the alerts, those of the rule of the i-th, critical or not as it is, *)
(* up to it, in a window that it ends.                                     *)
Lately(alerts, i, window) ==
  {j \in 1 .. i : /\ alerts[j].rule = alerts[i].rule /\ alerts[j].critical = alerts[i].critical
                  /\ alerts[i].at - alerts[j].at <= window}

Mine(alerts, i, window) == {j \in Lately(alerts, i, window) : alerts[j].sid = alerts[i].sid}

(* _prune_stale() forgets a cooldown after twice its length, which is the  *)
(* length configured when a scan finds it.                                 *)
Forgotten(seen, then, time) ==
  \E k \in DOMAIN seen :
    seen[k].at <= time /\ seen[k].at - then > 2 * seen[k].cfg.cooldown

(* No window of a minute or an hour holds more alerts of a rule than the   *)
(* caps allow, counting critical and ordinary ones apart, nor more of one  *)
(* session than its contribution cap, and two ordinary alerts of one rule  *)
(* for one session are a cooldown apart, unless a scan between them found  *)
(* a cooldown less than half as long (alert_per_minute_cap and the fields  *)
(* after it).                                                              *)
Rationed(alerts, seen, i) ==
  LET c == alerts[i].cfg IN
  IF alerts[i].critical THEN Cardinality(Lately(alerts, i, Minute)) <= c.criticalPerMinute
  ELSE /\ Cardinality(Lately(alerts, i, Minute)) <= c.perMinute
       /\ Cardinality(Lately(alerts, i, Hour)) <= c.perHour
       /\ Cardinality(Mine(alerts, i, Minute)) <= c.perSession
       /\ \A j \in Mine(alerts, i, c.cooldown - 1) :
            j = i \/ Forgotten(seen, alerts[j].at, alerts[i].at)

AlertsRationed == \A i \in DOMAIN fired : Rationed(fired, scans, i)

(* The alert of a termination is dropped only when the critical allowance  *)
(* of its rule was used up within the minute: cooldowns and the noise of   *)
(* ordinary alerts never hold it back.                                     *)
Told(alerts, time) ==
  {j \in DOMAIN alerts : /\ alerts[j].rule = "tier_escalation" /\ alerts[j].critical
                         /\ alerts[j].at <= time /\ time - alerts[j].at <= Minute}

GetsThrough(alerts, q) ==
  (q.scan.escalates = "critical" /\ q.sid # NoSession) =>
    \/ \E j \in Told(alerts, q.at) : alerts[j].sid = q.sid /\ alerts[j].at = q.at
    \/ Cardinality(Told(alerts, q.at)) >= q.cfg.criticalPerMinute

CriticalGetsThrough == \A i \in DOMAIN scans : GetsThrough(fired, scans[i])

(* What is admitted: no more than the caps allow, and every termination    *)
(* that they leave room for (alerting.py:141-263).                         *)
AlertsAdmitted == AlertsRationed /\ CriticalGetsThrough

(* What a scan's rules should have raised, from the scans themselves.      *)
ScansBefore(seen, i, window) == {j \in 1 .. i : seen[i].at - seen[j].at <= window}

(* A session's troubled scans are all counted: rapid_fire is raised by the *)
(* scan that makes them enough within the window, and by no other.         *)
RapidFireDue(seen, i) ==
  LET q == seen[i]
      burst == {j \in ScansBefore(seen, i, q.cfg.rapidWindow) :
                  seen[j].sid = q.sid /\ seen[j].scan.troubled}
  IN  q.sid # NoSession /\ q.scan.troubled /\ Cardinality(burst) >= q.cfg.rapidCount

(* Every session with findings in the window counts towards a burst, and   *)
(* counts once.                                                            *)
BurstDue(seen, i) ==
  LET q == seen[i]
      who == {seen[j].sid : j \in {k \in ScansBefore(seen, i, q.cfg.burstWindow) : seen[k].scan.found}}
  IN  q.sid # NoSession /\ q.scan.found /\ Cardinality(who \cap AlertSessions) >= q.cfg.burstCount

PiiOf(seen, i) ==
  Total([j \in 1 .. i |-> IF j \in ScansBefore(seen, i, seen[i].cfg.piiWindow)
                          THEN seen[j].scan.pii ELSE 0])

(* The buffers are cut and pruned by the configuration of the moment: one  *)
(* that counts further back, or more, than an earlier one kept may miss    *)
(* what it would have counted.                                             *)
RapidKept(old, c) ==
  /\ c.rapidCount <= old.capacity
  /\ \E window \in {old.rapidWindow, old.burstWindow, old.piiWindow} : c.rapidWindow <= window

BurstKept(old, c) ==
  /\ c.burstCount <= 2 * old.capacity \/ c.burstCount <= old.burstCount
  /\ c.burstWindow <= old.burstWindow

Exactly(raised, due, kept) == (raised => due) /\ (due /\ kept => raised)

RaisedRight(seen, i) ==
  LET q == seen[i] IN
  /\ Exactly("rapid_fire" \in q.raised, RapidFireDue(seen, i),
             \A j \in 1 .. i : RapidKept(seen[j].cfg, q.cfg))
  /\ Exactly("cross_session_burst" \in q.raised, BurstDue(seen, i),
             \A j \in 1 .. i : BurstKept(seen[j].cfg, q.cfg))
  /\ Exactly("pii_volume_spike" \in q.raised, PiiOf(seen, i) >= q.cfg.piiThreshold,
             \A c \in AlertConfigs : q.cfg.piiThreshold <= c.capacity)

(* The windows of the rules keep nothing that does not count, whatever is  *)
(* reloaded, and forget nothing that counts, other sessions' scans and     *)
(* reloads included, unless a scan before found a configuration that kept  *)
(* less: rapid_fire, cross_session_burst and, while every configuration    *)
(* has room for as many scans as the threshold has entities,               *)
(* pii_volume_spike are raised by the very scans that make them due        *)
(* (_check_rapid_fire and the checks after it, apply_config).              *)
RulesRaise == \A i \in DOMAIN scans : RaisedRight(scans, i)

(* A ring keeps the capacity it was created with when a reload asks for    *)
(* another, which apply_config() calls harmless: rapid_fire is raised by   *)
(* the scan that makes it due as long as no reload widens its window.      *)
KeptRingsHarmless ==
  \A i \in DOMAIN scans :
    /\ RapidFireDue(scans, i)
    /\ \A j \in 1 .. i : scans[i].cfg.rapidWindow <= scans[j].cfg.rapidWindow
    => "rapid_fire" \in scans[i].raised
=============================================================================
