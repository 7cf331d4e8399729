--------------------------- MODULE FrequencyTracker ---------------------------
(***************************************************************************)
(* The per-session frequency tracker of petasos/session/frequency.py: the  *)
(* session table with its decaying scores, the tombstones that remember a  *)
(* terminated session after its table entry is gone, the TTL deque, the    *)
(* creation rate limit, and the lineage callbacks that run inside the      *)
(* tracker's critical section.                                             *)
(*                                                                         *)
(* Every public method holds the tracker's RLock throughout, so at most    *)
(* one is in progress.  The short ones are one action.  update() loops and *)
(* calls into the lineage registry, whose own lock other threads take      *)
(* meanwhile, so it is a sequence of steps, with op its program counter    *)
(* and locals: reap expired sessions one by one, admit the session, evict, *)
(* evict past the hard ceiling, score.                                     *)
(*                                                                         *)
(* Scores are natural numbers.  math.exp() is abstracted to any decay that *)
(* does not raise the score.  A deque of timestamps only ever grows at its *)
(* young end and shrinks at its old one, and only its length is read: it   *)
(* is kept as the number of entries per instant, counted up to MaxEntries, *)
(* which no threshold exceeds.                                             *)
(***************************************************************************)
EXTENDS LineageRegistry

CONSTANTS
  Configs,       \* the tracker's fields of the configurations that may be applied
  Scans,         \* what a scan reports to update(): its findings, weight and cap
  LineageWired,  \* whether is_pinned and on_terminate are the registry's methods
  RateWindow,    \* _RATE_LIMIT_WINDOW_SECONDS
  Tier3Floor,    \* the literal floor of derive_tier()
  MaxEntries     \* bound: entries of one instant that a timestamp deque counts

Config == [maxSessions : Nat \ {0}, maxTerminated : Nat \ {0}, sessionTTL : Nat \ {0},
           maxNew : Nat \ {0}, rollingWindow : Nat \ {0}, rollingThreshold : Nat \ {0},
           tier1 : Nat, tier2 : Nat \ {0}, tier3 : Nat \ {0}]

(* weight is the sum of _match_weight() over the rule ids; a scan without  *)
(* findings weighs nothing, one with findings may.                         *)
Scan == [findings : BOOLEAN, weight : Nat, capped : BOOLEAN, cap : Nat]

ASSUME ConfigsAssumption == Configs \subseteq Config
ASSUME ThresholdsAssumption ==
  \A c \in Configs : c.tier1 < c.tier2 /\ c.tier2 < c.tier3 /\ c.tier3 >= Tier3Floor
ASSUME ScansAssumption ==
  Scans # {} /\ Scans \subseteq Scan /\ \A q \in Scans : ~q.findings => q.weight = 0
ASSUME BoundsAssumption ==
  /\ LineageWired \in BOOLEAN
  /\ RateWindow \in Nat
  /\ Tier3Floor \in Nat \ {0}
  /\ MaxEntries \in Nat
  /\ \A c \in Configs : c.maxNew <= MaxEntries /\ c.rollingThreshold <= MaxEntries

VARIABLES
  sessions,            \* _sessions
  terminatedIds,       \* _terminated_ids, oldest first
  ttlDeque,            \* _ttl_deque: <<expiry, session>>
  creationTimestamps,  \* _creation_timestamps
  cfg,                 \* the cached configuration
  op                   \* the update() in progress

trackerVars == <<sessions, terminatedIds, ttlDeque, creationTimestamps, cfg, op>>
vars == <<lineageVars, trackerVars>>

-----------------------------------------------------------------------------
(* Timestamp deques. *)
Stamps == [Time -> 0 .. MaxEntries]

NoStamps == [t \in Time |-> 0]

Count(b) == SumFunction(b)

Push(b, t) == [b EXCEPT ![t] = IF @ < MaxEntries THEN @ + 1 ELSE @]

(* popleft() while the oldest entry is more than window old. *)
Young(b, t, window) == [u \in Time |-> IF t - u > window THEN 0 ELSE b[u]]

-----------------------------------------------------------------------------
SessionState ==
  [live : BOOLEAN, score : Nat, last : Time, rolling : Stamps, terminated : BOOLEAN]

(* The value of a session that is not a key of _sessions. *)
Absent ==
  [live |-> FALSE, score |-> 0, last |-> 0, rolling |-> NoStamps, terminated |-> FALSE]

Fresh(t) == [Absent EXCEPT !.live = TRUE, !.last = t]

Live == {s \in Sessions : sessions[s].live}

Tombstones == ToSet(terminatedIds)

(* is_terminated() *)
IsTerminated(s) == IF s \in Live THEN sessions[s].terminated ELSE s \in Tombstones

Pinned(s) == LineageWired /\ IsPinned(s)

(* _fire_on_terminate() for every session of gone. *)
FireOnTerminate(gone) ==
  edges' = IF LineageWired
           THEN [c \in Sessions |-> IF c \in gone THEN NoEdge ELSE edges[c]]
           ELSE edges

Phases == {"idle", "reap", "evict", "ceiling", "score", "return"}

Tiers == 0 .. 3   \* _TIER_RANK: none, tier1, tier2, tier3

Op == [phase : Phases, sid : Sessions \cup {None}, scan : Scans, at : Time, n : Nat,
       tier : Tiers, limited : BOOLEAN]

Idle == op.phase = "idle"

NoOp == [phase |-> "idle", sid |-> None, scan |-> CHOOSE q \in Scans : TRUE,
         at |-> 0, n |-> 0, tier |-> 0, limited |-> FALSE]

(* The FrequencyUpdateResult with which the update in progress returns. *)
Answer(tier, limited) ==
  op' = [NoOp EXCEPT !.phase = "return", !.sid = op.sid,
                     !.tier = tier, !.limited = limited]

TrackerInit ==
  /\ sessions = [s \in Sessions |-> Absent]
  /\ terminatedIds = << >>
  /\ ttlDeque = << >>
  /\ creationTimestamps = NoStamps
  /\ cfg \in Configs
  /\ op = NoOp

-----------------------------------------------------------------------------
(* Tombstones: a FIFO that forgets its oldest entries past the cap. *)
EnforceTombstoneCap(q, cap) ==
  IF Len(q) > cap THEN SubSeq(q, Len(q) - cap + 1, Len(q)) ELSE q

WithoutTombstone(q, s) ==
  IF s \in ToSet(q) THEN RemoveAt(q, CHOOSE i \in 1 .. Len(q) : q[i] = s) ELSE q

(* _add_tombstone() refreshes the position of a tombstone that exists. *)
AddTombstone(q, s) ==
  EnforceTombstoneCap(Append(WithoutTombstone(q, s), s), cfg.maxTerminated)

(* TTL reaping and _evict_one() keep the age of one that exists. *)
KeepTombstone(q, s) ==
  IF s \in ToSet(q) THEN q ELSE EnforceTombstoneCap(Append(q, s), cfg.maxTerminated)

(* derive_tier() on the cached thresholds. *)
DeriveTier(score) ==
  IF score >= cfg.tier3 /\ score >= Tier3Floor THEN 3
  ELSE IF score >= cfg.tier2 THEN 2
  ELSE IF score >= cfg.tier1 THEN 1
  ELSE 0

-----------------------------------------------------------------------------
(* update(): the lock is taken and the clock read. *)
BeginUpdate(s, q) ==
  /\ Idle
  /\ op' = [NoOp EXCEPT !.phase = "reap", !.sid = s, !.scan = q,
                         !.at = now, !.n = Len(ttlDeque)]
  /\ UNCHANGED <<lineageVars, sessions, terminatedIds, ttlDeque, creationTimestamps, cfg>>

(* Step 1: the loop takes expired entries off the head of the deque, at    *)
(* most as many as the deque held when update() began.                     *)
Reaping ==
  /\ op.phase = "reap"
  /\ op.n > 0
  /\ ttlDeque # << >>
  /\ Head(ttlDeque)[1] <= op.at

Expired(s) == s \in Live /\ sessions[s].last + cfg.sessionTTL <= op.at

(* The entry is stale: its session is gone or was updated since. *)
ReapStale ==
  /\ Reaping
  /\ ~Expired(Head(ttlDeque)[2])
  /\ ttlDeque' = Tail(ttlDeque)
  /\ op' = [op EXCEPT !.n = @ - 1]
  /\ UNCHANGED <<lineageVars, sessions, terminatedIds, creationTimestamps, cfg>>

(* Mutant: the loop is not bounded by the length the deque began with. *)
ReapPinnedUnbounded ==
  LET s == Head(ttlDeque)[2] IN
  /\ Reaping
  /\ Expired(s)
  /\ Pinned(s)
  /\ ttlDeque' = Append(Tail(ttlDeque), <<sessions[s].last + cfg.sessionTTL, s>>)
  /\ UNCHANGED <<lineageVars, sessions, terminatedIds, creationTimestamps, cfg, op>>

(* A pinned session is kept and queued again. *)
ReapPinned ==
  LET s == Head(ttlDeque)[2] IN
  /\ Reaping
  /\ Expired(s)
  /\ Pinned(s)
  /\ ttlDeque' = Append(Tail(ttlDeque), <<sessions[s].last + cfg.sessionTTL, s>>)
  /\ op' = [op EXCEPT !.n = @ - 1]
  /\ UNCHANGED <<lineageVars, sessions, terminatedIds, creationTimestamps, cfg>>

Reap ==
  LET s == Head(ttlDeque)[2] IN
  /\ Reaping
  /\ Expired(s)
  /\ ~Pinned(s)
  /\ ttlDeque' = Tail(ttlDeque)
  /\ terminatedIds' = IF sessions[s].terminated THEN KeepTombstone(terminatedIds, s)
                      ELSE terminatedIds
  /\ sessions' = [sessions EXCEPT ![s] = Absent]
  /\ FireOnTerminate({s})
  /\ op' = [op EXCEPT !.n = @ - 1]
  /\ UNCHANGED <<now, lineageCfg, creationTimestamps, cfg>>

(* Step 1b: past twice the session cap, the deque is rebuilt from the      *)
(* sessions that have not expired.                                         *)
Compaction ==
  LET entries == {<<sessions[s].last + cfg.sessionTTL, s>> :
                    s \in {r \in Live : sessions[r].last + cfg.sessionTTL > op.at}}
  IN  IF Len(ttlDeque) > 2 * cfg.maxSessions
      THEN {q \in SetToSeqs(entries) : IsSorted(q, LAMBDA a, b : a[1] <= b[1])}
      ELSE {ttlDeque}

Reaped ==
  /\ op.phase = "reap"
  /\ ~Reaping
  /\ ttlDeque' \in Compaction

(* Step 1.5: a tombstoned session is answered tier 3 and left alone. *)
AdmitTombstoned ==
  /\ Reaped
  /\ op.sid \notin Live
  /\ op.sid \in Tombstones
  /\ Answer(3, FALSE)
  /\ UNCHANGED <<lineageVars, sessions, terminatedIds, creationTimestamps, cfg>>

(* Step 2. *)
RateLimited ==
  /\ Cardinality(Live) >= cfg.maxSessions
  /\ Count(Young(creationTimestamps, op.at, RateWindow)) >= cfg.maxNew

AdmitRateLimited ==
  /\ Reaped
  /\ op.sid \notin Live \cup Tombstones
  /\ RateLimited
  /\ creationTimestamps' = Young(creationTimestamps, op.at, RateWindow)
  /\ Answer(0, TRUE)
  /\ UNCHANGED <<lineageVars, sessions, terminatedIds, cfg>>

AdmitNew ==
  /\ Reaped
  /\ op.sid \notin Live \cup Tombstones
  /\ ~RateLimited
  /\ sessions' = [sessions EXCEPT ![op.sid] = Fresh(op.at)]
  /\ creationTimestamps' = Push(Young(creationTimestamps, op.at, RateWindow), op.at)
  /\ op' = [op EXCEPT !.phase = IF Cardinality(Live) + 1 > cfg.maxSessions
                                THEN "evict" ELSE "score"]
  /\ UNCHANGED <<lineageVars, terminatedIds, cfg>>

AdmitKnown ==
  /\ Reaped
  /\ op.sid \in Live
  /\ op' = [op EXCEPT !.phase = "score"]
  /\ UNCHANGED <<lineageVars, sessions, terminatedIds, creationTimestamps, cfg>>

(* Step 3: _evict_one() removes a least recently updated terminated        *)
(* session, or one of all, never a pinned one nor the one being updated.   *)
(* Which of equally old ones it finds first is left open.                  *)
LeastRecent(S) == {s \in S : \A r \in S : sessions[s].last <= sessions[r].last}

(* Mutants: the updated session, or a pinned one, is a candidate too. *)
EvictableUnprotected == {s \in Live : ~Pinned(s)}

EvictablePinned == Live \ {op.sid}

Evictable == {s \in Live \ {op.sid} : ~Pinned(s)}

EvictionVictims ==
  LET terminated == {s \in Evictable : sessions[s].terminated}
  IN  LeastRecent(IF terminated # {} THEN terminated ELSE Evictable)

(* The table is measured again once _evict_one() returns. *)
AfterEviction(live) ==
  op' = [op EXCEPT !.phase = IF LineageWired /\ Cardinality(live) > 2 * cfg.maxSessions
                             THEN "ceiling" ELSE "score"]

EvictOne ==
  /\ op.phase = "evict"
  /\ \E s \in EvictionVictims :
       /\ terminatedIds' = IF sessions[s].terminated THEN KeepTombstone(terminatedIds, s)
                           ELSE terminatedIds
       /\ sessions' = [sessions EXCEPT ![s] = Absent]
       /\ FireOnTerminate({s})
       /\ AfterEviction(Live \ {s})
  /\ UNCHANGED <<now, lineageCfg, ttlDeque, creationTimestamps, cfg>>

EvictNone ==
  /\ op.phase = "evict"
  /\ Evictable = {}
  /\ AfterEviction(Live)
  /\ UNCHANGED <<lineageVars, sessions, terminatedIds, ttlDeque, creationTimestamps, cfg>>

(* _force_evict_pinned(): whoever is least recently updated goes, and      *)
(* leaves no tombstone.                                                    *)
ForceEvictPinned ==
  /\ op.phase = "ceiling"
  /\ \E s \in LeastRecent(Live \ {op.sid}) :
       /\ sessions' = [sessions EXCEPT ![s] = Absent]
       /\ FireOnTerminate({s})
  /\ op' = [op EXCEPT !.phase = "score"]
  /\ UNCHANGED <<now, lineageCfg, terminatedIds, ttlDeque, creationTimestamps, cfg>>

(* Step 4. *)
ScoreTerminated ==
  /\ op.phase = "score"
  /\ sessions[op.sid].terminated
  /\ Answer(3, FALSE)
  /\ UNCHANGED <<lineageVars, sessions, terminatedIds, ttlDeque, creationTimestamps, cfg>>

(* Steps 5 to 11. *)
ScanWeight(q) == IF ~q.capped THEN q.weight ELSE IF q.weight >= q.cap THEN q.cap ELSE 0

Decayed(st) == IF op.at > st.last /\ st.score > 0 THEN 0 .. st.score ELSE {st.score}

NewRolling(st) ==
  LET young == Young(st.rolling, op.at, cfg.rollingWindow)
      q == op.scan
  IN  IF q.findings /\ (~q.capped \/ ScanWeight(q) > 0) THEN Push(young, op.at) ELSE young

(* Enough findings in the window raise an otherwise untiered scan. *)
ScoredTier(score, rolling) ==
  IF DeriveTier(score) = 0 /\ Count(rolling) >= cfg.rollingThreshold
  THEN 1 ELSE DeriveTier(score)

Score ==
  LET s == op.sid
      st == sessions[s]
  IN
  /\ op.phase = "score"
  /\ ~st.terminated
  /\ \E decayed \in Decayed(st) :
       LET score == decayed + ScanWeight(op.scan)
           tier == ScoredTier(score, NewRolling(st))
           terminate == tier = 3
       IN
       /\ sessions' = [sessions EXCEPT ![s] =
            [live |-> TRUE, score |-> score, last |-> op.at,
             rolling |-> NewRolling(st), terminated |-> terminate]]
       /\ terminatedIds' = IF terminate THEN AddTombstone(terminatedIds, s)
                           ELSE terminatedIds
       /\ FireOnTerminate(IF terminate THEN {s} ELSE {})
       /\ Answer(tier, FALSE)
  /\ ttlDeque' = Append(ttlDeque, <<op.at + cfg.sessionTTL, s>>)
  /\ UNCHANGED <<now, lineageCfg, creationTimestamps, cfg>>

Return ==
  /\ op.phase = "return"
  /\ op' = NoOp
  /\ UNCHANGED <<lineageVars, sessions, terminatedIds, ttlDeque, creationTimestamps, cfg>>

-----------------------------------------------------------------------------
(* Mutant: terminate_session() leaves no tombstone of a live session. *)
TerminateFlagOnly(s) ==
  /\ Idle
  /\ sessions' = [sessions EXCEPT ![s].terminated = sessions[s].live]
  /\ FireOnTerminate({s})
  /\ UNCHANGED <<now, lineageCfg, terminatedIds, ttlDeque, creationTimestamps, cfg, op>>

(* Mutant: terminate_session() leaves the flag of a live session alone. *)
TerminateTombstoneOnly(s) ==
  /\ Idle
  /\ terminatedIds' = AddTombstone(terminatedIds, s)
  /\ FireOnTerminate({s})
  /\ UNCHANGED <<now, lineageCfg, sessions, ttlDeque, creationTimestamps, cfg, op>>

TerminateSession(s) ==
  /\ Idle
  /\ sessions' = [sessions EXCEPT ![s].terminated = sessions[s].live]
  /\ terminatedIds' = AddTombstone(terminatedIds, s)
  /\ FireOnTerminate({s})
  /\ UNCHANGED <<now, lineageCfg, ttlDeque, creationTimestamps, cfg, op>>

(* Mutant: reset() does not tell the registry. *)
ResetSilently(s) ==
  /\ Idle
  /\ s \in Live
  /\ sessions' = [sessions EXCEPT ![s] = Absent]
  /\ UNCHANGED <<lineageVars, terminatedIds, ttlDeque, creationTimestamps, cfg, op>>

(* reset() keeps the tombstone, force_reset() does not. *)
Reset(s) ==
  /\ Idle
  /\ s \in Live
  /\ sessions' = [sessions EXCEPT ![s] = Absent]
  /\ FireOnTerminate({s})
  /\ UNCHANGED <<now, lineageCfg, terminatedIds, ttlDeque, creationTimestamps, cfg, op>>

ForceReset(s) ==
  /\ Idle
  /\ sessions' = [sessions EXCEPT ![s] = Absent]
  /\ terminatedIds' = WithoutTombstone(terminatedIds, s)
  /\ FireOnTerminate({s} \cap Live)
  /\ UNCHANGED <<now, lineageCfg, ttlDeque, creationTimestamps, cfg, op>>

Clear ==
  /\ Idle
  /\ sessions' = [s \in Sessions |-> Absent]
  /\ terminatedIds' = << >>
  /\ ttlDeque' = << >>
  /\ creationTimestamps' = NoStamps
  /\ FireOnTerminate(Live)
  /\ UNCHANGED <<now, lineageCfg, cfg, op>>

ApplyConfig(c) ==
  /\ Idle
  /\ cfg' = c
  /\ terminatedIds' = EnforceTombstoneCap(terminatedIds, c.maxTerminated)
  /\ UNCHANGED <<lineageVars, sessions, ttlDeque, creationTimestamps, op>>

-----------------------------------------------------------------------------
(* Other threads run the registry's methods at any time, if there is one. *)
LineageStep ==
  /\ LineageWired
  /\ \/ \E child, parent \in Sessions : Register(child, parent)
     \/ \E child \in Sessions : Unregister(child)
     \/ \E c \in LineageConfigs : LineageApplyConfig(c)
  /\ UNCHANGED trackerVars

TimePasses == Tick /\ UNCHANGED trackerVars

(* The steps of the thread that holds the tracker's lock. *)
ContinueUpdate ==
  \/ ReapStale \/ ReapPinned \/ Reap
  \/ AdmitTombstoned \/ AdmitRateLimited \/ AdmitNew \/ AdmitKnown
  \/ EvictOne \/ EvictNone \/ ForceEvictPinned
  \/ ScoreTerminated \/ Score \/ Return

UpdateStep == ContinueUpdate \/ \E s \in Sessions, q \in Scans : BeginUpdate(s, q)

OperatorStep ==
  \/ \E s \in Sessions : TerminateSession(s) \/ Reset(s) \/ ForceReset(s)
  \/ Clear
  \/ \E c \in Configs : ApplyConfig(c)

Init == LineageInit /\ TrackerInit

Next == TimePasses \/ LineageStep \/ UpdateStep \/ OperatorStep

Spec == Init /\ [][Next]_vars

(* The thread inside update() keeps running: it waits for nothing but the  *)
(* registry's lock, which no method holds across a wait.                   *)
FairSpec == Spec /\ WF_vars(ContinueUpdate)
-----------------------------------------------------------------------------
(* Every variable has the shape of the Python object it stands for. *)
TypeOK ==
  /\ LineageTypeOK
  /\ sessions \in [Sessions -> SessionState]
  /\ terminatedIds \in Seq(Sessions)
  /\ ttlDeque \in Seq(Nat \X Sessions)
  /\ creationTimestamps \in Stamps
  /\ cfg \in Configs
  /\ op \in Op
  /\ op.phase # "idle" <=> op.sid # None

(* A session that has a tombstone is never in the table unterminated: the  *)
(* two places is_terminated() looks in never disagree.  (update() step     *)
(* 1.5, terminate_session, reset, the reapers.)                            *)
TombstoneAgreement ==
  \A s \in Live : s \in Tombstones => sessions[s].terminated

(* update() answers tier 3 exactly for the sessions that is_terminated()   *)
(* reports at that moment, whichever of its exits it takes.                *)
AnswerAgreement ==
  op.phase = "return" => (op.tier = 3 <=> IsTerminated(op.sid))

(* The session whose SessionState update() holds a reference to is not     *)
(* evicted by that same update() (protect_id): its score is not written to *)
(* an object that has left the table.                                      *)
UpdatedSessionStays ==
  op.phase \in {"evict", "ceiling", "score"} => op.sid \in Live

(* The tombstone store holds each session once and never exceeds its cap,  *)
(* across terminations, re-tombstoning by the reapers and a shrunk cap.    *)
TombstonesBounded ==
  /\ Len(terminatedIds) <= cfg.maxTerminated
  /\ IsInjective(terminatedIds)

(* A termination is forgotten only by an operator (force_reset(), clear(), *)
(* or reset() after the FIFO dropped the tombstone), or when the session   *)
(* lives on only as a tombstone and the full FIFO drops it.  No TTL,       *)
(* eviction, new configuration or update gives a terminated session a      *)
(* fresh start.                                                            *)
TerminationSticky ==
  [][\A s \in Sessions :
       (IsTerminated(s) /\ ~IsTerminated(s)') =>
          \/ ForceReset(s)
          \/ Reset(s) /\ s \notin Tombstones
          \/ Clear
          \/ /\ s \in Tombstones
             /\ Len(terminatedIds') = cfg'.maxTerminated]_vars

(* A session that leaves the table, and one that becomes terminated, stops *)
(* pinning its parent in the same step.                                    *)
GoneReleasesParent ==
  [][\A s \in Sessions :
       (s \in Live /\ (s \notin Live' \/ sessions[s].terminated # sessions'[s].terminated))
         => edges'[s] = NoEdge]_vars

(* While a live child refers to it, a session leaves the table only by an  *)
(* operator's reset or past the hard ceiling.                              *)
PinKeepsSession ==
  [][\A s \in Live :
       (Pinned(s) /\ s \notin Live') =>
          Reset(s) \/ ForceReset(s) \/ Clear \/ ForceEvictPinned]_vars

(* update() returns, however many pinned sessions it queues again and      *)
(* whatever the registry does meanwhile.                                   *)
UpdateReturns == op.phase = "reap" ~> Idle

(* guard._derive_tier(): a session is held at tier 3 by its own            *)
(* termination or by that of any ancestor, with no configuration override. *)
TerminatedFloor(s) ==
  IsTerminated(s) \/ \E a \in ToSet(Ancestors(s)) : IsTerminated(a)

(* The docstring of _force_evict_pinned(): "the tier-3 floor (D4) is       *)
(* unaffected", for every session below the evicted one.                   *)
CeilingKeepsFloor ==
  [][ForceEvictPinned => \A s \in Sessions : TerminatedFloor(s) => TerminatedFloor(s)']_vars
=============================================================================
