------------------------------ MODULE MCTracker ------------------------------
(* Instances of FrequencyTracker for TLC. *)
EXTENDS FrequencyTracker, TLC

CONSTANTS s1, s2, s3

(* A light scan, one that reaches tier 3 by itself, findings that weigh    *)
(* nothing, and scans clamped to one unit and to nothing.                  *)
Light  == [findings |-> TRUE, weight |-> 1, capped |-> FALSE, cap |-> 0]
Heavy  == [findings |-> TRUE, weight |-> 3, capped |-> FALSE, cap |-> 0]
Capped == [findings |-> TRUE, weight |-> 3, capped |-> TRUE, cap |-> 1]
Muted  == [findings |-> TRUE, weight |-> 3, capped |-> TRUE, cap |-> 0]

ReloadScans  == {Light, Heavy, Capped, Muted}
MutedScan    == {Muted}

ReloadBase ==
  [maxSessions |-> 2, maxTerminated |-> 2, sessionTTL |-> 1, maxNew |-> 2,
   rollingWindow |-> 1, rollingThreshold |-> 2, tier1 |-> 1, tier2 |-> 2, tier3 |-> 3]

(* Two sessions can pin each other in a table for one, and a third exceeds *)
(* its ceiling.                                                            *)
PinConfig == [ReloadBase EXCEPT !.maxSessions = 1, !.maxNew = 3, !.maxTerminated = 3,
                                !.rollingThreshold = 1]

PinConfigs     == {PinConfig}

(* Reloads change the tombstone cap and tier 3, not the table's size or the *)
(* time to live.                                                           *)
SoloBase       == [ReloadBase EXCEPT !.maxSessions = 1, !.sessionTTL = 2]
ReloadConfigs  == {SoloBase,
                   [SoloBase EXCEPT !.maxTerminated = 1, !.tier3 = 4, !.rollingThreshold = 1]}

LineageBase    == [maxDepth |-> 2, maxEdges |-> 2, edgeTTL |-> 1]
LineageOne     == {LineageBase}

TrackerConfigs == PinConfigs \cup ReloadConfigs

Symmetry == Permutations(Sessions)

-----------------------------------------------------------------------------
(* Each behaviour is about sessions that pin one another, which muted      *)
(* scans show in a short time, or about reloads, without lineage.          *)
VARIABLE part

partVars == <<part, vars>>

PartInit ==
  /\ part \in {"pins", "reloads"}
  /\ Init
  /\ cfg \in IF part = "pins" THEN PinConfigs ELSE ReloadConfigs

PinNext ==
  \/ now = 0 /\ TimePasses
  \/ LineageStep
  \/ ContinueUpdate
  \/ \E s \in Sessions : BeginUpdate(s, Muted)
  \/ OperatorStep /\ UNCHANGED cfg

ReloadNext ==
  \/ TimePasses
  \/ UpdateStep
  \/ OperatorStep /\ cfg' \in ReloadConfigs

PartNext ==
  /\ \/ part = "pins" /\ PinNext
     \/ part = "reloads" /\ ReloadNext
  /\ UNCHANGED part

PartSpec == PartInit /\ [][PartNext]_partVars
=============================================================================
