----------------------------- MODULE SpawnBudget -----------------------------
(***************************************************************************)
(* The delegation budget of ToolCallGuard: a rolling window of the spawns  *)
(* of each session (SpawnBudget in guard.py), whose cap depends on the     *)
(* tier of the session (_fanout_cap) and whose length a reload may change. *)
(* try_consume() is one critical section.  A delegation that a later step  *)
(* of evaluate() refuses, at tier 2, has used its unit all the same.       *)
(***************************************************************************)
EXTENDS SlidingWindow

CONSTANTS
  Delegators,
  BaseCaps,      \* the values of delegate_max_fanout_per_window
  Windows,       \* the values of delegate_fanout_window_seconds
  LongestWindow, \* bound: what the history keeps; no window is longer
  MaxSpawnNow,   \* bound: time
  MaxReloads     \* bound: reloads of the window and the cap

ASSUME SpawnAssumption ==
  /\ BaseCaps \subseteq Nat \ {0} /\ Windows \subseteq Nat \ {0}
  /\ LongestWindow \in Nat /\ \A w \in Windows : w <= LongestWindow
  /\ MaxSpawnNow \in Nat /\ MaxReloads \in Nat

VARIABLES
  spawnNow,
  window, base, reloads,
  events,   \* _events: the spawns of a session, oldest first; <<>> if it has no deque
  lastSweep,
  \* History: the spawns of a session, and the latest instant up to which
  \* they had left the window when its deque was looked at.
  spawns, forgotten

spawnVars == <<spawnNow, window, base, reloads, events, lastSweep, spawns, forgotten>>

SpawnTiers == {"none", "tier1", "tier2"}

FanoutCap(tier) ==
  CASE tier = "tier2" -> 1
    [] tier = "tier1" -> IF base >= 4 THEN base \div 2 ELSE 1
    [] OTHER -> base

LastSpawn(s) == s[Len(s)]

(* What the history keeps.                                                *)
Recent(times) == After(times, spawnNow - LongestWindow)

Cutoff == spawnNow - window

(* Mutant: the sweep judges a deque by its oldest spawn.                   *)
StaleByOldest(times) == times # <<>> /\ times[1] <= Cutoff

Stale(times) == times # <<>> /\ LastSpawn(times) <= Cutoff

(* At most once in a window, the deques that have run empty are dropped.   *)
SweepDue == spawnNow - lastSweep >= window
Swept == IF SweepDue
         THEN [s \in Delegators |-> IF Stale(events[s]) THEN <<>> ELSE events[s]]
         ELSE events

(* Spawns leave from the left.                                             *)
Pruned(times) == After(times, Cutoff)

(* evaluate() at step 3.5, for a session of this tier.                     *)
Delegate(s, tier) ==
  LET live == Pruned(Swept[s])
      granted == Len(live) < FanoutCap(tier)
  IN  /\ events' = [Swept EXCEPT ![s] = IF granted THEN Append(live, spawnNow) ELSE live]
      /\ lastSweep' = IF SweepDue THEN spawnNow ELSE lastSweep
      /\ spawns' = IF granted THEN [spawns EXCEPT ![s] = Append(Recent(@), spawnNow)] ELSE spawns
      /\ forgotten' = [r \in Delegators |->
           IF (r = s \/ (SweepDue /\ Stale(events[r]))) /\ Cutoff > forgotten[r]
           THEN Cutoff ELSE forgotten[r]]
      /\ UNCHANGED <<spawnNow, window, base, reloads>>

SpawnTick ==
  /\ spawnNow < MaxSpawnNow
  /\ spawnNow' = spawnNow + 1
  /\ UNCHANGED <<window, base, reloads, events, lastSweep, spawns, forgotten>>

(* apply_config(): set_window() keeps the spawns that are buffered.        *)
ReloadBudget(w, b) ==
  /\ reloads < MaxReloads
  /\ w # window \/ b # base
  /\ reloads' = reloads + 1
  /\ window' = w /\ base' = b
  /\ UNCHANGED <<spawnNow, events, lastSweep, spawns, forgotten>>

SpawnInit ==
  /\ spawnNow = 0 /\ lastSweep = 0
  /\ window \in Windows /\ base \in BaseCaps /\ reloads = 0
  /\ events = [s \in Delegators |-> <<>>]
  /\ spawns = [s \in Delegators |-> <<>>]
  /\ forgotten = [s \in Delegators |-> 0 - window]

SpawnNext ==
  \/ SpawnTick
  \/ \E w \in Windows, b \in BaseCaps : ReloadBudget(w, b)
  \/ \E s \in Delegators, tier \in SpawnTiers : Delegate(s, tier)

SpawnSpec == SpawnInit /\ [][SpawnNext]_spawnVars

-----------------------------------------------------------------------------
(* The spawns of a session in the window that ends now, counted from the   *)
(* history of the process, except those an earlier, shorter window has let *)
(* go.                                                                     *)
InWindow(s) == After(spawns[s], IF Cutoff > forgotten[s] THEN Cutoff ELSE forgotten[s])

(* However the map is pruned, swept and reinterpreted by reloads, a deque  *)
(* counts the spawns of its session within the window, and a delegation is *)
(* granted only while these are fewer than the cap (guard.py:611-637).     *)
FanoutRationed ==
  [][\A s \in Delegators : /\ Pruned(events[s]) = InWindow(s)
                           /\ spawns'[s] # spawns[s] => Len(InWindow(s)) < base]_spawnVars
=============================================================================
