-------------------------------- MODULE MCLive --------------------------------
(* What waits, and for what: a tool call for a reload, a scan for a model, *)
(* an update() for its own loop, the policy for a profile change.  The     *)
(* parts share no state here: each behaviour is one of the part chosen at  *)
(* its start, the others stay in an initial state.                         *)
EXTENDS MCReload, PromptGuard, Spool

VARIABLE part
VARIABLES now, edges, lineageCfg, sessions, terminatedIds, ttlDeque, creationTimestamps, cfg, op
VARIABLES pinned, staged, init, policy, protects, keyed, slot, rebind, caller, posted, done,
          rebinds

tableVars == <<now, edges, lineageCfg, sessions, terminatedIds, ttlDeque, creationTimestamps,
               cfg, op>>
profileVars == <<pinned, staged, init, policy, protects, keyed, slot, rebind, caller, posted,
                 done, rebinds>>
partVars == <<part, vars, tableVars, promptVars, profileVars, spoolVars>>

-----------------------------------------------------------------------------
(* Two sessions that pin each other in a table for one, while the registry *)
(* keeps changing.                                                         *)
Small == [maxSessions |-> 1, maxTerminated |-> 3, sessionTTL |-> 1, maxNew |-> 1,
          rollingWindow |-> 1, rollingThreshold |-> 1, tier1 |-> 1, tier2 |-> 2, tier3 |-> 3]
Edges == [maxDepth |-> 2, maxEdges |-> 2, edgeTTL |-> 1]

Table == INSTANCE FrequencyTracker WITH
           Sessions <- {"s", "r"}, Configs <- {Small},
           LineageConfigs <- {Edges},
           Scans <- {[findings |-> TRUE, weight |-> 3, capped |-> TRUE, cap |-> 0]},
           LineageWired <- TRUE, RateWindow <- 0, Tier3Floor <- 3, MaxEntries <- 1, MaxNow <- 1

(* A build of the plugin, a tool call and one change of the profile.       *)
Profile == INSTANCE ProfileRebind WITH
             Homes <- {"a", "b", "n"}, Valid <- {"a", "b"}, Sectionless <- {"n"}, BootHome <- "a",
             Callers <- {"c"}, Rebinder <- "rebinder", MaxRebinds <- 1

(* Two gateway threads write to one home.                                  *)
SpoolHome == [w1 |-> "home", w2 |-> "home"]

ASSUME LiveAssumption == Profile!RebindAssumption

PartInit ==
  /\ part \in {"reload", "table", "prompt", "profile", "spool"}
  /\ Init
  /\ Table!Init
  /\ PromptInit
  /\ IF part = "prompt" THEN TRUE ELSE host = [packages |-> TRUE, complete |-> TRUE, download |-> TRUE]
  /\ Profile!Init
  /\ SpoolInit
  /\ IF part = "spool" THEN TRUE ELSE binding = "home"

PartNext ==
  /\ \/ part = "reload" /\ Next
     \/ part # "reload" /\ UNCHANGED vars
  /\ \/ part = "table" /\ Table!Next
     \/ part # "table" /\ UNCHANGED tableVars
  /\ \/ part = "prompt" /\ PromptNext
     \/ part # "prompt" /\ UNCHANGED promptVars
  /\ \/ part = "profile" /\ Profile!Next
     \/ part # "profile" /\ UNCHANGED profileVars
  /\ \/ part = "spool" /\ SpoolNext
     \/ part # "spool" /\ UNCHANGED spoolVars
  /\ UNCHANGED part

Reloading(A) == part = "reload" /\ A /\ UNCHANGED <<part, tableVars, promptVars, profileVars, spoolVars>>
Updating(A)  == part = "table" /\ A /\ UNCHANGED <<part, vars, promptVars, profileVars, spoolVars>>
Scanning(A)  == part = "prompt" /\ A /\ UNCHANGED <<part, vars, tableVars, profileVars, spoolVars>>
Binding(A)   == part = "profile" /\ A /\ UNCHANGED <<part, vars, tableVars, promptVars, spoolVars>>
Draining(A)  == part = "spool" /\ A /\ UNCHANGED <<part, vars, tableVars, promptVars, profileVars>>

Body(t) == BodyStep(t) \/ CancelPolling(t)

(* What each module assumes of the scheduling of its part.  The actions of *)
(* different parts are never enabled in one behaviour: fairness to their   *)
(* disjunction is fairness to each, and cheaper to check.                  *)
PartFairness ==
  /\ WF_partVars(\/ \E h \in Hooks : Reloading(HookStep(h))
                 \/ Updating(Table!ContinueUpdate)
                 \/ Scanning(Tick)
                 \/ Binding(Profile!Inits \/ Profile!InitFails)
                 \/ Draining(ReaderNext))
  /\ WF_partVars(\/ \E h \in Hooks : Reloading(Body(<<h, "apply">>))
                 \/ Scanning(Runs("p"))
                 \/ Binding(Profile!Rebinds))
  /\ WF_partVars(\/ \E h \in Hooks : Reloading(Body(<<h, "evaluate">>))
                 \/ Scanning(Runs("q"))
                 \/ Binding(Profile!Deliver))
  /\ WF_partVars(Reloading(Body(<<Ingest, "ingest">>)) \/ Binding(Profile!Applies))
  /\ WF_partVars(Binding(Profile!Calls("c")))
  /\ SF_partVars(\/ \E h \in Hooks : Reloading(Acquire(<<h, "apply">>))
                 \/ Draining(ReadLive(TRUE)))
  /\ SF_partVars(\/ \E h \in Hooks : Reloading(Acquire(<<h, "evaluate">>))
                 \/ Draining(ReadOrphan(TRUE) \/ ReadRotated(TRUE)))

PartSpec == PartInit /\ [][PartNext]_partVars /\ PartFairness

-----------------------------------------------------------------------------
(* FrequencyTracker: an update returns.                                    *)
UpdateReturns == Table!UpdateReturns

(* ProfileRebind: the policy of the home that stays pinned is in force.    *)
PolicyFollowsHome == Profile!PolicyFollowsHome
===============================================================================
