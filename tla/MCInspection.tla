----------------------------- MODULE MCInspection -----------------------------
(* An inspection, the alerts it may raise and the parts around it that     *)
(* share no state with it: each behaviour is one of the part that is       *)
(* chosen at its start, the others stay in an initial state.               *)
EXTENDS MCPipeline, AlertManager, SpawnBudget, IngestScan, TaintStore, LlmGuard,
        LlamaFirewall

CONSTANTS a1, a2

VARIABLE part
VARIABLES input, at, findings, seen, left, matched

syntacticVars == <<input, at, findings, seen, left, matched>>
partVars == <<part, vars, alertVars, spawnVars, taintVars, ingestVars, lgVars, syntacticVars, firewallVars>>

Parts == {"pipeline", "alerts", "spawns", "taint", "ingestion", "syntactic", "llm_guard", "llama_firewall"}

-----------------------------------------------------------------------------
(* Two sessions and scans without one; a reload shrinks the buffers.       *)
Calm       == [escalates |-> "no", severe |-> FALSE, found |-> FALSE, troubled |-> FALSE, pii |-> 0]
Broken     == [Calm EXCEPT !.troubled = TRUE]
Leak       == [Broken EXCEPT !.found = TRUE, !.pii = 1]
Terminal   == [Broken EXCEPT !.found = TRUE, !.severe = TRUE, !.escalates = "critical"]
Limits     == [cooldown |-> 3, perMinute |-> 2, perHour |-> 2, criticalPerMinute |-> 1,
               perSession |-> 1, maxEntries |-> 3, rapidCount |-> 2, rapidWindow |-> 2,
               burstCount |-> 2, burstWindow |-> 1, piiThreshold |-> 2, piiWindow |-> 1, capacity |-> 3]

RaisingScans == {Broken, Leak, Terminal}
LimitConfigs == {Limits, [Limits EXCEPT !.capacity = 2]}

(* Three sessions and texts of which one holds the other two; the store    *)
(* has room for two of each.                                               *)
Containment   == {<<"a", "a">>, <<"b", "b">>, <<"ab", "ab">>, <<"a", "ab">>, <<"b", "ab">>}
ContentLength == [a |-> 1, b |-> 1, ab |-> 2]
ToolResults   == {<<"a">>, <<"b", "ab">>, <<"a", None, "b">>, <<"ab">>}

(* Two scanners of one process, whose enabled parts differ.                *)
FirewallParts == [f |-> {"prompt_guard", "code_shield"}, g |-> {"code_shield"}]

(* Every text with one way to hold something, and combinations in which a  *)
(* view, an encoding or a profile could hide or repeat it.                 *)
Nil      == [blob |-> TRUE, raw |-> {}, normalized |-> {}, separator |-> {}, composed |-> {}]
Rot      == [Nil EXCEPT !.blob = FALSE]
Empty    == [outbound |-> FALSE, decode |-> TRUE, suppress |-> {}, structural |-> {}, encoding |-> {},
             normalized |-> {}, leet |-> {}, separator |-> {}, composed |-> {}, spans |-> <<>>,
             rot13 |-> Rot]
Plot     == {{}, {"override"}, {"trigger"}, {"grant"}, {"trigger", "grant"}, {"directive"},
             {"wipe"}, {"override", "trigger", "directive", "wipe"}}
Payloads == {[Nil EXCEPT !.raw = {"override"}], [Nil EXCEPT !.raw = {"trigger"}, !.separator = {"grant"}],
             [Nil EXCEPT !.raw = {"trigger", "grant"}], [Nil EXCEPT !.normalized = {"directive"}],
             [Nil EXCEPT !.composed = {"override"}, !.separator = {"directive"}]}
Ciphers  == {Rot, [Rot EXCEPT !.raw = {"override", "directive"}]}
Encoded  == {<<>>} \cup {<<<<c>>>> : c \in Payloads} \cup {<<<<c>>, <<d, c>>>> : c, d \in Payloads}
                   \cup {<<<<>>, <<>>, <<c>>>> : c \in Payloads}
Strange  == {{}, {"invisible-chars", "base64-in-text"}}
Texts    ==
  {[Empty EXCEPT !.outbound = o, !.normalized = n, !.separator = v, !.leet = e, !.composed = e] :
     o \in BOOLEAN, n, v \in Plot, e \in {{}, {"override"}}} \cup
  {[Empty EXCEPT !.normalized = n, !.spans = d, !.rot13 = r, !.decode = k, !.structural = t] :
     n \in Plot, d \in Encoded, r \in Ciphers, k \in BOOLEAN, t \in {{}, {"binary-content"}}}
SyntacticInputs == {[t EXCEPT !.encoding = e, !.suppress = u] :
     t \in Texts, e \in Strange, u \in {{}, {"invisible-chars", "override", "role-switch-capability", "wipe"}}}

Minimal == INSTANCE SyntacticScan WITH
             Injections <- {"override"}, Commands <- {"wipe"}, MaxBlobs <- 2, Inputs <- SyntacticInputs

ASSUME PartsAssumption == Minimal!SyntacticAssumption

-----------------------------------------------------------------------------
(* A part that is not the one chosen is in one of its initial states.      *)
Parked(p, resting) == IF part = p THEN TRUE ELSE resting

PartInit ==
  /\ part \in Parts
  /\ Parked("pipeline", cfg = Base) /\ Init
  /\ alertCfg = Limits /\ AlertInit
  /\ Parked("spawns", window = 1 /\ base = 2) /\ SpawnInit
  /\ Parked("taint", floor = 1) /\ TaintInit
  /\ Parked("ingestion", /\ result = [size |-> 0, content |-> None] /\ mutexFree = TRUE
                         /\ gate = [armed |-> TRUE, ingests |-> TRUE, initialized |-> TRUE,
                                    pipeline |-> TRUE])
  /\ IngestInit
  /\ Parked("syntactic", input = Empty) /\ Minimal!Init
  /\ Parked("llm_guard", backend = "fine") /\ LlmGuardInit
  /\ Parked("llama_firewall", site = [package |-> TRUE, model |-> TRUE]) /\ FirewallInit

PartNext ==
  /\ \/ part = "pipeline" /\ Next
     \/ part # "pipeline" /\ UNCHANGED vars
  /\ \/ part = "alerts" /\ AlertNext
     \/ part # "alerts" /\ UNCHANGED alertVars
  /\ \/ part = "spawns" /\ SpawnNext
     \/ part # "spawns" /\ UNCHANGED spawnVars
  /\ \/ part = "taint" /\ TaintNext
     \/ part # "taint" /\ UNCHANGED taintVars
  /\ \/ part = "ingestion" /\ IngestNext
     \/ part # "ingestion" /\ UNCHANGED ingestVars
  /\ \/ part = "syntactic" /\ Minimal!Next
     \/ part # "syntactic" /\ UNCHANGED syntacticVars
  /\ \/ part = "llm_guard" /\ LlmGuardNext
     \/ part # "llm_guard" /\ UNCHANGED lgVars
  /\ \/ part = "llama_firewall" /\ FirewallNext
     \/ part # "llama_firewall" /\ UNCHANGED firewallVars
  /\ UNCHANGED part

PartSpec == PartInit /\ [][PartNext]_partVars

-----------------------------------------------------------------------------
(* SyntacticScan: a scan reports what the text holds, once.                *)
ScanIsExact == part = "syntactic" => Minimal!ScanIsExact

Swaps == Symmetry \cup Permutations({a1, a2})
=============================================================================
