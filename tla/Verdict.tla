------------------------------- MODULE Verdict --------------------------------
(***************************************************************************)
(* How Pipeline.inspect() turns the results of its scanners into a verdict *)
(* (petasos/pipeline.py, stages 4b to 8b): suppression by the profile,     *)
(* resolution of overlapping findings, the safety net, the profile's       *)
(* confidence floor and severity overrides, and the fail mode.             *)
(*                                                                         *)
(* A severity is its rank: 0 is critical and 4 is info.  Confidences are   *)
(* natural numbers.  What a finding says, and the anonymised text that is  *)
(* made from it, are left out.                                             *)
(***************************************************************************)
EXTENDS Subsequences, FiniteSets, SequencesExt

CONSTANTS
  StructuralRules,  \* rule ids of the structural checks
  SelfmodRules,     \* ... with the prefix petasos.selfmod.
  InjectionRules,   \* ... of the injection, role-switch and directive families
  OtherRules        \* all other rule ids

Rules == StructuralRules \cup SelfmodRules \cup InjectionRules \cup OtherRules

Critical == 0
High == 1
Ranks == 0 .. 4

(* A finding without a position has placed = FALSE; its span is not used. *)
Finding == [rule : Rules, rank : Ranks, confidence : Nat, placed : BOOLEAN,
            start : Nat, end : Nat]

(* error: none, the scanner's wait_for() timed out, its circuit breaker is *)
(* open, or it raised.                                                     *)
ScanResult == [findings : Seq(Finding), error : {"none", "timeout", "open", "raised"}]

Directions == {"inbound", "outbound"}

(* A profile as it is written down.  overrides[r] is the rank a rule is    *)
(* moved to, or Keep.                                                      *)
Keep == 5
Profile == [suppress : SUBSET Rules, overrides : [Rules -> Ranks \cup {Keep}],
            confidenceFloor : Nat, scope : {"all", "inbound"}]

-----------------------------------------------------------------------------
(* ResolvedProfile.__post_init__() strips what may not be suppressed.      *)
ValidateSuppressRules(rules, scope) ==
  rules \ (StructuralRules \cup SelfmodRules
             \cup IF scope = "inbound" THEN {} ELSE InjectionRules)

Resolve(p) == [p EXCEPT !.suppress = ValidateSuppressRules(p.suppress, p.scope)]

(* Mutant: a profile that relaxes the floor relaxes it in both directions. *)
IsFloorRuleByScope(rule, direction, scope) ==
  \/ rule \in StructuralRules \cup SelfmodRules
  \/ rule \in InjectionRules /\ scope # "inbound"

IsFloorRule(rule, direction, scope) ==
  \/ rule \in StructuralRules \cup SelfmodRules
  \/ rule \in InjectionRules /\ ~(scope = "inbound" /\ direction = "outbound")

(* _suppress_scanner_findings(), on all findings in the scanners' order.   *)
Suppress(findings, p, direction) ==
  Only(findings, {k \in DOMAIN findings : \/ findings[k].rule \notin p.suppress
                                           \/ IsFloorRule(findings[k].rule, direction, p.scope)})

-----------------------------------------------------------------------------
(* list.sort(key=start), which is stable. *)
SortByStart(findings) ==
  LET Place(i) == Cardinality({j \in DOMAIN findings :
                                 \/ findings[j].start < findings[i].start
                                 \/ findings[j].start = findings[i].start /\ j <= i})
  IN  [k \in DOMAIN findings |-> findings[CHOOSE i \in DOMAIN findings : Place(i) = k]]

(* One turn of the loop: the findings that have survived, the last of      *)
(* which is current, and the next one.                                     *)
(* Mutant: the less severe of two overlapping findings stays. *)
OverlapReversed(surviving, nxt) ==
  LET current == Last(surviving) IN
  IF nxt.start >= current.end THEN Append(surviving, nxt)
  ELSE IF nxt.rank > current.rank THEN Append(Front(surviving), nxt) ELSE surviving

Overlap(surviving, nxt) ==
  LET current == Last(surviving) IN
  CASE nxt.start >= current.end -> Append(surviving, nxt)
    [] nxt.start < current.end /\ nxt.rank < current.rank -> Append(Front(surviving), nxt)
    [] nxt.start < current.end /\ nxt.rank > current.rank -> surviving
    [] nxt.start < current.end /\ nxt.rank = current.rank ->
         CASE nxt.confidence > current.confidence -> Append(Front(surviving), nxt)
           [] nxt.confidence < current.confidence -> surviving
           [] nxt.confidence = current.confidence -> Append(surviving, nxt)

(* The loop over the findings with a position, in order of their starts.   *)
Resolved(placed) ==
  LET surviving[n \in 0 .. Len(placed)] ==
        IF n = 0 THEN << >> ELSE IF n = 1 THEN <<placed[1]>> ELSE Overlap(surviving[n - 1], placed[n])
  IN  surviving[Len(placed)]

MergeFindings(findings) ==
  LET placed   == Only(findings, {k \in DOMAIN findings : findings[k].placed})
      unplaced == Only(findings, {k \in DOMAIN findings : ~findings[k].placed})
  IN  Resolved(SortByStart(placed)) \o unplaced

-----------------------------------------------------------------------------
(* _standalone_tier3_check() *)
NetCount == 3
StandaloneTier3Check(findings) ==
  Cardinality({i \in DOMAIN findings : findings[i].rank = Critical}) >= NetCount

(* Stage 5c: a floor rule is only escalated. *)
Override(f, p, direction) ==
  LET rank == p.overrides[f.rule] IN
  IF rank = Keep \/ (IsFloorRule(f.rule, direction, p.scope) /\ rank >= f.rank)
  THEN f ELSE [f EXCEPT !.rank = rank]

(* Stages 5b and 5c. *)
Adjust(merged, p, direction) ==
  LET kept == Only(merged, {k \in DOMAIN merged : merged[k].confidence >= p.confidenceFloor})
  IN  [k \in DOMAIN kept |-> Override(kept[k], p, direction)]

(* Mutant: a scanner whose breaker is open has not failed. *)
ComputeSafeUnlessOpen(findings, minimal, ml, failMode) ==
  /\ \A k \in DOMAIN findings : findings[k].rank > High
  /\ failMode # "open" => /\ minimal.error = "none"
                          /\ \A s \in DOMAIN ml : ml[s].error \in {"none", "open"}

(* _compute_safe(): degraded and closed treat the failure of some and of   *)
(* all scanners alike.                                                     *)
ComputeSafe(findings, minimal, ml, failMode) ==
  /\ \A k \in DOMAIN findings : findings[k].rank > High
  /\ failMode # "open" => /\ minimal.error = "none"
                          /\ \A s \in DOMAIN ml : ml[s].error = "none"

(* Stage 3: in closed mode a critical syntactic finding skips the fan-out. *)
EarlyExit(minimal, failMode) ==
  failMode = "closed" /\ \E k \in DOMAIN minimal.findings : minimal.findings[k].rank = Critical
=============================================================================
