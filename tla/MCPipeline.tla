------------------------------ MODULE MCPipeline ------------------------------
(* Instances of Pipeline for TLC. *)
EXTENDS Pipeline, TLC

CONSTANTS i1, i2

Hit(rule, rank, confidence, start, end) ==
  [rule |-> rule, rank |-> rank, confidence |-> confidence, placed |-> TRUE,
   start |-> start, end |-> end]
Unplaced(rule, rank) ==
  [rule |-> rule, rank |-> rank, confidence |-> 2, placed |-> FALSE, start |-> 0, end |-> 0]

(* An injection that a critical match of personal data covers in part, and *)
(* a chain of overlaps.                                                    *)
Injected  == Hit("injection", High, 2, 2, 5)
Personal  == Hit("pii", Critical, 1, 4, 7)
Chain     == <<Hit("command", 2, 2, 0, 3), Injected>>

SyntacticReports == {Chain}
MLReports        == {<< >>, <<Personal>>}

Quiet      == [NoProfile EXCEPT !.suppress = {"injection", "structural"}, !.scope = "inbound"]
Lenient    == [NoProfile EXCEPT !.overrides = [@ EXCEPT !["pii"] = 4, !["command"] = 3]]
PipelineProfiles == {Quiet, Lenient}

Base == [failMode |-> "degraded", threshold |-> 2, cooldown |-> 1]
PipelineConfigs == {Base, [failMode |-> "open", threshold |-> 1, cooldown |-> 1]}

Symmetry == Permutations(Inspections)
=============================================================================
