-------------------------------- MODULE MCGate --------------------------------
(* The gate, and the records that its calls keep beside their decisions:   *)
(* the parts share no state here, each behaviour is one of the part that   *)
(* is chosen at its start, and the others stay in an initial state.        *)
EXTENDS ToolGate, ColdStart, DegradedApprovals, TLC

CONSTANTS s1, s2, c1, c2

VARIABLE part

partVars == <<part, vars, coldVars, approvalVars>>

Plain == [readOnly |-> FALSE, egress |-> FALSE, delegate |-> FALSE, exempt |-> FALSE,
          selfmod |-> FALSE, tainted |-> FALSE, waived |-> FALSE]

(* A read-only tool the profile exempts, and one that sends data out, may  *)
(* exceed the delegation budget and touches the plugin's own files.        *)
Reader    == [Plain EXCEPT !.readOnly = TRUE, !.exempt = TRUE]
Tamperer  == [Plain EXCEPT !.egress = TRUE, !.delegate = TRUE, !.selfmod = TRUE]
GateTools == {Reader, Tamperer}

Clean     == NoFindings
Degraded  == [NoFindings EXCEPT !.degraded = TRUE]
Suspect   == [NoFindings EXCEPT !.other = TRUE]
GateOutcomes == {Clean, Degraded, Suspect}

LineageOne == {[maxDepth |-> 2, maxEdges |-> 1, edgeTTL |-> 1]}

(* Three calls that may need an approval, two of them of one session.      *)
GateSessionOf == [c |-> "s", d |-> "s", e |-> "r"]

-----------------------------------------------------------------------------
PartInit ==
  /\ part \in {"gate", "cold_start", "approvals"}
  /\ Init
  /\ ColdStartInit
  /\ DegradedInit
  /\ IF part = "approvals" THEN TRUE ELSE ~approves /\ always = {}

(* The bounds of the other parts may bring them to their end.              *)
PartNext ==
  \/ part # "gate" /\ UNCHANGED partVars
  \/ /\ \/ part = "gate" /\ Next
        \/ part # "gate" /\ UNCHANGED vars
     /\ \/ part = "cold_start" /\ ColdStartNext
        \/ part # "cold_start" /\ UNCHANGED coldVars
     /\ \/ part = "approvals" /\ DegradedNext
        \/ part # "approvals" /\ UNCHANGED approvalVars
     /\ UNCHANGED part

PartSpec == PartInit /\ [][PartNext]_partVars

-----------------------------------------------------------------------------
Symmetry == Permutations(Sessions) \cup Permutations(Calls)
=============================================================================
