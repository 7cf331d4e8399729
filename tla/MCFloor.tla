------------------------------- MODULE MCFloor --------------------------------
(* An instance of GateFloor for TLC: a tool that only reads, and one that  *)
(* sends data out; the scan of a call finds nothing, or is degraded.       *)
EXTENDS GateFloor, TLC

CONSTANTS s1, s2, c1, c2

Reader == [readOnly |-> TRUE, egress |-> FALSE, delegate |-> FALSE, exempt |-> TRUE,
           selfmod |-> FALSE, tainted |-> FALSE, waived |-> FALSE]
FloorTools == {Reader, [Reader EXCEPT !.readOnly = FALSE, !.egress = TRUE, !.exempt = FALSE]}

FloorOutcomes == {NoFindings, [NoFindings EXCEPT !.degraded = TRUE]}

LineageOne == {[maxDepth |-> 2, maxEdges |-> 1, edgeTTL |-> 1]}
=============================================================================
