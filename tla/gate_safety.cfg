\* The gate with two host threads, two sessions, lineage, ingestion and timeouts;
\* the cold-start markers; the approvals of degraded scans.
CONSTANTS
  None = None
  Ingest = Ingest
  Orphan = Orphan
  s1 = s1
  s2 = s2
  c1 = c1
  c2 = c2
  Sessions = {s1, s2}
  Calls = {c1, c2}
  Tools <- GateTools
  Outcomes <- GateOutcomes
  LineageConfigs <- LineageOne
  MaxNow = 0
  LineageWired = TRUE
  InheritTiers = TRUE
  ExemptParamScan = FALSE
  FailOpen = TRUE
  CanApprove = TRUE
  ColdThreads = {"t", "u"}
  ColdSessions = {"s", "r"}
  Anon = "anon"
  MaxKeys = 2
  MaxColdCalls = 4
  ApprovalSessions = {"s", "r"}
  PromptedCalls = {"c", "d", "e"}
  SessionOf <- GateSessionOf
  MaxPending = 2
  MaxPrompts = 4
SPECIFICATION PartSpec
SYMMETRY Symmetry
INVARIANTS SealedIsBlocked EvaluatedStaysLive DangerousIsScanned
           MarkersAccounted 
