\* A session below a terminated one whose own result is being ingested.
CONSTANTS
  None = None
  Ingest = Ingest
  Orphan = Orphan
  s1 = s1
  s2 = s2
  c1 = c1
  c2 = c2
  Sessions = {s1, s2}
  Calls = {c1, c2}
  Tools <- FloorTools
  Outcomes <- FloorOutcomes
  LineageConfigs <- LineageOne
  MaxNow = 0
  LineageWired = TRUE
  InheritTiers = TRUE
  ExemptParamScan = FALSE
  FailOpen = TRUE
  CanApprove = TRUE
SPECIFICATION FloorSpec
INVARIANT FloorIsBlocked
