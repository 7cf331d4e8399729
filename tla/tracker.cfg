\* The tracker wired to the lineage registry, or under configuration reloads.
CONSTANTS
  None = None
  s1 = s1
  s2 = s2
  s3 = s3
  Sessions = {s1, s2, s3}
  Configs <- TrackerConfigs
  LineageConfigs <- LineageOne
  Scans <- ReloadScans
  LineageWired = TRUE
  RateWindow = 0
  Tier3Floor = 3
  MaxEntries = 3
  MaxNow = 2
SPECIFICATION PartSpec
SYMMETRY Symmetry
INVARIANTS UpdatedSessionStays TombstoneAgreement
PROPERTIES  GoneReleasesParent 
