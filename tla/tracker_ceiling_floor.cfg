\* An eviction past the ceiling with room for every tombstone.
CONSTANTS
  None = None
  s1 = s1
  s2 = s2
  s3 = s3
  Sessions = {s1, s2, s3}
  Configs <- PinConfigs
  LineageConfigs <- LineageOne
  Scans <- MutedScan
  LineageWired = TRUE
  RateWindow = 0
  Tier3Floor = 3
  MaxEntries = 3
  MaxNow = 1
SPECIFICATION PartSpec
SYMMETRY Symmetry
PROPERTY CeilingKeepsFloor
