\* The inbound floor against a profile that lowers the severity of another rule.
CONSTANTS
  i1 = i1
  i2 = i2
  Inspections = {i1, i2}
  NumScanners = 1
  StructuralRules = {"structural"}
  SelfmodRules = {"selfmod"}
  InjectionRules = {"injection"}
  OtherRules = {"pii", "command"}
  Profiles <- PipelineProfiles
  Reports <- MLReports
  Syntactic <- SyntacticReports
  Configs <- PipelineConfigs
  TierAnswers = {"tier1"}
  Absent = Absent
  MaxNow = 2
SPECIFICATION Spec
SYMMETRY Symmetry
INVARIANT FloorIsAbsolute
