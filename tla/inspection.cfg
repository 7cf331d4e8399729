\* Inspections that overlap at the breaker of an ML scanner, across reloads.
CONSTANTS
  i1 = i1
  i2 = i2
  Inspections = {i1, i2}
  NumScanners = 1
  StructuralRules = {"structural"}
  SelfmodRules = {"selfmod"}
  InjectionRules = {"injection"}
  OtherRules = {"pii", "command"}
  Profiles <- PipelineProfiles
  Reports <- MLReports
  Syntactic <- SyntacticReports
  Configs <- PipelineConfigs
  TierAnswers = {"tier1"}
  Absent = Absent
  NoSession = NoSession
  None = None
  a1 = a1
  a2 = a2
  \* Two sessions and scans without one; a reload shrinks the buffers.
  AlertSessions = {a1, a2}
  AlertScans <- RaisingScans
  SelfmodAlerts = {"petasos.selfmod.config_write"}
  AlertConfigs <- LimitConfigs
  Minute = 1
  Hour = 2
  MaxAlertNow = 3
  MaxAlertCalls = 4
  MaxNow = 2
  \* Two sessions that delegate while the window and the cap are reloaded.
  Delegators = {"s", "r"}
  BaseCaps = {2, 4}
  Windows = {1, 2}
  LongestWindow = 2
  MaxSpawnNow = 3
  MaxReloads = 1
  \* Content anywhere in a result of any size around the ceiling, shorter and
  \* longer than the overlap.
  HeadChars = 2
  ChunkChars = 5
  ChunkOverlap = 2
  Ceiling = 9
  MaxSize = 11
  MaxLen = 4
  \* Texts of which one holds the other two; the store has room for two
  \* sessions and for two spans of each.
  TaintSessions = {"s", "r", "q"}
  TaintTexts = {"a", "b", "ab"}
  Within <- Containment
  LengthOf <- ContentLength
  Namespaces = {"mail", "web"}
  SpanFloors = {1, 2}
  MaxSpans = 2
  MaxSessions = 2
  MaxLeaves = 2
  TaintResults <- ToolResults
  MaxCaptures = 4
  \* A cancelled scan leaves its worker to the next one.
  Workers = {"w", "v"}
  MaxAttempts = 2
  SubScanners = 2
  MaxScans = 5
  MaxResets = 2
  Firewalls = {"f", "g"}
  FwThreads = {"t", "u"}
  MaxFwScans = 3
  Enabled <- FirewallParts
SPECIFICATION PartSpec
SYMMETRY Swaps
CHECK_DEADLOCK FALSE
INVARIANTS MergeKeepsWorst SafeIsScanned FloorHolds
            RulesRaise ScanIsExact
             TerminalKept
PROPERTIES BreakerIsEarned  
