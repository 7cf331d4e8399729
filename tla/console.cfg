\* History and approvals with one upset, or two writers, a tab and a gateway.
CONSTANTS
  None = None
  Nothing = Nothing
  GatewayRows <- Gateway
  PlayRows <- Played
  KeyOn = TRUE
  RingCap = 2
  SinkCap = 2
  SpoolCap = 2
  TallyCap = 1
  ReadCap = 9
  MaxUpsets = 1
  MaxFindings = 3
  MaxBytes = 6
  MaxPreview = 3
  Overhead = 1
  CanReview = TRUE
  QueueCap = 1
  MaxAudits = 2
  AuditTime = 10
  \* Two consoles and two profiles, one tab, a gateway with a cached bit.
  Tabs = {"tab"}
  MaxSubscribers = 1
  StreamCap = 1
  Profiles = {"home", "other"}
  Gated = "home"
  Consoles = {"main", "second"}
  Main = "main"
  Rejected = 1
  Values = {0, 1}
  Initial = 0
  ArmedTTL = 1
  Grain = 2
  ArmedCacheMax = 2
  MaxCalls = 2
  MaxClock = 1
SPECIFICATION PartSpec
CHECK_DEADLOCK FALSE
INVARIANTS ReviewedIsAudited QueueIsHonest 
           DisarmExpires StreamsKeepUp
  
